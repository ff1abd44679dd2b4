----------------------------- MODULE JournalLog -----------------------------
(***************************************************************************)
(* What the change journal promises, with no lock, no copy in memory and no *)
(* file replaced (src/include/didi/mcp/change_journal.hpp): calls are        *)
(* recorded one at a time and whole, under numbers that follow each other;   *)
(* an undo marks the entry it names in the same write; the newest Keep are   *)
(* kept; a journal that does not parse is left or begun again; and one in a  *)
(* newer format is left alone.                                               *)
(***************************************************************************)
EXTENDS Naturals

CONSTANTS Calls,      \* the calls that may be recorded
          Keep        \* kMaxEntries

VARIABLES log,        \* the entries, by id
          next,       \* the id of the next entry
          kind        \* what a reader of the file finds

logVars == <<log, next, kind>>

NotMarked == 0

LogInit ==
  /\ log = [i \in {} |-> NotMarked]
  /\ next = 1
  /\ kind = "absent"

\* A call is recorded once; undoes is the id of the entry it undid, or NotMarked.
Record(c, undoes) ==
  /\ kind # "newer"
  /\ \A i \in DOMAIN log : log[i].call # c
  /\ log' = [i \in {j \in DOMAIN log \union {next} : j + Keep > next} |->
               IF i = next THEN [call |-> c, undoneBy |-> NotMarked]
               ELSE IF i = undoes THEN [log[i] EXCEPT !.undoneBy = next]
               ELSE log[i]]
  /\ next' = next + 1
  /\ kind' = "ok"

\* The file stops being a journal, by a hand or a disk outside the program.
Damaged ==
  /\ kind = "ok"
  /\ kind' = "damaged"
  /\ UNCHANGED <<log, next>>

\* The damaged file is put aside; the numbers start again.
BegunAgain ==
  /\ kind = "damaged"
  /\ LogInit'

\* A newer server writes the journal in its own format.
Upgraded ==
  /\ kind = "ok"
  /\ kind' = "newer"
  /\ UNCHANGED <<log, next>>

LogNext ==
  \/ \E c \in Calls, undoes \in 0..(next - 1) : Record(c, undoes)
  \/ Damaged
  \/ BegunAgain
  \/ Upgraded

LogSpec == LogInit /\ [][LogNext]_logVars
=============================================================================
