--------------------------- MODULE Confirmations ---------------------------
(***************************************************************************)
(* The confirmation gate of mutations (src/src/mcp/mutation_safety.cpp).    *)
(*                                                                         *)
(* A dry run reads the target and mints a single-use token bound to the    *)
(* call and to what it read; the call that spends it looks the token up    *)
(* under the lock, reads the target again outside it, and erases the token *)
(* under the lock again.  The server's loop and the threads of jobs all    *)
(* call `evaluate', so these steps interleave.                             *)
(*                                                                         *)
(* The target's content stands for what the tool's probe reads of it       *)
(* (targetFingerprint): what a probe cannot see is not told apart.  The    *)
(* calls are those of tools the gate knows (canRequireConfirmation); other *)
(* tools that write are somebody else to it.                               *)
(***************************************************************************)
EXTENDS WallClock, FiniteSets

CONSTANTS Tokens,            \* 256 random bits, never used twice
          Calls,             \* the mutations: tool and arguments
          Contents,          \* what the target may hold
          Absent,            \* the target is not there
          TokenTtl,          \* kConfirmationTtlMs, in ticks
          MaxTokens,         \* the 128 of prune
          AlwaysConfirmed,   \* the calls of kAlwaysConfirmed tools
          Overwriting,       \* those of kOverwriteConfirmed tools with overwrite: true
          Unprobed           \* those of tools without a preview probe

ASSUME ConfirmationsAssumption ==
  /\ Absent \notin Contents
  /\ TokenTtl \in Nat
  /\ MaxTokens \in Nat \ {0}
  /\ AlwaysConfirmed \subseteq Calls /\ Overwriting \subseteq Calls /\ Unprobed \subseteq Calls

VARIABLES target,   \* the content of the file all the calls are about
          token,    \* m_confirmations, and the tokens not minted or no longer there
          spent     \* history: how often each token authorised a run

confirmVars == <<token, spent>>

\* An absent target has the empty fingerprint: Absent is both.
Token == [status: {"fresh", "live", "gone"}, call: Calls,
          expires: Nat, seen: Contents \union {Absent}]

ConfirmTypeOK ==
  /\ target \in Contents \union {Absent}
  /\ token \in [Tokens -> Token]
  /\ spent \in [Tokens -> Nat]

\* A token that is not in m_confirmations: not minted yet, or erased.
NotHeld(status) == [status |-> status, call |-> CHOOSE c \in Calls : TRUE,
                    expires |-> 0, seen |-> Absent]

ConfirmInit ==
  /\ target \in Contents \union {Absent}
  /\ token = [t \in Tokens |-> NotHeld("fresh")]
  /\ spent = [t \in Tokens |-> 0]

Live(ts) == {t \in Tokens : ts[t].status = "live"}

\* The tools of kAlwaysConfirmed always, the others when they are told to overwrite
\* and there is something to.
requiresConfirmation(c) == c \in AlwaysConfirmed \/ (c \in Overwriting /\ target # Absent)

\* targetFingerprint of what the probe of call c finds; empty, like that of an
\* absent target, when there is no probe.
Fingerprint(c) == IF c \in Unprobed THEN Absent ELSE target

\* The sets of tokens prune may leave: the expired ones go, then, while there is
\* no room for one more, the one that expires first.
prune(now) ==
  LET kept == {t \in Live(token) : token[t].expires >= now}
      n    == IF Cardinality(kept) < MaxTokens THEN 0
              ELSE Cardinality(kept) - MaxTokens + 1
  IN  {K \in SUBSET kept :
         /\ Cardinality(K) = Cardinality(kept) - n
         /\ \A t \in kept \ K, k \in K : token[t].expires <= token[k].expires}

\* A dry run mints token t for call c.  `now' was read when the call began, the
\* target is read here: nothing between the probe and the insertion reads it.
Mint(t, c, now) ==
  /\ token[t].status = "fresh"
  /\ \E K \in prune(now) :
       token' = [u \in Tokens |->
                   CASE u = t -> [status |-> "live", call |-> c,
                                  expires |-> now + TokenTtl, seen |-> Fingerprint(c)]
                     [] u # t /\ u \in Live(token) \ K -> NotHeld("gone")
                     [] OTHER -> token[u]]
  /\ UNCHANGED spent

\* The verdict on a token offered with call c, and what becomes of the token.
Verdict(t, c) ==
  CASE token[t].status # "live" -> "unknown"
    [] token[t].status = "live" /\ token[t].expires < clock -> "expired"
    [] token[t].status = "live" /\ token[t].expires >= clock /\ token[t].call # c -> "mismatch"
    [] OTHER -> "spendable"

LookUp(t, c) ==
  /\ token' = IF Verdict(t, c) = "expired" THEN [token EXCEPT ![t] = NotHeld("gone")] ELSE token
  /\ UNCHANGED spent

\* Mutant: a target that holds something else is let through.
Drifted_never(seen) == FALSE

\* The second reading of the target finds it there, and not as the preview did.
Drifted(seen) == target # Absent /\ target # seen

\* Mutant: the verdict found before the probe is acted on.
Spend_held(t) ==
  /\ token' = [token EXCEPT ![t] = NotHeld("gone")]
  /\ spent' = [spent EXCEPT ![t] = @ + 1]

\* Re-found under the lock, and erased.
Spend(t) ==
  /\ token[t].status = "live"
  /\ token' = [token EXCEPT ![t] = NotHeld("gone")]
  /\ spent' = [spent EXCEPT ![t] = @ + 1]

\* Another spent it meanwhile, or it was pruned.
SpentByAnother(t) ==
  /\ token[t].status # "live"
  /\ UNCHANGED confirmVars

-----------------------------------------------------------------------------
(* What the gate promises.                                                 *)

\* A token authorises one run, also when the server's loop and threads of jobs
\* offer it at the same moment: looking it up and erasing it are two critical
\* sections with the probe between them (evaluate).
TokenBuysOneRun == \A t \in Tokens : spent[t] <= 1
=============================================================================
