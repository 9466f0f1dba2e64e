------------------------------ MODULE RouterBudget ------------------------------
(***************************************************************************)
(* The token budget of the prompt router (hooks/user-prompt-router.sh):    *)
(* every prompt of a session may have events injected into it, up to a cap *)
(* per prompt and a cap per session.  The hook keeps the session's count   *)
(* in a file without a lock, empties it before it writes it, and injects   *)
(* whether or not that worked; it takes a missing, empty or unreadable     *)
(* file for zero and deletes files that are two days old.                  *)
(*                                                                         *)
(* Abstractions.  Sessions share nothing: one is modelled, and its prompts *)
(* may overlap (all that come without a session_id are session "unknown"). *)
(* The query's answer is its length in tokens.  Which prompts are asked    *)
(* about is not modelled: any may stay silent.                             *)
(***************************************************************************)
EXTENDS Integers, FiniteSets

CONSTANTS
  Prompts,      \* the hooks that may run at the same time
  SessionCap,   \* SESSION_CAP
  PerFireCap,   \* PER_FIRE_CAP
  MinFire,      \* MIN_FIRE
  MaxAnswer,    \* bound: tokens in an answer
  MaxPrompts,   \* bound: prompts of the session
  MaxSpoiled    \* bound: what went wrong with the file

ASSUME RouterAssumption ==
  /\ IsFiniteSet(Prompts)
  /\ SessionCap \in Nat /\ PerFireCap \in Nat /\ MinFire \in Nat \ {0}
  /\ MaxAnswer \in Nat /\ MaxPrompts \in Nat /\ MaxSpoiled \in Nat

VARIABLES
  tokens,       \* what the file reads as
  hook,         \* hook[p]: the hook p, [at, used, fire]
  prompted,     \* prompts so far
  injected,     \* history: tokens injected into the session
  spoiled       \* history: prompts that overlapped, counts that were lost

routerVars == <<tokens, hook, prompted, injected, spoiled>>

Silent == [at |-> "idle", used |-> 0, fire |-> 0]

RouterInit ==
  /\ tokens = 0 /\ prompted = 0 /\ injected = 0 /\ spoiled = 0
  /\ hook = [p \in Prompts |-> Silent]

Running == {p \in Prompts : hook[p].at # "idle"}
Spoil == spoiled < MaxSpoiled /\ spoiled' = spoiled + 1

\* The count is read; with less than MinFire left nothing is done.
Prompt(p) ==
  /\ hook[p] = Silent
  /\ prompted < MaxPrompts /\ prompted' = prompted + 1
  /\ SessionCap - tokens >= MinFire
  /\ hook' = [hook EXCEPT ![p] = [at |-> "querying", used |-> tokens, fire |-> 0]]
  /\ IF Running = {} THEN UNCHANGED spoiled ELSE Spoil
  /\ UNCHANGED <<tokens, injected>>

\* What is left of the session does not count.
PerFireOnlyBug(used) == PerFireCap
FireCap(used) ==
  IF SessionCap - used < PerFireCap THEN SessionCap - used ELSE PerFireCap

\* The answer is cut to the cap.
Answered(p) ==
  /\ hook[p].at = "querying"
  /\ \E n \in 1..MaxAnswer :
       LET cap == FireCap(hook[p].used) IN
       hook' = [hook EXCEPT ![p] = [at |-> "counting", used |-> hook[p].used,
                                    fire |-> IF n > cap THEN cap ELSE n]]
  /\ UNCHANGED <<tokens, prompted, injected, spoiled>>

\* echo > opens the file ...
Empty(p) ==
  /\ hook[p].at = "counting"
  /\ tokens' = 0
  /\ hook' = [hook EXCEPT ![p].at = "emptied"]
  /\ UNCHANGED <<prompted, injected, spoiled>>

\* ... and writes it.
Counted(p) ==
  /\ hook[p].at = "emptied"
  /\ tokens' = hook[p].used + hook[p].fire
  /\ hook' = [hook EXCEPT ![p].at = "injecting"]
  /\ UNCHANGED <<prompted, injected, spoiled>>

\* It cannot be opened, or not be written: the answer is injected all the same.
NotCounted(p) ==
  /\ hook[p].at \in {"counting", "emptied"}
  /\ Spoil
  /\ hook' = [hook EXCEPT ![p].at = "injecting"]
  /\ UNCHANGED <<tokens, prompted, injected>>

Inject(p) ==
  /\ hook[p].at = "injecting"
  /\ injected' = injected + hook[p].fire
  /\ hook' = [hook EXCEPT ![p] = Silent]
  /\ UNCHANGED <<tokens, prompted, spoiled>>

\* Nothing to inject: no intent, no binary, no events; or the hook is killed.
StaysSilent(p) ==
  /\ p \in Running
  /\ IF hook[p].at = "emptied" THEN Spoil ELSE UNCHANGED spoiled
  /\ hook' = [hook EXCEPT ![p] = Silent]
  /\ UNCHANGED <<tokens, prompted, injected>>

\* find -mtime +1 -delete, by the next prompt of any session.
AgedOut ==
  /\ tokens > 0 /\ tokens' = 0
  /\ Spoil
  /\ UNCHANGED <<hook, prompted, injected>>

RouterNext ==
  \/ \E p \in Prompts :
       \/ Prompt(p) \/ Answered(p) \/ Empty(p) \/ Counted(p) \/ NotCounted(p)
       \/ Inject(p) \/ StaysSilent(p)
  \/ AgedOut

RouterSpec == RouterInit /\ [][RouterNext]_routerVars

-------------------------------------------------------------------------------
(* Properties. *)

RouterTypeOK ==
  /\ tokens \in Nat /\ prompted \in 0..MaxPrompts
  /\ hook \in [Prompts -> [at : {"idle", "querying", "counting", "emptied", "injecting"},
                           used : Nat, fire : Nat]]
  /\ injected \in Nat /\ spoiled \in 0..MaxSpoiled

(* A session whose prompts come one after the other gets no more than its   *)
(* cap, however its prompts end (user-prompt-router.sh:28-38, 113-122); and *)
(* each overlap, lost count and aged file lets it have at most the cap once *)
(* more.                                                                    *)
BudgetKept == injected <= SessionCap * (1 + spoiled)
===============================================================================
