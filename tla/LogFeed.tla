------------------------------- MODULE LogFeed -------------------------------
(***************************************************************************)
(* What the test host may expect of its log: log_test_message takes every  *)
(* message and answers True, which is to say that the message has been     *)
(* handed over, perhaps to a connection that broke, or is kept for         *)
(* later; what is kept is tried again in order; what is not kept any more  *)
(* is never handed over again.  At the end what is kept is lost.           *)
(***************************************************************************)
EXTENDS Naturals, Sequences, SequencesExt

CONSTANTS
  MaxEntries, \* bound: the messages of a session
  MaxCopies   \* copies of a message are counted up to here

VARIABLES
  accepted,   \* how many messages were taken
  pending,    \* those kept for later, in order
  copies,     \* how often each was handed over
  ended

feedVars == <<accepted, pending, copies, ended>>

Entries == 1..MaxEntries

Init ==
  /\ accepted = 0
  /\ pending = <<>>
  /\ copies = [e \in Entries |-> 0]
  /\ ended = FALSE

(* Trying to hand over e leaves it with as many copies or more.            *)
Tried(e) == \E c \in copies[e]..MaxCopies : copies' = [copies EXCEPT ![e] = c]

Accept ==
  /\ ~ended
  /\ accepted < MaxEntries
  /\ accepted' = accepted + 1
  /\ Tried(accepted')
  /\ pending' \in {pending, Append(pending, accepted')}
  /\ UNCHANGED ended

(* A kept message is tried again and stays where it is or goes.            *)
Retry(i) ==
  /\ ~ended
  /\ Tried(pending[i])
  /\ pending' \in {pending, RemoveAt(pending, i)}
  /\ UNCHANGED <<accepted, ended>>

End ==
  /\ ended' = TRUE
  /\ UNCHANGED <<accepted, pending, copies>>

Next ==
  \/ Accept
  \/ \E i \in DOMAIN pending : Retry(i)
  \/ End

Spec == Init /\ [][Next]_feedVars
=============================================================================
