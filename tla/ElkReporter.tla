----------------------------- MODULE ElkReporter -----------------------------
(***************************************************************************)
(* ELKReporter of reporters/elk_reporter.py: log messages go to            *)
(* Elasticsearch, else to Logstash, else to a buffer in memory that is     *)
(* flushed at the end of the session.  log_test_message answers True       *)
(* whatever happens, so all that can be said of a message is where it is.  *)
(*                                                                         *)
(* The reporter is used by one thread; what interleaves with it are the    *)
(* two services, the connections to them and the death of the process.     *)
(***************************************************************************)
EXTENDS Naturals, Sequences, FiniteSets, SequencesExt

CONSTANTS
  MaxEntries,  \* bound: the messages of a session
  MaxCopies,   \* bound: copies of a message are counted up to here
  Results      \* the test results of a session, by their id

ASSUME ElkReporterAssumption ==
  /\ MaxEntries \in Nat
  /\ MaxCopies \in Nat \ {0, 1}

VARIABLES
  phase,       \* the call the reporter is in
  es_client,   \* there is an Elasticsearch client
  logstash,    \* a Logstash host is configured
  socket,      \* the connection to it: "none", "open", "torn" (half a line
               \* sent), "stale" (closed by the peer) or "dead"
  logged,      \* how many messages log_test_message has taken
  log_buffer,  \* those kept, in order
  next,        \* flush: the position it is at
  failed,      \* flush: what it keeps
  copies,      \* how often a message has arrived at either service
  lost,        \* history: sent in vain, see SentInVain
  timedOut,    \* history: stored by a request whose answer did not come
  stored,      \* the results Elasticsearch has
  acked        \* those it answered for

flushVars == <<log_buffer, next, failed>>
deliveryVars == <<socket, copies, lost, timedOut>>
resultVars == <<stored, acked>>
elkVars == <<phase, es_client, logstash, logged, flushVars, deliveryVars,
          resultVars>>

Entries == 1..MaxEntries

ElkTypeOK ==
  /\ phase \in {"idle", "flushing", "flushing_to_close", "closing", "closed",
                "killed"}
  /\ es_client \in BOOLEAN
  /\ logstash \in BOOLEAN
  /\ socket \in {"none", "open", "torn", "stale", "dead"}
  /\ logged \in 0..MaxEntries
  /\ log_buffer \in Seq(1..logged)
  /\ next \in 1..(Len(log_buffer) + 1)
  /\ failed \in Seq(1..logged)
  /\ copies \in [Entries -> 0..MaxCopies]
  /\ lost \subseteq Entries
  /\ timedOut \subseteq Entries
  /\ stored \subseteq Results
  /\ acked \subseteq stored

(* _initialize_elasticsearch: an Elasticsearch that does not answer the    *)
(* ping is not asked again.                                                *)
ElkInit ==
  /\ phase = "idle"
  /\ es_client \in BOOLEAN
  /\ logstash \in BOOLEAN
  /\ socket = "none"
  /\ logged = 0
  /\ log_buffer = <<>>
  /\ next = 1
  /\ failed = <<>>
  /\ copies = [e \in Entries |-> 0]
  /\ lost = {}
  /\ timedOut = {}
  /\ stored = {}
  /\ acked = {}

-----------------------------------------------------------------------------
(* Handing a message over.                                                 *)

Arrive(e, n) ==
  copies' = [copies EXCEPT ![e] = IF @ + n > MaxCopies THEN MaxCopies ELSE @ + n]

(* _index_log_entry: the client retries a request that timed out, and each *)
(* of them may have stored a document.                                     *)
Indexed(e) ==
  /\ es_client
  /\ \E n \in 1..MaxCopies :
       /\ Arrive(e, n)
       /\ timedOut' = IF n > 1 THEN timedOut \cup {e} ELSE timedOut
  /\ UNCHANGED <<socket, lost>>

(* What a failed request stored, if there was one.                         *)
Unanswered(e) ==
  IF es_client THEN 0..MaxCopies ELSE {0}

(* What may become of the connection when send returns a number, at which  *)
(* nobody looks, and Logstash has no line it can read: the number was less *)
(* than the line, the peer went before it read the line, the line ended    *)
(* another one that was broken off, or the peer had closed already.        *)
SentInVain ==
  [none |-> {"torn", "stale", "dead"},
   open |-> {"torn", "stale", "dead"},
   torn |-> {"open", "torn", "stale", "dead"},
   stale |-> {"dead"},
   dead |-> {}]

(* _ship_to_logstash, after Elasticsearch took n copies without an answer. *)
Shipped(e, n) ==
  /\ logstash
  /\ timedOut' = IF n > 0 THEN timedOut \cup {e} ELSE timedOut
  /\ \/ /\ socket \in {"none", "open"}
        /\ socket' = "open"
        /\ Arrive(e, n + 1)
        /\ UNCHANGED lost
     \/ /\ socket' \in SentInVain[socket]
        /\ Arrive(e, n)
        /\ lost' = lost \cup {e}

NotShipped(e, n) ==
  /\ timedOut' = IF n > 0 THEN timedOut \cup {e} ELSE timedOut
  /\ Arrive(e, n)
  /\ UNCHANGED lost
  /\ \/ ~logstash /\ UNCHANGED socket
     \/ logstash /\ socket' = "none"

Delivered(e) == Indexed(e) \/ \E n \in Unanswered(e) : Shipped(e, n)
Undelivered(e) == \E n \in Unanswered(e) : NotShipped(e, n)

-----------------------------------------------------------------------------
(* The calls.                                                              *)

LogTestMessage ==
  /\ phase = "idle"
  /\ logged < MaxEntries
  /\ logged' = logged + 1
  /\ \/ Delivered(logged') /\ UNCHANGED log_buffer
     \/ Undelivered(logged') /\ log_buffer' = Append(log_buffer, logged')
  /\ UNCHANGED <<phase, es_client, logstash, next, failed, resultVars>>

(* Mutant: a result is answered True as a message is.                      *)
LogTestResultAnswers(r) ==
  /\ phase = "idle"
  /\ stored' \in {stored, stored \cup {r}}
  /\ acked' = acked \cup {r}
  /\ UNCHANGED <<phase, es_client, logstash, logged, flushVars, deliveryVars>>

(* The id of the document is that of the result: sent twice, stored once.  *)
LogTestResult(r) ==
  /\ phase = "idle"
  /\ es_client
  /\ \/ stored' = stored \cup {r} /\ acked' = acked \cup {r}
     \/ stored' \in {stored, stored \cup {r}} /\ UNCHANGED acked
  /\ UNCHANGED <<phase, es_client, logstash, logged, flushVars, deliveryVars>>

(* flush_buffered_logs, on its own or as the first step of close.          *)
Flush(p) ==
  /\ phase = "idle"
  /\ IF log_buffer = <<>>
     THEN phase' = IF p = "flushing" THEN "idle" ELSE "closing"
     ELSE phase' = p
  /\ next' = 1
  /\ failed' = <<>>
  /\ UNCHANGED <<es_client, logstash, logged, log_buffer, deliveryVars,
                 resultVars>>

Flushing == phase \in {"flushing", "flushing_to_close"}

(* Mutant: an entry that fails ends the flush's hold on it.                *)
FlushForgets ==
  /\ Flushing
  /\ next <= Len(log_buffer)
  /\ Delivered(log_buffer[next]) \/ Undelivered(log_buffer[next])
  /\ next' = next + 1
  /\ UNCHANGED <<phase, es_client, logstash, logged, log_buffer, failed,
                 resultVars>>

FlushEntry ==
  /\ Flushing
  /\ next <= Len(log_buffer)
  /\ \/ Delivered(log_buffer[next]) /\ UNCHANGED failed
     \/ /\ Undelivered(log_buffer[next])
        /\ failed' = Append(failed, log_buffer[next])
  /\ next' = next + 1
  /\ UNCHANGED <<phase, es_client, logstash, logged, log_buffer, resultVars>>

(* Mutant: the buffer is kept while something in it failed.                *)
FlushKeepsAll ==
  /\ Flushing
  /\ next > Len(log_buffer)
  /\ log_buffer' = IF failed = <<>> THEN <<>> ELSE log_buffer
  /\ next' = 1
  /\ failed' = <<>>
  /\ phase' = IF phase = "flushing" THEN "idle" ELSE "closing"
  /\ UNCHANGED <<es_client, logstash, logged, deliveryVars, resultVars>>

(* Mutant: what failed is kept in the opposite order.                      *)
FlushAppends ==
  /\ Flushing
  /\ next > Len(log_buffer)
  /\ log_buffer' = Reverse(failed)
  /\ next' = 1
  /\ failed' = <<>>
  /\ phase' = IF phase = "flushing" THEN "idle" ELSE "closing"
  /\ UNCHANGED <<es_client, logstash, logged, deliveryVars, resultVars>>

FlushEnds ==
  /\ Flushing
  /\ next > Len(log_buffer)
  /\ log_buffer' = failed
  /\ next' = 1
  /\ failed' = <<>>
  /\ phase' = IF phase = "flushing" THEN "idle" ELSE "closing"
  /\ UNCHANGED <<es_client, logstash, logged, deliveryVars, resultVars>>

Close ==
  /\ phase = "closing"
  /\ phase' = "closed"
  /\ es_client' = FALSE
  /\ socket' = "none"
  /\ UNCHANGED <<logstash, logged, flushVars, copies, lost, timedOut, resultVars>>

-----------------------------------------------------------------------------
(* Logstash closes the connection: the next send is taken by the kernel    *)
(* and lost, the one after it raises.                                      *)
PeerCloses ==
  /\ socket \in {"open", "torn"}
  /\ socket' = "stale"
  /\ UNCHANGED <<phase, es_client, logstash, logged, flushVars, copies, lost,
                 timedOut, resultVars>>

(* The process ends: a session of pytest flushes and does not close, and   *)
(* may be killed anywhere.                                                 *)
Kill ==
  /\ phase \notin {"closed", "killed"}
  /\ phase' = "killed"
  /\ UNCHANGED <<es_client, logstash, logged, flushVars, deliveryVars,
                 resultVars>>

ElkNext ==
  \/ LogTestMessage
  \/ \E r \in Results : LogTestResult(r)
  \/ \E p \in {"flushing", "flushing_to_close"} : Flush(p)
  \/ FlushEntry
  \/ FlushEnds
  \/ Close
  \/ PeerCloses
  \/ Kill

ElkSpec == ElkInit /\ [][ElkNext]_elkVars

-----------------------------------------------------------------------------
(* What the reporter still holds: the buffer, and during a flush what has  *)
(* failed so far and what is yet to be tried.                              *)
Held == failed \o SubSeq(log_buffer, next, Len(log_buffer))

(* A message that was answered True is somewhere: at a service, held, or   *)
(* sent in vain on a connection that broke, a line of which was broken off,*)
(* or that the peer had closed.  (log_test_message, flush_buffered_logs)   *)
AcceptedIsAccounted ==
  \A e \in 1..logged : copies[e] > 0 \/ e \in lost \/ e \in ToSet(Held)

(* A message arrives twice, or is held although it has arrived, only after *)
(* a request to Elasticsearch that stored it and was not answered.         *)
(* (_index_log_entry, flush_buffered_logs)                                 *)
DuplicatesExplained ==
  \A e \in 1..logged :
    copies[e] > 1 \/ (copies[e] > 0 /\ e \in ToSet(Held)) => e \in timedOut

(* What is held is in the order it was logged, and each message once, also *)
(* between two entries of a flush.  (log_buffer, failed_entries)           *)
HeldInOrder ==
  \A i, j \in DOMAIN Held : i < j => Held[i] < Held[j]

-----------------------------------------------------------------------------
(* The inductive invariant.                                                *)

(* Between two flushes nothing is left over of the last one.               *)
FlushInv == phase \in {"idle", "closing", "closed"} => next = 1 /\ failed = <<>>

(* Nothing has become of a message that was not logged yet.                *)
FreshInv ==
  \A e \in Entries :
    e > logged => copies[e] = 0 /\ e \notin lost /\ e \notin timedOut

ElkIInv ==
  /\ ElkTypeOK
  /\ FlushInv
  /\ FreshInv
  /\ HeldInOrder
  /\ AcceptedIsAccounted
  /\ DuplicatesExplained

-----------------------------------------------------------------------------
Feed == INSTANCE LogFeed WITH
          accepted <- logged,
          pending <- Held,
          ended <- phase \in {"closed", "killed"}

(* The reporter is a LogFeed: it tries again what it holds, and nothing    *)
(* else, until it ends.  (log_test_message, flush_buffered_logs, close)    *)
ImplementsFeed == Feed!Spec
=============================================================================
