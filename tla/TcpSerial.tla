------------------------------ MODULE TcpSerial ------------------------------
(***************************************************************************)
(* The console line of a board as the test host reads it: TCPSerialAdapter *)
(* of framework/tcp_serial_adapter.py.  The console writes pieces of text; *)
(* a piece ends its line or leaves it open, as a login prompt does.        *)
(***************************************************************************)
EXTENDS Naturals, Sequences

CONSTANTS
  Pieces,   \* what the console may write, records with a field "ended"
  MaxWire   \* bound: the pieces that wait in the socket

VARIABLES
  is_open,  \* the socket exists
  wire,     \* what it has received and nobody has read
  line,     \* what the readline in progress has read
  peer      \* the other end: "up", or it "closed" or "reset" the connection

serialVars == <<is_open, wire, line, peer>>

SerialTypeOK ==
  /\ is_open \in BOOLEAN
  /\ wire \in Seq(Pieces)
  /\ line \in SUBSET Pieces
  /\ peer \in {"up", "closed", "reset"}

SerialInit ==
  /\ is_open = FALSE
  /\ wire = <<>>
  /\ line = {}
  /\ peer = "up"

Open ==
  /\ ~is_open
  /\ is_open' = TRUE
  /\ wire' = <<>>
  /\ line' = {}
  /\ peer' = "up"

(* connect raises: the socket is closed and forgotten.                     *)
OpenFails ==
  /\ ~is_open
  /\ UNCHANGED serialVars

Close ==
  /\ is_open' = FALSE
  /\ wire' = <<>>
  /\ line' = {}
  /\ UNCHANGED peer

(* A piece arrives.                                                        *)
Arrives(p) ==
  /\ is_open
  /\ peer = "up"
  /\ Len(wire) < MaxWire
  /\ wire' = Append(wire, p)
  /\ UNCHANGED <<is_open, line, peer>>

(* The console server closes the connection, or resets it, which discards  *)
(* what was not read.                                                      *)
PeerEnds ==
  /\ is_open
  /\ peer = "up"
  /\ peer' \in {"closed", "reset"}
  /\ wire' = IF peer' = "reset" THEN <<>> ELSE wire
  /\ UNCHANGED <<is_open, line>>

(* A socket reports a reset once, and the end of the stream after that.    *)
Reported == IF peer = "reset" THEN "closed" ELSE peer

(* reset_input_buffer: one recv takes all there is; the loop ends when     *)
(* nothing came for 100 ms, at the end of the stream or on an error, which *)
(* it swallows; there is no deadline.                                      *)
Drain ==
  /\ wire # <<>>
  /\ wire' = <<>>
  /\ UNCHANGED <<is_open, line, peer>>

Drained ==
  /\ wire = <<>>
  /\ peer' = Reported
  /\ UNCHANGED <<is_open, wire, line>>

(* write: what is sent reaches an end that is up; after that it is taken   *)
(* and lost, or the write raises.                                          *)
Reaches == peer = "up"

WriteMayRaise == peer # "up"

(* in_waiting peeks: it sees text, but not the end of the stream, and a    *)
(* reset it swallows.                                                      *)
InWaiting == wire # <<>>

SeesNothing ==
  /\ ~InWaiting
  /\ peer' = Reported
  /\ UNCHANGED <<is_open, wire, line>>

(* readline: piece by piece up to the one that ends the line, ...          *)
StartLine == line' = {} /\ UNCHANGED <<is_open, wire, peer>>

Take ==
  /\ wire # <<>>
  /\ line' = line \cup {Head(wire)}
  /\ wire' = Tail(wire)
  /\ UNCHANGED <<is_open, peer>>

LineEnded == Head(wire).ended

(* ... or what there is of it, when nothing came for the read timeout or   *)
(* the other end has closed; a reset raises.                               *)
LineBreaksOff == wire = <<>> /\ peer # "reset" /\ UNCHANGED serialVars

ReadRaises ==
  /\ peer = "reset"
  /\ peer' = Reported
  /\ UNCHANGED <<is_open, wire, line>>
=============================================================================
