----------------------------- MODULE GpsdClient -----------------------------
(* The gpsd session of package gps (client.go): one TCP connection, a       *)
(* reader goroutine that hands the receiver's frames to the subscribed      *)
(* device's channel, and the three channels whose closing wakes waiters.    *)
(*                                                                          *)
(* gpsd's side of the connection is the sequence "stream". A message is a   *)
(* record with a class; the JSON and UBX encodings are abstracted to what   *)
(* the reader tells apart. A caller makes one subscription, as every        *)
(* program of the repository does.                                          *)
EXTENDS Integers, Sequences

CONSTANTS Paths,   \* the device paths gpsd may report
          Path,    \* the path the caller subscribes to
          QCap     \* capacity of a subscription's channel (16 in the code)

ASSUME GpsdAssumption == Path \in Paths /\ QCap \in Nat \ {0}

VARIABLES stream,    \* what gpsd has sent and the reader has not read
          reader,    \* where readLoop is: its loop, or its deferred steps
          terr,      \* transportErr: the first cause observed
          devices,   \* the device list
          ready,     \* devicesReady is closed
          closed,    \* the connection and Client.closed are closed
          sub,       \* the subscription: "none", "open" or "closed"
          incoming,  \* its channel of frames
          latest     \* which of TPV and SKY the subscription has seen

clientVars == <<stream, reader, terr, devices, ready, closed, sub, incoming, latest>>

ClientTypeOK ==
  /\ reader \in {"off", "loop", "subs", "ready", "conn", "exited"}
  /\ terr \in {"none", "gpsd", "io"}
  /\ devices \subseteq Paths
  /\ {ready, closed} \subseteq BOOLEAN
  /\ sub \in {"none", "open", "closed"}
  /\ Len(incoming) <= QCap
  /\ latest \subseteq {"TPV", "SKY"}

ClientInit ==
  /\ stream = <<>> /\ incoming = <<>> /\ latest = {}
  /\ reader = "off" /\ sub = "none" /\ terr = "none"
  /\ devices = {} /\ ready = FALSE /\ closed = FALSE

\* setTransportErrOnce: the first cause stays.
FirstCause(cause) == IF terr = "none" THEN cause ELSE terr

\* A subscription's closed channel is closed at most once.
Shut(s) == IF s = "open" THEN "closed" ELSE s

-----------------------------------------------------------------------------
(* readLoop, one action for each class of message.                          *)

Reads(class) == reader = "loop" /\ ~closed /\ stream # <<>> /\ Head(stream).class = class

\* handleDevicesMsg: the list is replaced, and Dial's wait is over.
ReadDevices ==
  /\ Reads("DEVICES")
  /\ devices' = Head(stream).paths /\ ready' = TRUE
  /\ stream' = Tail(stream)
  /\ UNCHANGED <<reader, terr, closed, sub, incoming, latest>>

\* handleDeviceMsg: one device is merged into the list.
ReadDevice ==
  /\ Reads("DEVICE")
  /\ devices' = devices \cup {Head(stream).path}
  /\ stream' = Tail(stream)
  /\ UNCHANGED <<reader, terr, ready, closed, sub, incoming, latest>>

\* dispatchFrame: a frame is dropped rather than block the reader.
Dispatch(f) ==
  incoming' = IF sub # "none" /\ Len(incoming) < QCap THEN Append(incoming, f) ELSE incoming

\* Mutant: the device is not looked at.
ReadRawAnyDevice ==
  /\ Reads("RAW")
  /\ Dispatch(Head(stream))
  /\ stream' = Tail(stream)
  /\ UNCHANGED <<reader, terr, devices, ready, closed, sub, latest>>

\* handleRawMsg: the message names its device, other devices' frames are dropped.
ReadRaw ==
  /\ Reads("RAW")
  /\ IF Head(stream).dev = Path THEN Dispatch(Head(stream)) ELSE UNCHANGED incoming
  /\ stream' = Tail(stream)
  /\ UNCHANGED <<reader, terr, devices, ready, closed, sub, latest>>

\* handleBareHexLine: no device is named, so the frame goes to the only
\* subscription, whichever receiver sent it.
ReadBareHex ==
  /\ Reads("bare")
  /\ Dispatch(Head(stream))
  /\ stream' = Tail(stream)
  /\ UNCHANGED <<reader, terr, devices, ready, closed, sub, latest>>

\* handleTPVMsg and handleSKYMsg: the latest report is kept for a subscriber;
\* a sparse SKY is not one.
ReadReport ==
  /\ \E class \in {"TPV", "SKY"} :
       /\ Reads(class)
       /\ latest' = IF sub # "none" /\ ~Head(stream).sparse THEN latest \cup {class} ELSE latest
  /\ stream' = Tail(stream)
  /\ UNCHANGED <<reader, terr, devices, ready, closed, sub, incoming>>

\* A gpsd ERROR aborts the pending requests; the reader goes on.
ReadError ==
  /\ Reads("ERROR")
  /\ terr' = FirstCause("gpsd") /\ sub' = Shut(sub)
  /\ stream' = Tail(stream)
  /\ UNCHANGED <<reader, devices, ready, closed, incoming, latest>>

\* Scan fails: gpsd closed the connection, or this side did.
LeaveLoop ==
  /\ reader = "loop"
  /\ closed \/ Reads("EOF")
  /\ terr' = FirstCause("io") /\ reader' = "subs" /\ stream' = <<>>
  /\ UNCHANGED <<devices, ready, closed, sub, incoming, latest>>

\* Mutant: the reader ends without a word to its subscribers.
CloseSubsNot ==
  /\ reader = "subs" /\ reader' = "ready"
  /\ UNCHANGED <<stream, terr, devices, ready, closed, sub, incoming, latest>>

\* The deferred function: waiters first, then Dial, then the connection.
CloseSubs ==
  /\ reader = "subs"
  /\ sub' = Shut(sub) /\ reader' = "ready"
  /\ UNCHANGED <<stream, terr, devices, ready, closed, incoming, latest>>
ReleaseDial ==
  /\ reader = "ready"
  /\ ready' = TRUE /\ reader' = "conn"
  /\ UNCHANGED <<stream, terr, devices, closed, sub, incoming, latest>>
CloseConn ==
  /\ reader = "conn"
  /\ closed' = TRUE /\ reader' = "exited"
  /\ UNCHANGED <<stream, terr, devices, ready, sub, incoming, latest>>

ReadLoop == \/ ReadDevices \/ ReadDevice \/ ReadRaw \/ ReadBareHex \/ ReadReport
            \/ ReadError \/ LeaveLoop \/ CloseSubs \/ ReleaseDial \/ CloseConn

-----------------------------------------------------------------------------
(* The caller's side. An action of the caller is one of these with the      *)
(* caller's own state.                                                      *)

\* Dial: a new connection and its reader.
Dial ==
  /\ stream' = <<>> /\ incoming' = <<>> /\ latest' = {}
  /\ reader' = "loop" /\ sub' = "none" /\ terr' = "none"
  /\ devices' = {} /\ ready' = FALSE /\ closed' = FALSE

\* Dial's select. When the reader is gone both channels are closed, and the
\* choice between them is Go's.
DialSucceeds == ready
DialFails    == closed

Subscribe ==
  /\ sub' = "open"
  /\ UNCHANGED <<stream, reader, terr, devices, ready, closed, incoming, latest>>

Close ==
  /\ closed' = TRUE
  /\ UNCHANGED <<stream, reader, terr, devices, ready, sub, incoming, latest>>

\* SendAndAwait*, first half: Drain empties the channel, not the connection.
DrainAndSend ==
  /\ ~closed
  /\ incoming' = <<>>
  /\ UNCHANGED <<stream, reader, terr, devices, ready, closed, sub, latest>>

\* WaitFor takes the next frame of the channel.
TakeFrame ==
  /\ incoming # <<>>
  /\ incoming' = Tail(incoming)
  /\ UNCHANGED <<stream, reader, terr, devices, ready, closed, sub, latest>>

\* gpsd's side.
GpsdSends(msgs) ==
  /\ stream' = stream \o msgs
  /\ UNCHANGED <<reader, terr, devices, ready, closed, sub, incoming, latest>>
=============================================================================
