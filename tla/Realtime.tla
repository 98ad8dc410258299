------------------------------ MODULE Realtime -----------------------------
(***************************************************************************)
(* The WebSocket notices of one user (internal/realtime): the hub, the     *)
(* goroutines of a connection, and the handlers that commit a write and    *)
(* then call Hub.Notify.                                                   *)
(*                                                                         *)
(* Conns are connections, not devices: a device that reconnects is another *)
(* member.  The device at the other end pulls GET /sync/changes when it    *)
(* gets a notice; a pull is one step here (SyncFeed.tla opens it up) that  *)
(* takes the device to the latest seq.                                     *)
(***************************************************************************)
EXTENDS Naturals, Sequences, FiniteSets

CONSTANTS
    Conns,
    SendBuffer,     \* capacity of client.send (16 in the code)
    MaxSeq          \* bound on the writes

ASSUME RealtimeAssumption == SendBuffer \in Nat \ {0} /\ MaxSeq \in Nat

VARIABLES
    latest,         \* the user's counter: the last seq committed
    unannounced,    \* committed writes whose handler is yet to call Notify
    dropped,        \* committed writes whose handler gave up before Notify
    fanout,         \* <<s, c>>: a Notify of s is yet to call c.notify
    hub,            \* Hub.conns
    socket,         \* the socket of each connection
    writer, reader, \* its two goroutines
    done,           \* client.done is closed
    send,           \* client.send
    cursor,         \* what the device has pulled
    woken,          \* the device has a notice it has not pulled for
    synced          \* history: the device has pulled since it was registered

hubVars == <<unannounced, dropped, fanout, hub>>
connVars == <<socket, writer, reader, done, send>>
deviceVars == <<cursor, woken, synced>>
vars == <<latest, hubVars, connVars, deviceVars>>

Seqs == 1..MaxSeq

\* "silent": the peer is gone and no packet says so.  "dead": closed, reads fail.
Socket == {"none", "accepted", "open", "silent", "dead"}

TypeOK ==
    /\ latest \in 0..MaxSeq
    /\ unannounced \subseteq Seqs /\ dropped \subseteq Seqs
    /\ fanout \subseteq Seqs \X Conns
    /\ hub \subseteq Conns
    /\ socket \in [Conns -> Socket]
    /\ writer \in [Conns -> {"none", "running", "stopped"}]
    /\ reader \in [Conns -> {"none", "running", "stopped"}]
    /\ done \in [Conns -> BOOLEAN]
    /\ send \in [Conns -> Seq(Seqs)]
    /\ \A c \in Conns : Len(send[c]) <= SendBuffer
    /\ cursor \in [Conns -> 0..MaxSeq]
    /\ woken \in [Conns -> BOOLEAN]
    /\ synced \in [Conns -> BOOLEAN]

Init ==
    /\ latest = 0
    /\ unannounced = {} /\ dropped = {} /\ fanout = {} /\ hub = {}
    /\ socket = [c \in Conns |-> "none"]
    /\ writer = [c \in Conns |-> "none"]
    /\ reader = [c \in Conns |-> "none"]
    /\ done = [c \in Conns |-> FALSE]
    /\ send = [c \in Conns |-> <<>>]
    /\ cursor = [c \in Conns |-> 0]
    /\ woken = [c \in Conns |-> FALSE]
    /\ synced = [c \in Conns |-> FALSE]

-----------------------------------------------------------------------------
(* The domain handlers: commit, then notify.                               *)

\* A store commits a write of the user.
Commit ==
    /\ latest < MaxSeq
    /\ latest' = latest + 1
    /\ unannounced' = unannounced \union {latest + 1}
    /\ UNCHANGED <<dropped, fanout, hub, connVars, deviceVars>>

\* The note and daily-entry stores read the row again after the commit; if that
\* fails (the request was cancelled, the row was purged) nobody is notified.
ReloadFails(s) ==
    /\ s \in unannounced
    /\ unannounced' = unannounced \ {s}
    /\ dropped' = dropped \union {s}
    /\ UNCHANGED <<latest, fanout, hub, connVars, deviceVars>>

\* Mutant of Notify: a later write is left to announce this one.
NotifyUnlessNewer(s) ==
    /\ s \in unannounced
    /\ unannounced' = unannounced \ {s}
    /\ fanout' = IF s < latest THEN fanout ELSE fanout \union {<<s, c>> : c \in hub}
    /\ UNCHANGED <<latest, dropped, hub, connVars, deviceVars>>

\* Hub.Notify under the mutex: the clients are copied...
Notify(s) ==
    /\ s \in unannounced
    /\ unannounced' = unannounced \ {s}
    /\ fanout' = fanout \union {<<s, c>> : c \in hub}
    /\ UNCHANGED <<latest, dropped, hub, connVars, deviceVars>>

\* Mutant of NotifyClient: the buffer has no end.
NotifyClientUnbounded(s, c) ==
    /\ <<s, c>> \in fanout
    /\ fanout' = fanout \ {<<s, c>>}
    /\ send' = [send EXCEPT ![c] = Append(@, s)]
    /\ UNCHANGED <<latest, unannounced, dropped, hub, socket, writer, reader,
                   done, deviceVars>>

\* Mutant of NotifyClient: the channel is made without a buffer, and the writer
\* is never waiting at it.
NotifyClientUnbuffered(s, c) ==
    /\ <<s, c>> \in fanout
    /\ fanout' = fanout \ {<<s, c>>}
    /\ UNCHANGED <<latest, unannounced, dropped, hub, connVars, deviceVars>>

\* Mutant of NotifyClient: the send has no default and waits for room.
NotifyClientBlocks(s, c) ==
    /\ <<s, c>> \in fanout
    /\ Len(send[c]) < SendBuffer
    /\ fanout' = fanout \ {<<s, c>>}
    /\ send' = [send EXCEPT ![c] = Append(@, s)]
    /\ UNCHANGED <<latest, unannounced, dropped, hub, socket, writer, reader,
                   done, deviceVars>>

\* ... and told one by one outside it.  A full buffer drops the notice.
NotifyClient(s, c) ==
    /\ <<s, c>> \in fanout
    /\ fanout' = fanout \ {<<s, c>>}
    /\ send' = IF Len(send[c]) < SendBuffer
               THEN [send EXCEPT ![c] = Append(@, s)]
               ELSE send
    /\ UNCHANGED <<latest, unannounced, dropped, hub, socket, writer, reader,
                   done, deviceVars>>

-----------------------------------------------------------------------------
(* A connection.                                                           *)

Accept(c) ==
    /\ socket[c] = "none"
    /\ socket' = [socket EXCEPT ![c] = "accepted"]
    /\ UNCHANGED <<latest, hubVars, writer, reader, done, send, deviceVars>>

\* The first message is missing, late, or holds no valid token.
AuthFails(c) ==
    /\ socket[c] = "accepted"
    /\ socket' = [socket EXCEPT ![c] = "dead"]
    /\ UNCHANGED <<latest, hubVars, writer, reader, done, send, deviceVars>>

Register(c) ==
    /\ socket[c] = "accepted"
    /\ socket' = [socket EXCEPT ![c] = "open"]
    /\ hub' = hub \union {c}
    /\ writer' = [writer EXCEPT ![c] = "running"]
    /\ reader' = [reader EXCEPT ![c] = "running"]
    /\ UNCHANGED <<latest, unannounced, dropped, fanout, done, send, deviceVars>>

\* The peer closes the socket, or vanishes.
PeerCloses(c) ==
    /\ socket[c] \in {"open", "silent"}
    /\ socket' = [socket EXCEPT ![c] = "dead"]
    /\ UNCHANGED <<latest, hubVars, writer, reader, done, send, deviceVars>>

PeerVanishes(c) ==
    /\ socket[c] = "open"
    /\ socket' = [socket EXCEPT ![c] = "silent"]
    /\ UNCHANGED <<latest, hubVars, writer, reader, done, send, deviceVars>>

\* writeLoop's select may take a notice even after done is closed.  What is
\* written to a silent socket reaches nobody.
WriteNotice(c) ==
    /\ writer[c] = "running"
    /\ send[c] # <<>>
    /\ socket[c] \in {"open", "silent"}
    /\ send' = [send EXCEPT ![c] = Tail(@)]
    /\ woken' = [woken EXCEPT ![c] = @ \/ socket[c] = "open"]
    /\ UNCHANGED <<latest, hubVars, socket, writer, reader, done, cursor, synced>>

\* A write that fails or times out; the library closes the socket.
WriteFails(c) ==
    /\ writer[c] = "running"
    /\ send[c] # <<>>
    /\ socket[c] \in {"silent", "dead"}
    /\ send' = [send EXCEPT ![c] = Tail(@)]
    /\ socket' = [socket EXCEPT ![c] = "dead"]
    /\ done' = [done EXCEPT ![c] = TRUE]
    /\ writer' = [writer EXCEPT ![c] = "stopped"]
    /\ UNCHANGED <<latest, hubVars, reader, deviceVars>>

\* Mutant of PingFails: the writer returns and closes nothing.
PingFailsQuietly(c) ==
    /\ writer[c] = "running"
    /\ socket[c] \in {"silent", "dead"}
    /\ writer' = [writer EXCEPT ![c] = "stopped"]
    /\ UNCHANGED <<latest, hubVars, socket, reader, done, send, deviceVars>>

PingFails(c) ==
    /\ writer[c] = "running"
    /\ socket[c] \in {"silent", "dead"}
    /\ socket' = [socket EXCEPT ![c] = "dead"]
    /\ done' = [done EXCEPT ![c] = TRUE]
    /\ writer' = [writer EXCEPT ![c] = "stopped"]
    /\ UNCHANGED <<latest, hubVars, reader, send, deviceVars>>

WriterStops(c) ==
    /\ writer[c] = "running"
    /\ done[c]
    /\ writer' = [writer EXCEPT ![c] = "stopped"]
    /\ UNCHANGED <<latest, hubVars, socket, reader, done, send, deviceVars>>

ReadFails(c) ==
    /\ reader[c] = "running"
    /\ socket[c] = "dead"
    /\ done' = [done EXCEPT ![c] = TRUE]
    /\ reader' = [reader EXCEPT ![c] = "stopped"]
    /\ UNCHANGED <<latest, hubVars, socket, writer, send, deviceVars>>

Unregister(c) ==
    /\ reader[c] = "stopped"
    /\ c \in hub
    /\ hub' = hub \ {c}
    /\ UNCHANGED <<latest, unannounced, dropped, fanout, connVars, deviceVars>>

\* The device pulls: on a notice, when it starts, when it likes.
Pull(c) ==
    /\ cursor' = [cursor EXCEPT ![c] = latest]
    /\ woken' = [woken EXCEPT ![c] = FALSE]
    /\ synced' = [synced EXCEPT ![c] = c \in hub]
    /\ UNCHANGED <<latest, hubVars, connVars>>

PullOnNotice(c) == woken[c] /\ Pull(c)

Next ==
    \/ Commit
    \/ \E s \in Seqs : ReloadFails(s) \/ Notify(s)
    \/ \E s \in Seqs, c \in Conns : NotifyClient(s, c)
    \/ \E c \in Conns :
          \/ Accept(c) \/ AuthFails(c) \/ Register(c)
          \/ PeerCloses(c) \/ PeerVanishes(c)
          \/ WriteNotice(c) \/ WriteFails(c) \/ PingFails(c) \/ WriterStops(c)
          \/ ReadFails(c) \/ Unregister(c)
          \/ Pull(c)

Spec == Init /\ [][Next]_vars

\* Goroutines that can go on do, a ping is due every 30 s, and a device that
\* has a notice pulls.  Nobody has to write, connect or pull unprompted.
Fairness ==
    /\ \A s \in Seqs : WF_vars(Notify(s))
    /\ \A s \in Seqs, c \in Conns : WF_vars(NotifyClient(s, c))
    /\ \A c \in Conns :
          /\ WF_vars(WriteNotice(c))
          /\ WF_vars(WriteFails(c) \/ PingFails(c))
          /\ WF_vars(WriterStops(c))
          /\ WF_vars(ReadFails(c))
          /\ WF_vars(Unregister(c))
          /\ WF_vars(PullOnNotice(c))

FairSpec == Spec /\ Fairness

-----------------------------------------------------------------------------
(* Properties.                                                             *)

\* "Safe to drop because the client will catch up" (realtime/client.go:40-42):
\* a device that pulled since it was registered and whose socket is open is
\* missing a write only while a signal is on its way, though buffers overflow,
\* notices overtake each other and the hub is copied outside its lock.
NoLostWakeup ==
    \A c \in Conns : \A s \in (cursor[c] + 1)..latest :
        socket[c] = "open" /\ synced[c] =>
            \/ woken[c]
            \/ writer[c] = "running" /\ send[c] # <<>>
            \/ s \in unannounced
            \/ s \in dropped
            \/ <<s, c>> \in fanout

\* What the lost-wakeup argument is for: such a device gets every write, or its
\* connection breaks and it has to reconnect (openapi.yaml, "Modelo de sync").
\* A write whose handler gave up before Notify is announced to nobody, and one
\* from before the registration to nobody who had not pulled since.
SubscribersCatchUp ==
    \A c \in Conns : \A s \in Seqs :
        (synced[c] /\ latest >= s) ~>
            (cursor[c] >= s \/ socket[c] # "open" \/ dropped # {})

\* A connection that broke, noticeably or not, leaves the hub: "cerrar/liberar
\* la conexion si no responde" (specs/sync-incremental/requirements.md).
BrokenConnectionsAreReleased ==
    \A c \in Conns : (socket[c] \in {"silent", "dead"}) ~>
        (c \notin hub /\ writer[c] # "running" /\ reader[c] # "running")

\* Notify never waits for a slow or stuck connection.
NotifyReturns ==
    \A s \in Seqs, c \in Conns : (<<s, c>> \in fanout) ~> (<<s, c>> \notin fanout)

=============================================================================
