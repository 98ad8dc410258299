--------------------------- MODULE RealtimeProofs ---------------------------
(***************************************************************************)
(* Proofs about Realtime, for any number of connections and writes and any *)
(* buffer that holds at least one notice.                                  *)
(***************************************************************************)
EXTENDS Realtime, SequenceTheorems, TLAPS

\* What NoLostWakeup needs to know of a connection: until its socket is closed,
\* with a peer that is there or not, both goroutines run and it is in the hub; it
\* is not in the hub before; and only of a closed socket one has stopped.
Connected(c) ==
    /\ socket[c] \in {"open", "silent"} =>
          writer[c] = "running" /\ reader[c] = "running" /\ c \in hub
    /\ done[c] \/ reader[c] = "stopped" => socket[c] = "dead"
    /\ socket[c] \in {"none", "accepted"} => c \notin hub /\ ~synced[c]

Connections == \A c \in Conns : Connected(c)

-----------------------------------------------------------------------------
(* Types.                                                                  *)

LEMMA TypeInit == Init => TypeOK
<1> SUFFICES ASSUME Init PROVE TypeOK
  OBVIOUS
<1>1. send \in [Conns -> Seq(Seqs)] /\ \A c \in Conns : Len(send[c]) <= SendBuffer
  <2>1. <<>> \in Seq(Seqs) /\ Len(<<>>) = 0
    OBVIOUS
  <2> QED  BY <2>1, RealtimeAssumption DEF Init
<1> QED  BY <1>1, RealtimeAssumption DEF Init, TypeOK, Socket

LEMMA TypeStep == TypeOK /\ [Next]_vars => TypeOK'
<1> SUFFICES ASSUME TypeOK, [Next]_vars PROVE TypeOK'
  OBVIOUS
<1> USE DEF TypeOK, Seqs, Socket, hubVars, connVars, deviceVars
<1>1. CASE Commit
  BY <1>1, RealtimeAssumption DEF Commit
<1>2. ASSUME NEW s \in Seqs, ReloadFails(s) PROVE TypeOK'
  BY <1>2 DEF ReloadFails
<1>3. ASSUME NEW s \in Seqs, Notify(s) PROVE TypeOK'
  BY <1>3 DEF Notify
<1>4. ASSUME NEW s \in Seqs, NEW c \in Conns, NotifyClient(s, c) PROVE TypeOK'
  <2>1. send' \in [Conns -> Seq(Seqs)] /\ \A d \in Conns : Len(send'[d]) <= SendBuffer
    <3>1. Append(send[c], s) \in Seq(Seqs) /\ Len(Append(send[c], s)) = Len(send[c]) + 1
      BY AppendProperties
    <3>2. Len(send[c]) \in Nat
      BY LenProperties
    <3> QED  BY <1>4, <3>1, <3>2, RealtimeAssumption DEF NotifyClient
  <2> QED  BY <1>4, <2>1 DEF NotifyClient
<1>5. ASSUME NEW c \in Conns,
             Accept(c) \/ AuthFails(c) \/ Register(c) \/ PeerCloses(c) \/ PeerVanishes(c)
      PROVE  TypeOK'
  BY <1>5 DEF Accept, AuthFails, Register, PeerCloses, PeerVanishes
<1>6. ASSUME NEW c \in Conns, WriteNotice(c) \/ WriteFails(c) PROVE TypeOK'
  <2>1. send' \in [Conns -> Seq(Seqs)] /\ \A d \in Conns : Len(send'[d]) <= SendBuffer
    <3>1. Tail(send[c]) \in Seq(Seqs) /\ Len(Tail(send[c])) = Len(send[c]) - 1
      BY <1>6, HeadTailProperties DEF WriteNotice, WriteFails
    <3>2. Len(send[c]) \in Nat
      BY LenProperties
    <3>3. send' = [send EXCEPT ![c] = Tail(@)]
      BY <1>6 DEF WriteNotice, WriteFails
    <3>4. ASSUME NEW d \in Conns
          PROVE  send'[d] \in Seq(Seqs) /\ Len(send'[d]) <= SendBuffer
      <4>1. CASE d = c
        BY <3>1, <3>2, <3>3, <4>1, RealtimeAssumption
      <4>2. CASE d # c
        BY <3>3, <4>2
      <4> QED  BY <4>1, <4>2
    <3> QED  BY <3>3, <3>4
  <2> QED  BY <1>6, <2>1 DEF WriteNotice, WriteFails
<1>7. ASSUME NEW c \in Conns,
             PingFails(c) \/ WriterStops(c) \/ ReadFails(c) \/ Unregister(c)
      PROVE  TypeOK'
  BY <1>7 DEF PingFails, WriterStops, ReadFails, Unregister
<1>8. ASSUME NEW c \in Conns, Pull(c) PROVE TypeOK'
  BY <1>8 DEF Pull
<1>9. CASE UNCHANGED vars
  BY <1>9 DEF vars
<1> QED  BY <1>1, <1>2, <1>3, <1>4, <1>5, <1>6, <1>7, <1>8, <1>9 DEF Next

-----------------------------------------------------------------------------
(* Connections.                                                            *)

LEMMA ConnectionsInit == Init => Connections
  BY DEF Init, Connections, Connected

LEMMA ConnectionsStep == TypeOK /\ Connections /\ [Next]_vars => Connections'
<1> SUFFICES ASSUME TypeOK, Connections, [Next]_vars, NEW d \in Conns
             PROVE  Connected(d)'
  BY DEF Connections
<1>i. Connected(d)
  BY DEF Connections
<1>t. /\ socket \in [Conns -> Socket] /\ writer \in [Conns -> {"none", "running", "stopped"}]
      /\ reader \in [Conns -> {"none", "running", "stopped"}] /\ done \in [Conns -> BOOLEAN]
      /\ synced \in [Conns -> BOOLEAN] /\ hub \subseteq Conns
  BY DEF TypeOK
<1> USE DEF Connected, hubVars, connVars, deviceVars
<1>1. CASE UNCHANGED <<socket, writer, reader, done, hub, synced>>
  BY <1>1, <1>i
<1>2. ASSUME NEW c \in Conns,
             Accept(c) \/ AuthFails(c) \/ Register(c) \/ PeerCloses(c) \/ PeerVanishes(c)
      PROVE  Connected(d)'
  <2>1. CASE c = d
    <3>1. CASE Accept(c)
      BY <1>i, <1>t, <2>1, <3>1 DEF Accept
    <3>2. CASE AuthFails(c)
      BY <1>i, <1>t, <2>1, <3>2 DEF AuthFails
    <3>3. CASE Register(c)
      BY <1>i, <1>t, <2>1, <3>3 DEF Register
    <3>4. CASE PeerCloses(c)
      BY <1>i, <1>t, <2>1, <3>4 DEF PeerCloses
    <3>5. CASE PeerVanishes(c)
      BY <1>i, <1>t, <2>1, <3>5 DEF PeerVanishes
    <3> QED  BY <1>2, <3>1, <3>2, <3>3, <3>4, <3>5
  <2>2. CASE c # d
    BY <1>2, <1>i, <1>t, <2>2 DEF Accept, AuthFails, Register, PeerCloses, PeerVanishes
  <2> QED  BY <2>1, <2>2
<1>3. ASSUME NEW c \in Conns,
             WriteFails(c) \/ PingFails(c) \/ WriterStops(c) \/ ReadFails(c) \/ Unregister(c)
      PROVE  Connected(d)'
  <2>1. CASE c = d
    <3>1. CASE WriteFails(c)
      BY <1>i, <1>t, <2>1, <3>1 DEF WriteFails
    <3>2. CASE PingFails(c)
      BY <1>i, <1>t, <2>1, <3>2 DEF PingFails
    <3>3. CASE WriterStops(c)
      BY <1>i, <1>t, <2>1, <3>3 DEF WriterStops
    <3>4. CASE ReadFails(c)
      BY <1>i, <1>t, <2>1, <3>4 DEF ReadFails
    <3>5. CASE Unregister(c)
      BY <1>i, <1>t, <2>1, <3>5 DEF Unregister
    <3> QED  BY <1>3, <3>1, <3>2, <3>3, <3>4, <3>5
  <2>2. CASE c # d
    BY <1>3, <1>i, <1>t, <2>2 DEF WriteFails, PingFails, WriterStops, ReadFails, Unregister
  <2> QED  BY <2>1, <2>2
<1>4. ASSUME NEW c \in Conns, Pull(c) PROVE Connected(d)'
  BY <1>4, <1>i, <1>t DEF Pull
<1> QED  BY <1>1, <1>2, <1>3, <1>4 DEF Next, vars, Commit, ReloadFails, Notify, NotifyClient,
            WriteNotice

-----------------------------------------------------------------------------
(* Wakeups.                                                                *)

\* The signal that c will still hear of s by.
Signalled(c, s) ==
    \/ woken[c]
    \/ writer[c] = "running" /\ send[c] # <<>>
    \/ s \in unannounced
    \/ s \in dropped
    \/ <<s, c>> \in fanout

LEMMA WakeupInit == Init => NoLostWakeup
  BY DEF Init, NoLostWakeup

LEMMA WakeupStep ==
    TypeOK /\ Connections /\ NoLostWakeup /\ [Next]_vars => NoLostWakeup'
<1> SUFFICES ASSUME TypeOK, Connections, NoLostWakeup, [Next]_vars,
                    NEW d \in Conns, NEW s \in (cursor'[d] + 1)..latest',
                    socket'[d] = "open", synced'[d]
             PROVE  Signalled(d, s)'
  BY DEF NoLostWakeup, Signalled
<1>i. ASSUME socket[d] = "open", synced[d], s \in (cursor[d] + 1)..latest
      PROVE  Signalled(d, s) /\ d \in hub /\ writer[d] = "running" /\ s \in Seqs
  <2>1. d \in hub /\ writer[d] = "running"
    BY <1>i DEF Connections, Connected
  <2>2. s \in Seqs
    <3>1. cursor[d] \in 0..MaxSeq /\ latest \in 0..MaxSeq
      BY DEF TypeOK
    <3> QED  BY <1>i, <3>1, RealtimeAssumption DEF Seqs
  <2> QED  BY <1>i, <2>1, <2>2 DEF NoLostWakeup, Signalled
<1> USE DEF hubVars, connVars, deviceVars
<1>1. CASE Commit
  <2>1. CASE s = latest'
    BY <1>1, <2>1 DEF Commit, Signalled
  <2>2. CASE s # latest'
    <3>1. s \in (cursor[d] + 1)..latest
      BY <1>1, <2>2 DEF Commit, TypeOK
    <3> QED  BY <1>1, <1>i, <3>1 DEF Commit, Signalled
  <2> QED  BY <2>1, <2>2
<1>2. ASSUME NEW w \in Seqs, ReloadFails(w) PROVE Signalled(d, s)'
  BY <1>2, <1>i DEF ReloadFails, Signalled
<1>3. ASSUME NEW w \in Seqs, Notify(w) PROVE Signalled(d, s)'
  BY <1>3, <1>i DEF Notify, Signalled
<1>4. ASSUME NEW w \in Seqs, NEW c \in Conns, NotifyClient(w, c) PROVE Signalled(d, s)'
  <2>1. /\ Signalled(d, s) /\ writer[d] = "running"
    BY <1>4, <1>i DEF NotifyClient
  <2>2. ASSUME <<w, c>> = <<s, d>> PROVE send'[d] # <<>>
    <3>1. Append(send[d], w) # <<>>
      BY <1>4, AppendProperties DEF TypeOK
    <3>2. Len(send[d]) >= SendBuffer => send[d] # <<>>
      BY RealtimeAssumption
    <3>3. Len(send[d]) \in Nat
      BY LenProperties DEF TypeOK
    <3> QED  BY <1>4, <2>2, <3>1, <3>2, <3>3, RealtimeAssumption DEF NotifyClient, TypeOK
  <2>3. send[d] # <<>> => send'[d] # <<>>
    <3>1. Append(send[c], w) # <<>>
      BY <1>4, AppendProperties DEF TypeOK
    <3> QED  BY <1>4, <3>1 DEF NotifyClient, TypeOK
  <2> QED  BY <1>4, <2>1, <2>2, <2>3 DEF NotifyClient, Signalled
<1>5. ASSUME NEW c \in Conns, Accept(c) \/ AuthFails(c) \/ PeerCloses(c) \/ PeerVanishes(c)
      PROVE  Signalled(d, s)'
  <2>1. socket[d] = "open"
    BY <1>5 DEF Accept, AuthFails, PeerCloses, PeerVanishes, TypeOK
  <2> QED  BY <1>5, <1>i, <2>1 DEF Accept, AuthFails, PeerCloses, PeerVanishes, Signalled
<1>6. ASSUME NEW c \in Conns, Register(c) PROVE Signalled(d, s)'
  <2>1. d # c
    BY <1>6 DEF Register, Connections, Connected
  <2> QED  BY <1>6, <1>i, <2>1 DEF Register, Signalled, TypeOK
<1>7. ASSUME NEW c \in Conns, WriteNotice(c) PROVE Signalled(d, s)'
  BY <1>7, <1>i DEF WriteNotice, Signalled, TypeOK
<1>8. ASSUME NEW c \in Conns, WriteFails(c) \/ PingFails(c) PROVE Signalled(d, s)'
  <2>1. d # c
    BY <1>8 DEF WriteFails, PingFails, TypeOK
  <2> QED  BY <1>8, <1>i, <2>1 DEF WriteFails, PingFails, Signalled, TypeOK
<1>9. ASSUME NEW c \in Conns, WriterStops(c) PROVE Signalled(d, s)'
  <2>1. d # c
    BY <1>9 DEF WriterStops, Connections, Connected
  <2> QED  BY <1>9, <1>i, <2>1 DEF WriterStops, Signalled, TypeOK
<1>10. ASSUME NEW c \in Conns, ReadFails(c) \/ Unregister(c) PROVE Signalled(d, s)'
  BY <1>10, <1>i DEF ReadFails, Unregister, Signalled
<1>11. ASSUME NEW c \in Conns, Pull(c) PROVE Signalled(d, s)'
  <2>1. d # c
    BY <1>11 DEF Pull, TypeOK
  <2> QED  BY <1>11, <1>i, <2>1 DEF Pull, Signalled, TypeOK
<1>12. CASE UNCHANGED vars
  BY <1>12, <1>i DEF vars, Signalled
<1> QED  BY <1>1, <1>2, <1>3, <1>4, <1>5, <1>6, <1>7, <1>8, <1>9, <1>10, <1>11, <1>12 DEF Next

-----------------------------------------------------------------------------
(* Theorems.                                                               *)

\* The hub, the connections and their buffers keep their types: no buffer ever
\* holds more than its capacity (internal/realtime/client.go:40).
THEOREM RealtimeTypeCorrect == Spec => []TypeOK
<1> QED  BY TypeInit, TypeStep, PTL DEF Spec

\* From its registration until it is closed a socket has both its goroutines
\* running and is in the hub, also while its peer is gone without a word
\* (internal/realtime/handlers.go:61).
THEOREM OpenConnectionsAreServed == Spec => []Connections
<1> QED  BY ConnectionsInit, ConnectionsStep, RealtimeTypeCorrect, PTL DEF Spec

\* No device that has pulled since it was registered misses a write without a
\* signal under way, though full buffers drop notices
\* (internal/realtime/client.go:40).
THEOREM NoWakeupIsLost == Spec => []NoLostWakeup
<1> QED  BY WakeupInit, WakeupStep, RealtimeTypeCorrect, OpenConnectionsAreServed, PTL DEF Spec

=============================================================================
