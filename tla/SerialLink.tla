----------------------------- MODULE SerialLink -----------------------------
(***************************************************************************)
(* Two linked GBAs: the serial ports, the games that write their           *)
(* registers, the hosts that run a frame under the transfer barrier        *)
(* (run_linked_frame of crates/rewinds/src/main.rs, runLinkedFrame of      *)
(* Link.swift), and the TCP carrier between them, which may be cut and,    *)
(* where the host reconciles, set up again. The port                       *)
(* (crates/gba/src/serial.rs) comes first, as operators on its state: what *)
(* a register write, a frame of a peer and the host's link configuration   *)
(* do to it.                                                               *)
(***************************************************************************)
EXTENDS Naturals, FiniteSets, Sequences

(* A word on the wire is a pair <<low, high>> of halfwords; the 16-bit and *)
(* 8-bit modes send a high half of 0. A few halfwords stand for all those  *)
(* a game sends; the code itself adds 0 and all ones. The multiplayer      *)
(* error and id bits of SIOCNT, which only the game looks at, are left     *)
(* out.                                                                    *)
CONSTANTS
  Halfwords,  (* the halfwords a game sends                                 *)
  NoData,     (* 0xFFFF, what the data registers read when nothing was sent *)
  Modes,      (* the SioModes games use                                     *)
  Count,      (* the number of linked units, 2 to 4                         *)
  RoundMod    (* how many round numbers there are: 2^16 in the code         *)

ASSUME SerialAssumption ==
  /\ NoData \in Nat
  /\ Halfwords \subseteq 0 .. NoData - 1
  /\ 0 \in Halfwords
  /\ Modes \subseteq {"Normal8", "Normal32", "Multiplayer", "Other"}
  /\ Count \in 2 .. 4
  /\ RoundMod \in Nat \ {0, 1}

Id == 0 .. Count - 1
Byte(h) == h % 256
Data == LET halves == Halfwords \cup {NoData}
        IN  halves \cup {Byte(h) : h \in halves}
Word == Data \X Data
Frame == [round : 0 .. RoundMod - 1, id : Id, word : Word]

Empty == <<>>     (* None: no word in a slot                                *)
NoFrame == <<>>   (* None: no outbound frame; Some(f) is <<f>>              *)
NoResult == [round |-> 0, words |-> [i \in Id |-> Empty]]

(* The port, and in `last` the history of its latest completed round. *)
Port ==
  [busy : BOOLEAN, irqEnable : BOOLEAN, mode : Modes, data : [Id -> Data], send : Data,
   connected : BOOLEAN, id : Id, count : 0 .. Count, round : 0 .. RoundMod - 1,
   slots : [Id -> Word \cup {Empty}], outbound : {NoFrame} \cup {<<f>> : f \in Frame}, irq : BOOLEAN,
   last : [round : 0 .. RoundMod - 1, words : [Id -> Word \cup {Empty}]]]

NewPort(m) ==
  [busy |-> FALSE, irqEnable |-> FALSE, mode |-> m, data |-> [i \in Id |-> 0], send |-> 0,
   connected |-> FALSE, id |-> 0, count |-> 0, round |-> 0,
   slots |-> [i \in Id |-> Empty], outbound |-> NoFrame, irq |-> FALSE, last |-> NoResult]

Filled(p) == Cardinality({i \in Id : i < p.count /\ p.slots[i] # Empty})

(* Mutant: the unit's own word does not have to be in. *)
AwaitingPeerShort(p) == p.connected /\ p.busy /\ Filled(p) < p.count - 1

(* The transfer barrier: execution is suspended while this holds. *)
AwaitingPeer(p) == p.connected /\ p.busy /\ Filled(p) < p.count

TxWord(p) == IF p.mode = "Normal32" THEN <<p.data[0], p.data[1]>> ELSE <<p.send, 0>>

(* Nothing connected: the transfer is over at once, all ones received. *)
DisconnectedFallback(p) ==
  [p EXCEPT !.data = [i \in Id |-> NoData], !.busy = FALSE, !.irq = @ \/ p.irqEnable]

(* What the round's words leave in the data registers, per mode. *)
Received(p) ==
  LET peer == p.slots[1 - p.id]
  IN  CASE p.mode = "Multiplayer" ->
             [p EXCEPT !.data = [i \in Id |-> IF p.slots[i] = Empty THEN NoData
                                              ELSE p.slots[i][1]]]
        [] p.mode = "Normal8" ->
             [p EXCEPT !.send = Byte(IF peer = Empty THEN NoData ELSE peer[1])]
        [] p.mode = "Normal32" ->
             [p EXCEPT !.data[0] = IF peer = Empty THEN NoData ELSE peer[1],
                       !.data[1] = IF peer = Empty THEN NoData ELSE peer[2]]
        [] OTHER -> p

CompleteRound(p) ==
  IF ~p.busy THEN p
  ELSE [Received(p) EXCEPT !.busy = FALSE,
                           !.irq = @ \/ p.irqEnable,
                           !.last = [round |-> p.round, words |-> p.slots]]

CompleteIfFull(p) == IF Filled(p) >= p.count THEN CompleteRound(p) ELSE p

(* Mutant: the words of the round before stay in their slots. *)
BeginRoundStaleSlots(p, r) ==
  LET reset == [p EXCEPT !.round = r, !.busy = TRUE, !.data = [i \in Id |-> NoData]]
      word == TxWord(reset)
  IN  CompleteIfFull([reset EXCEPT !.slots[p.id] = word,
                                   !.outbound = <<[round |-> r, id |-> p.id, word |-> word]>>])

(* Mutant: joining a round queues no frame for the peer. *)
BeginRoundSilent(p, r) ==
  LET reset == [p EXCEPT !.round = r, !.busy = TRUE, !.data = [i \in Id |-> NoData]]
  IN  CompleteIfFull(
        [reset EXCEPT !.slots = [i \in Id |-> IF i = p.id THEN TxWord(reset) ELSE Empty]])

(* Join round r.  The data registers are reset to ones before the word to  *)
(* send is read from the registers of the mode.                            *)
BeginRound(p, r) ==
  LET reset == [p EXCEPT !.round = r, !.busy = TRUE, !.data = [i \in Id |-> NoData]]
      word == TxWord(reset)
  IN  CompleteIfFull(
        [reset EXCEPT !.slots = [i \in Id |-> IF i = p.id THEN word ELSE Empty],
                      !.outbound = <<[round |-> r, id |-> p.id, word |-> word]>>])

(* Mutant: a transfer reuses the number of the round before. *)
OnStartSameRound(p) ==
  IF ~p.connected \/ p.count < 2 THEN DisconnectedFallback(p)
  ELSE IF p.id = 0 THEN BeginRound(p, p.round)
  ELSE p

(* A write of the start bit: the parent drives a fresh round, a child waits. *)
OnStart(p) ==
  IF ~p.connected \/ p.count < 2 THEN DisconnectedFallback(p)
  ELSE IF p.id = 0 THEN BeginRound(p, (p.round + 1) % RoundMod)
  ELSE p

WriteSiocnt(p, m, irqEnable, start) ==
  LET written == [p EXCEPT !.mode = m, !.irqEnable = irqEnable, !.busy = start]
  IN  IF start /\ ~p.busy THEN OnStart(written) ELSE written

SetLink(p, connected, id, count) ==
  LET set == [p EXCEPT !.connected = connected, !.id = id, !.count = count]
  IN  IF connected THEN set
      ELSE [set EXCEPT !.slots = [i \in Id |-> Empty], !.outbound = NoFrame, !.round = 0,
                       !.last = NoResult]

Deliver(p, f) ==
  LET joined == IF f.round # p.round \/ p.slots[p.id] = Empty THEN BeginRound(p, f.round) ELSE p
  IN  IF ~p.connected THEN p
      ELSE CompleteIfFull([joined EXCEPT !.slots[f.id] = f.word])
-----------------------------------------------------------------------------
CONSTANTS
  Reconciles,  (* the host follows its carrier frame by frame (Link.swift);   *)
               (* the desktop configures the core once (main.rs)              *)
  MaxSessions  (* bound of the model: how many connections are made           *)

ASSUME LinkAssumption == Reconciles \in BOOLEAN /\ MaxSessions \in Nat /\ Count = 2

VARIABLES
  ports,    (* the serial port of each unit                                 *)
  host,     (* where each host's loop stands                                *)
  carrier,  (* the connection a host has configured its core for, 0: none   *)
  session,  (* the latest connection                                        *)
  up,       (* whether that connection stands                               *)
  wire      (* wire[u]: the frames on their way to u on that connection     *)

vars == <<ports, host, carrier, session, up, wire>>

Peer(u) == 1 - u

(* "frame": between two frames; "pump": servicing the carrier; "guest":    *)
(* inside a slice; "blocked": parked at the transfer barrier.              *)
HostState == {"frame", "pump", "guest", "blocked"}

(* Whether u's carrier still reaches the other unit. *)
Reaches(u) == up /\ carrier[u] = session

Init ==
  /\ \E m \in Modes : ports = [u \in Id |-> NewPort(m)]
  /\ host = [u \in Id |-> "frame"]
  /\ carrier = [u \in Id |-> 0]
  /\ session = 0
  /\ up = FALSE
  /\ wire = [u \in Id |-> <<>>]

(* poll_out and send until nothing is queued: unit u, now with port p. *)
Flush(u, p) ==
  /\ ports' = [ports EXCEPT ![u] = [p EXCEPT !.outbound = NoFrame]]
  /\ wire' = IF Reaches(u) THEN [wire EXCEPT ![Peer(u)] = @ \o p.outbound] ELSE wire

(* One frame from the carrier into the core. *)
HearOne(u) ==
  /\ carrier[u] = session /\ wire[u] # <<>>
  /\ ports' = [ports EXCEPT ![u] = Deliver(@, Head(wire[u]))]
  /\ wire' = [wire EXCEPT ![u] = Tail(@)]

(* The start of a frame on iOS and macOS, LinkController's reconcile: a    *)
(* core configured for another connection than the standing one is         *)
(* disconnected first.                                                     *)
Reconcile(u) ==
  LET stale == carrier[u] # 0 /\ ~Reaches(u)
      alone == IF stale THEN SetLink(ports[u], FALSE, 0, 1) ELSE ports[u]
      joins == up /\ (stale \/ carrier[u] = 0)
  IN  /\ host[u] = "frame"
      /\ ports' = [ports EXCEPT ![u] = IF joins THEN SetLink(alone, TRUE, u, Count) ELSE alone]
      /\ carrier' = [carrier EXCEPT ![u] = IF up THEN session ELSE 0]
      /\ host' = [host EXCEPT ![u] = IF up THEN "pump" ELSE "guest"]
      /\ UNCHANGED <<session, up, wire>>

(* The start of a frame on the desktop: the core was told of the one       *)
(* connection before the first frame, and is never told of its end.        *)
StartFrame(u) ==
  /\ host[u] = "frame"
  /\ \/ carrier[u] # 0 /\ UNCHANGED <<ports, carrier>>
     \/ /\ carrier[u] = 0 /\ up
        /\ ports' = [ports EXCEPT ![u] = SetLink(@, TRUE, u, Count)]
        /\ carrier' = [carrier EXCEPT ![u] = session]
  /\ host' = [host EXCEPT ![u] = "pump"]
  /\ UNCHANGED <<session, up, wire>>

(* A frame begins.                                                       *)
BeginFrame(u) == IF Reconciles THEN Reconcile(u) ELSE StartFrame(u)

(* The frames that have arrived are delivered one by one, and whatever the *)
(* port owes is polled only after the last of them.                        *)
Hear(u) ==
  /\ host[u] = "pump"
  /\ HearOne(u)
  /\ UNCHANGED <<host, carrier, session, up>>

(* poll_out, then the next slice, which a transfer already waiting for its *)
(* peer ends before its first instruction.                                 *)
Poll(u) ==
  /\ host[u] = "pump"
  /\ Flush(u, ports[u])
  /\ host' = [host EXCEPT ![u] = IF AwaitingPeer(ports[u]) THEN "blocked" ELSE "guest"]
  /\ UNCHANGED <<carrier, session, up>>

(* The slice ends, or the frame with it. *)
Yield(u) ==
  /\ host[u] = "guest"
  /\ carrier[u] # 0
  /\ host' = [host EXCEPT ![u] = "pump"]
  /\ UNCHANGED <<ports, carrier, session, up, wire>>

FrameComplete(u) ==
  /\ host[u] = "guest"
  /\ host' = [host EXCEPT ![u] = "frame"]
  /\ UNCHANGED <<ports, carrier, session, up, wire>>

(* One store of the game in unit u, which leaves its port as p; a transfer *)
(* that now awaits the peer ends the slice, and the host sends its word.   *)
Store(u, p) ==
  /\ host[u] = "guest"
  /\ IF AwaitingPeer(p)
     THEN Flush(u, p) /\ host' = [host EXCEPT ![u] = "blocked"]
     ELSE ports' = [ports EXCEPT ![u] = p] /\ UNCHANGED <<host, wire>>
  /\ UNCHANGED <<carrier, session, up>>

(* A word to send goes to the send register, or to the data registers.     *)
GuestSend(u) ==
  \E w \in Halfwords :
    \E p \in {[ports[u] EXCEPT !.send = w]}
             \cup {[ports[u] EXCEPT !.data[i] = w] : i \in {j \in Id : "Normal32" \in Modes}} :
      Store(u, p)

GuestControl(u) ==
  \E m \in Modes, irqEnable, start \in BOOLEAN :
    Store(u, WriteSiocnt(ports[u], m, irqEnable, start))

GuestAcknowledges(u) == ports[u].irq /\ Store(u, [ports[u] EXCEPT !.irq = FALSE])

(* recv_blocking returns with a frame at least; the loop goes on with what *)
(* else there is, before it polls.                                         *)
Receive(u) ==
  /\ host[u] = "blocked"
  /\ HearOne(u)
  /\ host' = [host EXCEPT ![u] = "pump"]
  /\ UNCHANGED <<carrier, session, up>>

(* recv_blocking returns nothing: the host gives up on this frame. *)
Timeout(u) ==
  /\ host[u] = "blocked"
  /\ host' = [host EXCEPT ![u] = "frame"]
  /\ UNCHANGED <<ports, carrier, session, up, wire>>

(* A connection is made, or made again once the last one is gone, which    *)
(* takes a host that reconciles.                                           *)
Connect ==
  /\ ~up
  /\ session < MaxSessions
  /\ session = 0 \/ Reconciles
  /\ session' = session + 1
  /\ up' = TRUE
  /\ wire' = [u \in Id |-> <<>>]
  /\ UNCHANGED <<ports, host, carrier>>

(* The connection is cut: of the frames in flight some prefix arrives, and *)
(* the last connection of the model stands for good.                       *)
Cut ==
  /\ up
  /\ session < MaxSessions
  /\ up' = FALSE
  /\ \E m \in 0 .. Len(wire[0]), n \in 0 .. Len(wire[1]) :
       wire' = [wire EXCEPT ![0] = SubSeq(@, 1, m), ![1] = SubSeq(@, 1, n)]
  /\ UNCHANGED <<ports, host, carrier, session>>

Guest(u) == GuestSend(u) \/ GuestControl(u) \/ GuestAcknowledges(u)

Host(u) ==
  \/ BeginFrame(u)
  \/ Hear(u)
  \/ Poll(u)
  \/ Yield(u)
  \/ FrameComplete(u)
  \/ Receive(u)
  \/ Timeout(u)

Next == Connect \/ Cut \/ \E u \in Id : Guest(u) \/ Host(u)

Spec == Init /\ [][Next]_vars

(* Both hosts run their loops, slices and frames end because their cycles  *)
(* run out, and what the carrier holds is read in the end: TCP loses       *)
(* nothing and every look at the carrier takes all that has arrived.       *)
FairSpec ==
  /\ Spec
  /\ \A u \in Id :
       /\ WF_vars(BeginFrame(u))
       /\ WF_vars(Poll(u))
       /\ WF_vars(Yield(u) \/ FrameComplete(u))
       /\ WF_vars(Receive(u) \/ Timeout(u))
       /\ SF_vars(FrameComplete(u))
       /\ SF_vars(Hear(u))
       /\ SF_vars(Receive(u))
-----------------------------------------------------------------------------
TypeOK ==
  /\ ports \in [Id -> Port]
  /\ host \in [Id -> HostState]
  /\ carrier \in [Id -> 0 .. MaxSessions]
  /\ session \in 0 .. MaxSessions
  /\ up \in BOOLEAN
  /\ wire \in [Id -> Seq(Frame)]

Linked == \A u \in Id : Reaches(u)

(* tests/serial_link.rs: "Both units hold identical SIOMULTI0/1".  Two     *)
(* units whose latest completed round is the same one assembled it from    *)
(* the same words, however frames, slices and timeouts fell.               *)
RoundAgreement ==
  Linked /\ ports[0].last.round = ports[1].last.round
    => ports[0].last.words = ports[1].last.words

(* The barrier: a parent's game never runs while its transfer is in flight,*)
(* so it cannot read a result that is not there yet.                       *)
ParentHeldAtBarrier ==
  \A u \in Id : host[u] = "guest" /\ carrier[u] # 0 /\ ports[u].id = 0 => ~ports[u].busy

(* The frame a unit owes its peer waits in a single slot. However many     *)
(* frames are delivered, slices run and rounds begun before the host polls *)
(* it, no other frame takes its place: only the end of the link drops it.  *)
OutboundTaken ==
  [][\A u \in Id :
       ports[u].outbound # NoFrame /\ ports'[u].outbound # ports[u].outbound
         => \/ ports'[u].outbound = NoFrame
            \/ ~ports'[u].connected]_vars

(* Rounds are neither skipped nor completed twice: on one connection each  *)
(* unit completes round after round.                                       *)
RoundsInSequence ==
  [][\A u \in Id :
       ports'[u].last # ports[u].last /\ carrier'[u] = carrier[u]
         => ports'[u].last.round = (ports[u].last.round + 1) % RoundMod]_vars

(* A round the parent drives is answered while its connection stands: the *)
(* barrier lets its machine go on in the end, timeouts and abandoned       *)
(* frames, on both sides, notwithstanding.                                 *)
Stands(s) == up /\ session = s /\ carrier[0] = s
Driving(s) == Stands(s) /\ ports[0].busy /\ ports[0].slots[0] # Empty
RoundsAnswered == \A s \in 1 .. MaxSessions : Driving(s) ~> ~(Stands(s) /\ ports[0].busy)

(* serial.rs: the barrier holds while "a connected transfer has started    *)
(* and is still waiting": a parent that waits has put its own word in, so  *)
(* that somebody can answer it.                                            *)
BarrierHasTransfer == AwaitingPeer(ports[0]) => ports[0].slots[0] # Empty

(* serial.rs: "The word this unit contributes to a round, per mode": in    *)
(* Normal32 mode the 32 bits the game has put in SIODATA32.                *)
ContributesItsData ==
  [][\A u \in Id :
       (/\ ports[u].mode = "Normal32" /\ ports'[u].mode = "Normal32"
        /\ ports'[u].round # ports[u].round /\ ports'[u].slots[u] # Empty)
       => ports'[u].slots[u] = <<ports[u].data[0], ports[u].data[1]>>]_vars
=============================================================================
