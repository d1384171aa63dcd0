------------------------------- MODULE NdsWifi ------------------------------
(***************************************************************************)
(* The Wi-Fi registers of the ARM7 (nds/src/wifi.rs) and the events they   *)
(* schedule (nds/src/system.rs): the causes of the interrupt, the micro-   *)
(* second counter and its beacons, and the ports behind which the baseband *)
(* and RF chips keep theirs.  The program uses halfwords.                  *)
(***************************************************************************)
EXTENDS Integers, Sequences

CONSTANTS
  CyclesPerSecond, Micros,  (* master cycles of a second, and microseconds: *)
                            (* 33513982 and 1000000 in the code             *)
  BeaconMicros,   (* microseconds between beacons: 1024 *)
  PowerOnMicros,  (* and from a power-on to its interrupt: 8 *)
  Counts,         (* what a program writes to the counter *)
  MaxTime,        (* bound: time stops at this cycle *)
  MaxWrites,      (* bound: register writes *)
  Indices,        (* registers of the two chips *)
  Fixed,          (* [read-only index of the baseband -> its value] *)
  Values          (* data *)

VARIABLES
  wifi,  (* [now, ie, flags, irq, enabled, base, since, beacons, wakeups,  *)
         (*  writes]: the registers, the request at the interrupt          *)
         (*  controller, and the cycles of the scheduled events; and       *)
         (*  history: told, the causes asked for since they were last not  *)
         (*  both set and enabled, set, what the counter was last set to,  *)
         (*  ran and stops, the cycles it has run since and the times it   *)
         (*  was stopped, last, the cycle of the last beacon since the     *)
         (*  start, and gap, the cycles from one to the next               *)
  radio  (* [bb, rf, bbData, rfData, bbRead, rfRead, power]                *)

Causes == {"wakeup", "beacon"}
Never == -1

Microseconds(cycles) == (cycles * Micros) \div CyclesPerSecond
BeaconCycles == (CyclesPerSecond * BeaconMicros) \div Micros
PowerOnCycles == (CyclesPerSecond * PowerOnMicros) \div Micros

WifiInit ==
  wifi = [now |-> 0, ie |-> {}, flags |-> {}, irq |-> FALSE, enabled |-> FALSE, base |-> 0,
          since |-> 0, beacons |-> <<>>, wakeups |-> <<>>, writes |-> 0, told |-> {}, set |-> 0,
          ran |-> 0, stops |-> 0, last |-> Never, gap |-> 0]

UsCount(w) == IF w.enabled THEN w.base + Microseconds(w.now - w.since) ELSE w.base
Pending(w) == w.flags \cap w.ie
Forgetting(w) == [w EXCEPT !.told = @ \cap Pending(w)]
Requested(w) == [w EXCEPT !.irq = TRUE, !.told = Pending(w)]

Flagged(w, cause) ==
  LET t == [w EXCEPT !.flags = @ \cup {cause}]
  IN  IF cause \in w.ie THEN Requested(t) ELSE t

(* A write of W_IE asserts the line over a flag that is already latched.   *)
Enabled(w, causes) ==
  LET t == Forgetting([w EXCEPT !.ie = causes])
  IN  IF Pending(t) # {} THEN Requested(t) ELSE t

Written == wifi.writes < MaxWrites
Count(w) == [w EXCEPT !.writes = @ + 1]

WriteIe == \E causes \in SUBSET Causes : Written /\ wifi' = Count(Enabled(wifi, causes))

(* W_IF is cleared by writing ones, and by reading it.                     *)
WriteIf ==
  \E causes \in SUBSET Causes \ {{}} :
    Written /\ wifi' = Count(Forgetting([wifi EXCEPT !.flags = @ \ causes]))
ReadIf == wifi.flags # {} /\ wifi' = Forgetting([wifi EXCEPT !.flags = {}])

(* The interrupt controller's own flag is the program's to clear.          *)
Acknowledge == wifi.irq /\ wifi' = [wifi EXCEPT !.irq = FALSE]

WriteCounter ==
  \E n \in Counts :
    /\ Written
    /\ wifi' = Count([wifi EXCEPT !.base = n, !.since = wifi.now,
                                  !.set = n, !.ran = 0, !.stops = 0])

(* W_US_COUNTCNT: the counter is frozen at whole microseconds and goes on  *)
(* from there, and each start schedules a beacon.                          *)
WriteCountCnt ==
  /\ Written
  /\ wifi' = Count(
       IF wifi.enabled
       THEN [wifi EXCEPT !.base = UsCount(wifi), !.enabled = FALSE, !.stops = @ + 1]
       ELSE [wifi EXCEPT !.since = wifi.now, !.enabled = TRUE, !.last = Never,
                         !.beacons = Append(@, wifi.now + BeaconCycles)])

WritePowerUs ==
  /\ Written
  /\ wifi' = Count([wifi EXCEPT !.wakeups = Append(@, wifi.now + PowerOnCycles)])

(* WifiBeacon: the event of a counter that is off ends its chain.          *)
BeaconDue == wifi.beacons # <<>> /\ Head(wifi.beacons) = wifi.now
BeaconTick ==
  /\ BeaconDue
  /\ LET rest == Tail(wifi.beacons)
     IN  wifi' = IF wifi.enabled
                 THEN Flagged([wifi EXCEPT !.beacons = Append(rest, wifi.now + BeaconCycles),
                                           !.gap = IF wifi.last = Never THEN 0 ELSE wifi.now - wifi.last,
                                           !.last = wifi.now], "beacon")
                 ELSE [wifi EXCEPT !.beacons = rest]

WakeupDue == wifi.wakeups # <<>> /\ Head(wifi.wakeups) = wifi.now
PowerOnIrq == WakeupDue /\ wifi' = Flagged([wifi EXCEPT !.wakeups = Tail(@)], "wakeup")

Tick ==
  /\ wifi.now < MaxTime /\ ~BeaconDue /\ ~WakeupDue
  /\ wifi' = [wifi EXCEPT !.now = @ + 1, !.ran = IF wifi.enabled THEN @ + 1 ELSE @]

WifiNext ==
  \/ WriteIe \/ WriteIf \/ ReadIf \/ Acknowledge \/ WriteCounter \/ WriteCountCnt
  \/ WritePowerUs \/ BeaconTick \/ PowerOnIrq \/ Tick
-----------------------------------------------------------------------------
(* The chips behind their ports: a write of the control register starts a  *)
(* transfer at once with what the data register then holds.                *)
RadioInit ==
  radio = [bb |-> [i \in Indices |-> 0], rf |-> [i \in Indices |-> <<0, 0>>], bbData |-> 0,
           rfData |-> 0, bbRead |-> 0, rfRead |-> 0, power |-> "unasked"]

BbRegister(r, i) == IF i \in DOMAIN Fixed THEN Fixed[i] ELSE r.bb[i]

WriteData ==
  \E v \in Values : radio' \in {[radio EXCEPT !.bbData = v], [radio EXCEPT !.rfData = v]}
BbWrite == \E i \in Indices : radio' = [radio EXCEPT !.bb[i] = radio.bbData]
BbRead == \E i \in Indices : radio' = [radio EXCEPT !.bbRead = BbRegister(radio, i)]
(* An RF datum has its upper bits in the command.                          *)
RfWrite == \E i \in Indices, v \in Values : radio' = [radio EXCEPT !.rf[i] = <<v, radio.rfData>>]
RfRead == \E i \in Indices : radio' = [radio EXCEPT !.rfRead = radio.rf[i][2]]

(* A request of power is answered at once, and so is a forced state.       *)
WritePowerState ==
  \E up, down \in BOOLEAN :
    radio' = [radio EXCEPT !.power = IF up THEN "on" ELSE IF down THEN "down" ELSE "unasked"]
WritePowerForce == \E state \in {"on", "down"} : radio' = [radio EXCEPT !.power = state]

RadioNext ==
  \/ WriteData \/ BbWrite \/ BbRead \/ RfWrite \/ RfRead \/ WritePowerState \/ WritePowerForce

Init == WifiInit /\ RadioInit
Next == (WifiNext /\ UNCHANGED radio) \/ (RadioNext /\ UNCHANGED wifi)
Spec == Init /\ [][Next]_<<wifi, radio>>
-----------------------------------------------------------------------------
WifiTypeOK ==
  /\ wifi.now \in 0 .. MaxTime /\ wifi.flags \subseteq Causes /\ wifi.ie \subseteq Causes
  /\ \A i \in DOMAIN wifi.beacons : wifi.beacons[i] >= wifi.now
RadioTypeOK == radio.power \in {"on", "down", "unasked"}

(* The line is "level-driven by W_IF & W_IE": whichever of a cause's flag  *)
(* and its enable came second, the ARM7 has been interrupted since then,   *)
(* and the program spins on an interrupt that comes.                       *)
CausesReachTheCpu == Pending(wifi) \subseteq wifi.told

(* The counter is the microseconds it has run since it was set, less what  *)
(* its stops cost: each drops the part of a microsecond it falls in, so it *)
(* is never ahead, and behind by no more than it was stopped.              *)
CountsMicroseconds ==
  /\ UsCount(wifi) <= wifi.set + Microseconds(wifi.ran)
  /\ wifi.set + Microseconds(wifi.ran) - wifi.stops <= UsCount(wifi)

(* "The beacon-IRQ cadence while the us-counter runs: 1024 us": from one   *)
(* beacon to the next, unless the counter was stopped between them.        *)
OneBeaconChain == wifi.gap \in {0, BeaconCycles}
=============================================================================
