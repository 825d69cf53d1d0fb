----------------------------- MODULE PciRouteMC ------------------------------
(* Machines for the TLC runs of PciRoute: a bridge on bus 0, a second bridge  *)
(* behind it, functions on all three buses, and a bridge without bus numbers. *)
EXTENDS PciRoute, SequencesExt, TLC

Fn(bus, dev, pin) ==
  [bus |-> bus, dev |-> dev, pin |-> pin, kind |-> "device", pri |-> 0, sec |-> 0]
Br(bus, dev, pin, kind, sec) ==
  [bus |-> bus, dev |-> dev, pin |-> pin, kind |-> kind, pri |-> bus, sec |-> sec]
Mp(bus, dev, pin, intIn, apic) ==
  [bus |-> bus, dev |-> dev, pin |-> pin, intIn |-> intIn, apic |-> apic]

Tree(kind, dev, pin, loose) ==
  <<Fn(0, 2, 1), Br(0, 28, 1, "p2p", 1), Fn(1, 3, 4),
    Br(1, dev, 2, kind, 2), Fn(2, 1, pin)>>
    \o (IF loose THEN <<Br(0, 5, 0, "p2p", 0)>> ELSE <<>>)

\* The four pins of the first bridge's slot, and what else the table may hold.
Slot28 == [p \in 1..4 |-> Mp(0, 28, p, 18 + p, 8)]
Extras == <<Mp(0, 2, 1, 9, 8), Mp(1, 3, 4, 240, 9), Mp(1, 3, 2, 16, 8),
            Mp(1, 2, 3, 5, 8), Mp(0, 28, 3, 23, 8)>>

\* The second bridge: its kind, device and whether a loose one is there too.
Seconds == {<<"p2p", 2, FALSE>>, <<"p2p", 3, TRUE>>, <<"cardbus", 3, FALSE>>}

BridgeMachines ==
  {[funcs |-> Tree(t[1][1], t[1][2], t[2], t[1][3]),
    mp |-> SelectSeq(Extras, LAMBDA e : e \in t[3]) \o t[4]] :
     t \in Seconds \X {1, 3} \X (SUBSET Range(Extras)) \X {<<>>, Slot28}}

ASSUME MCTree == BusTree
=============================================================================
