---------------------------- MODULE RemotePanel ----------------------------
(***************************************************************************)
(* The remote panel of web_ui.html on a websocket of its own: what it      *)
(* shows, what a gesture sends, and what the device's messages do to it.   *)
(* The manager and the chain host (external) are a device that handles     *)
(* what it is sent in order, answers a subscription with everything it has *)
(* and echoes every change of the slot a panel is subscribed to.  A track  *)
(* may be without the EQ; whatever else sits in a track's components has   *)
(* no parameter of these names and ignores what is sent to it.             *)
(*                                                                         *)
(* Three parameters stand for all: the HPF dial, from 1 (OUT) to MaxDial;  *)
(* its enable; and bypass, a button.  0 is a dial position below any range.*)
(***************************************************************************)
EXTENDS Integers, Sequences, SequencesExt

CONSTANTS Slots,     \* the tracks
          EqAt,      \* the component the EQ sits in, by track, or NoEq
          MaxDial,   \* the top of the dial
          MaxActs,   \* bound on what users and the network do
          MaxQueue   \* bound on the messages on the way, either way

NoSlot == "no slot"
NoEq == "none"

ASSUME PanelAssumption ==
  /\ NoSlot \notin Slots
  /\ MaxDial \in Nat \ {0}
  /\ MaxActs \in Nat
  /\ MaxQueue \in Nat

VARIABLES
  open,    \* whether the websocket is open
  slot,    \* the track the panel is on
  comp,    \* the component it takes the EQ to be in
  metaKnown, \* whether chain_params has arrived
  values,  \* the values it shows, by component and parameter
  drag,    \* the dial that is held, or "none"
  hand,    \* where the gesture last put it, and as which key, or NoHand
  up,      \* messages on the way to the device
  down,    \* messages on the way to the panel
  sub,     \* the track the device has the panel subscribed to, or NoSlot
  dev,     \* the device's values, by track and parameter
  ever,    \* what each track's device has had, and what was sent to it (history)
  informed, \* whether the track it is on has told it where its EQ sits (history)
  acts     \* how often a user or the network has acted

panel == <<slot, comp, metaKnown, values, drag, hand>>
net == <<open, up, down, sub>>
vars == <<panel, net, dev, ever, informed, acts>>

Params == {"hpf_freq", "hpf_enabled", "bypass"}
EqSlots == {s \in Slots : EqAt[s] # NoEq}
Comps == {EqAt[s] : s \in EqSlots}
NoHand == [v |-> -1]

Default == [hpf_freq |-> 1, hpf_enabled |-> 0, bypass |-> 0]

Act == acts < MaxActs /\ acts' = acts + 1

-----------------------------------------------------------------------------
(* The panel. *)

Key(k) == <<comp, k>>

\* raw and num: what is shown, or the default of whoever asks.
Num(k) == IF Key(k) \in DOMAIN values THEN values[Key(k)] ELSE Default[k]

Shown(f) == [x \in DOMAIN values \cup DOMAIN f |->
               IF x \in DOMAIN f THEN f[x] ELSE values[x]]

\* send, for one or two parameters in turn: shown at once, and put on the wire
\* if there is one.
Put(sends) ==
  /\ values' = Shown([x \in {Key(m[1]) : m \in Range(sends)} |->
                        (CHOOSE m \in Range(sends) : Key(m[1]) = x)[2]])
  /\ up' = IF open
             THEN up \o [i \in 1..Len(sends) |->
                           [type |-> "set_param", slot |-> slot, comp |-> comp,
                            key |-> sends[i][1], value |-> sends[i][2]]]
             ELSE up
  /\ ever' = [ever EXCEPT ![slot] = @ \cup {<<Key(m[1]), m[2]>> : m \in Range(sends)}]

Room == Len(up) < MaxQueue

\* pointerdown on the dial.
Press ==
  /\ Act
  /\ drag = "none"
  /\ drag' = "hpf_freq"
  /\ UNCHANGED <<slot, comp, metaKnown, values, hand, net, dev, ever, informed>>

\* pointermove: without chain_params the dial is taken to run from 0 to 1.
\* Turned off its OUT end it engages the filter, if that is not shown engaged.
Move ==
  /\ Act /\ Room
  /\ drag # "none"
  /\ \E v \in IF metaKnown THEN 1..MaxDial ELSE {0} :
       /\ Put(IF v > 1 /\ Num("hpf_enabled") = 0
                THEN << <<"hpf_enabled", 1>>, <<drag, v>> >>
                ELSE << <<drag, v>> >>)
       /\ hand' = [key |-> Key(drag), v |-> v]
  /\ UNCHANGED <<slot, comp, metaKnown, drag, open, down, sub, dev, informed>>

\* pointerup, pointercancel.  No bound: a gesture may always end.
Release ==
  /\ drag # "none"
  /\ drag' = "none"
  /\ hand' = NoHand
  /\ UNCHANGED <<slot, comp, metaKnown, values, net, dev, ever, informed, acts>>

\* dblclick: back to the default, if it is known.
DoubleClick ==
  /\ Act /\ Room
  /\ drag = "none"
  /\ metaKnown
  /\ Put(<< <<"hpf_freq", Default["hpf_freq"]>> >>)
  /\ UNCHANGED <<slot, comp, metaKnown, drag, hand, open, down, sub, dev, informed>>

\* A button: the other of what it shows.
Toggle ==
  /\ Act /\ Room
  /\ Put(<< <<"bypass", 1 - Num("bypass")>> >>)
  /\ UNCHANGED <<slot, comp, metaKnown, drag, hand, open, down, sub, dev, informed>>

\* The track selector: nothing is shown of the track before, and the new one
\* subscribed to.
Subscription(s) == [type |-> "subscribe", slot |-> s]

ChangeSlot ==
  /\ Act /\ Room
  /\ slot' \in Slots \ {slot}
  /\ values' = <<>>
  /\ up' = IF open THEN Append(up, Subscription(slot')) ELSE up
  /\ hand' = NoHand
  /\ informed' = FALSE
  /\ UNCHANGED <<comp, metaKnown, drag, open, down, sub, dev, ever>>

\* setInterval(subscribe, 4000).
ResubscribeNever == open /\ UNCHANGED vars

Resubscribe ==
  /\ open /\ Room
  /\ up' = Append(up, Subscription(slot))
  /\ UNCHANGED <<panel, open, down, sub, dev, ever, informed, acts>>

\* onopen, 2.5 s after onclose: subscribe.
Connect ==
  /\ ~open
  /\ open' = TRUE
  /\ up' = <<Subscription(slot)>>
  /\ UNCHANGED <<panel, down, sub, dev, ever, informed, acts>>

\* The connection breaks, and everything on it is lost.
Close ==
  /\ Act
  /\ open
  /\ open' = FALSE
  /\ up' = <<>>
  /\ down' = <<>>
  /\ sub' = NoSlot
  /\ UNCHANGED <<panel, dev, ever, informed>>

-----------------------------------------------------------------------------
(* onmessage. *)

\* onParams: everything but what is under the hand.
Kept(params) == DOMAIN params

KeptButHeld(params) ==
  {x \in DOMAIN params : ~(drag # "none" /\ x = Key(drag))}

OnParams(params) ==
  values' = Shown([x \in KeptButHeld(params) |-> params[x]])

IsForAnyone(m) == TRUE

\* A message without a track would be taken in as well; the device puts one on
\* every message it sends.
IsForUs(m) == m.slot = NoSlot \/ m.slot = slot

\* slot_info: the component the EQ was found in, if it was.
Discover(m) ==
  /\ comp' = IF m.eq = NoEq THEN comp ELSE m.eq
  /\ UNCHANGED <<metaKnown, values>>

\* chain_params, one for each component in use, of which the panel takes that
\* of comp: the EQ's; or another effect's in the place of what it knew of the
\* EQ; or none, if nothing sits there.
Describe(m) ==
  /\ metaKnown' \in IF m.comp = comp THEN {TRUE} ELSE {metaKnown, FALSE}
  /\ UNCHANGED <<comp, values>>

ShowUpdate(m) ==
  /\ OnParams(m.params)
  /\ UNCHANGED <<comp, metaKnown>>

Receive ==
  /\ down # <<>>
  /\ down' = Tail(down)
  /\ LET m == Head(down)
     IN  /\ \/ ~IsForUs(m) /\ UNCHANGED <<comp, metaKnown, values>>
            \/ IsForUs(m) /\ m.type = "slot_info" /\ Discover(m)
            \/ IsForUs(m) /\ m.type = "chain_params" /\ Describe(m)
            \/ IsForUs(m) /\ m.type = "param_update" /\ ShowUpdate(m)
         /\ informed' = (informed \/ (m.type = "slot_info" /\ m.slot = slot))
  /\ UNCHANGED <<slot, drag, hand, open, up, sub, dev, ever, acts>>

-----------------------------------------------------------------------------
(* The device (external), but for the filter dial of its shell. *)

Update(s, keys, vals) ==
  [type |-> "param_update", slot |-> s,
   params |-> [x \in {<<EqAt[s], k>> : k \in keys} |-> vals[x[2]]]]

\* The answer to a subscription; an EQ's parameters end it.
Answer(s) ==
  << [type |-> "slot_info", slot |-> s, eq |-> EqAt[s]],
     [type |-> "chain_params", slot |-> s, comp |-> EqAt[s]] >>
    \o IF s \in EqSlots THEN <<Update(s, Params, dev[s])>> ELSE <<>>

\* fkq_set_param: a value in its range, and a filter dial carries its enable.
TakenUnclamped(vals, k, v) ==
  IF k = "hpf_freq"
    THEN [vals EXCEPT !["hpf_freq"] = v, !["hpf_enabled"] = IF v > 1 THEN 1 ELSE 0]
    ELSE [vals EXCEPT ![k] = v]

Taken(vals, k, v) ==
  LET dial == IF v < 1 THEN 1 ELSE v
  IN  IF k = "hpf_freq"
        THEN [vals EXCEPT !["hpf_freq"] = dial,
                          !["hpf_enabled"] = IF dial > 1 THEN 1 ELSE 0]
        ELSE [vals EXCEPT ![k] = v]

Touched(k) == IF k = "hpf_freq" THEN {"hpf_freq", "hpf_enabled"} ELSE {k}

Change(s, k, v) ==
  /\ dev' = [dev EXCEPT ![s] = Taken(dev[s], k, v)]
  /\ ever' = [ever EXCEPT ![s] = @ \cup {<<<<EqAt[s], x>>, dev'[s][x]>> : x \in Params}]

Echo(s, k) == IF sub = s THEN <<Update(s, Touched(k), dev'[s])>> ELSE <<>>

Handle ==
  /\ up # <<>>
  /\ Len(down) < MaxQueue
  /\ up' = Tail(up)
  /\ LET m == Head(up)
     IN  IF m.type = "subscribe"
           THEN /\ sub' = m.slot
                /\ down' = down \o Answer(m.slot)
                /\ UNCHANGED <<dev, ever>>
           ELSE /\ IF m.comp = EqAt[m.slot]
                     THEN /\ Change(m.slot, m.key, m.value)
                          /\ down' = down \o Echo(m.slot, m.key)
                     ELSE UNCHANGED <<dev, ever, down>>
                /\ UNCHANGED sub
  /\ UNCHANGED <<panel, open, informed, acts>>

\* Someone turns the dial, or bypasses, on the device itself.
Hardware ==
  /\ Act
  /\ \E s \in EqSlots, k \in {"hpf_freq", "bypass"} :
       /\ \E v \in IF k = "bypass" THEN {1 - dev[s][k]} ELSE 1..MaxDial : Change(s, k, v)
       /\ down' = down \o Echo(s, k)
  /\ UNCHANGED <<panel, open, up, sub, informed>>

-----------------------------------------------------------------------------

Init ==
  /\ open = FALSE
  /\ slot \in Slots
  /\ comp = "fx1"
  /\ metaKnown = FALSE
  /\ values = <<>>
  /\ drag = "none"
  /\ hand = NoHand
  /\ up = <<>>
  /\ down = <<>>
  /\ sub = NoSlot
  /\ dev = [s \in EqSlots |-> Default]
  /\ ever = [s \in Slots |-> IF s \in EqSlots
                               THEN {<<<<EqAt[s], k>>, Default[k]>> : k \in Params}
                               ELSE {}]
  /\ informed = FALSE
  /\ acts = 0

Users == Press \/ Move \/ Release \/ DoubleClick \/ Toggle \/ ChangeSlot \/ Hardware

Next == Users \/ Close \/ Connect \/ Resubscribe \/ Receive \/ Handle

\* Timers fire, and what is on an open connection arrives.
Spec ==
  /\ Init /\ [][Next]_vars
  /\ WF_vars(Connect) /\ WF_vars(Resubscribe) /\ WF_vars(Receive) /\ WF_vars(Handle)

-----------------------------------------------------------------------------
(* Properties. *)

TypeOK ==
  /\ comp \in Comps \cup {"fx1"}
  /\ DOMAIN values \subseteq (Comps \cup {"fx1"}) \X Params
  /\ \A x \in DOMAIN values : values[x] \in 0..MaxDial
  /\ \A s \in EqSlots : dev[s]["hpf_freq"] \in 1..MaxDial
  /\ drag \in {"none", "hpf_freq"}

\* "While a knob is held, the value under the hand is the truth": whatever is
\* echoed, pushed or answered meanwhile, and whatever else is clicked, a held
\* dial stays where the gesture put it.
HandIsTruth ==
  drag # "none" /\ hand # NoHand /\ hand.key = Key(drag) => values[hand.key] = hand.v

\* Whatever the panel shows, the device of the track it is on has had it or
\* the panel sent it there: nothing of the track before lingers, and none of
\* what was still on its way for that one is taken in.
ShowsItsTrack ==
  \A x \in DOMAIN values : <<x, values[x]>> \in ever[slot]

\* Once a track has told the panel where its EQ sits, whatever is sent goes to
\* that EQ, whatever of the tracks before is still on its way: from then on a
\* change of track has misled no gesture.
SendsGoToTheEq ==
  [][informed /\ slot \in EqSlots =>
       \A i \in Len(up)+1..Len(up') :
         up'[i].type = "set_param" => up'[i].slot = slot /\ up'[i].comp = EqAt[slot]]_vars

\* Once the hands are off, on a track with the EQ, the panel comes to show what
\* the device has, on the component the EQ sits in: values that were dropped
\* under the hand, sent into a closed connection, or clamped by the device do
\* not stay on it.
PanelSettles ==
  <>[](drag = "none" /\ slot \in EqSlots) =>
    <>[](comp = EqAt[slot] /\ \A k \in Params : Num(k) = dev[slot][k])
=============================================================================
