------------------------- MODULE RemotePanelProofs -------------------------
(***************************************************************************)
(* Theorems about RemotePanel, for every set of tracks, every placement of *)
(* the EQ, and any number of messages under way.                           *)
(*                                                                         *)
(* PanelInv types the panel and says of every value that is shown, or on   *)
(* its way, that the track it belongs to has had it (`ever`, which only    *)
(* grows); and that the component is where the EQ sits once the track has  *)
(* said so.  HandInv adds what keeps a dial that is held: the component   *)
(* may move away from under the hand, but then it is the track's own and   *)
(* no message moves it back.                                               *)
(***************************************************************************)
EXTENDS RemotePanel, SequenceTheorems, TLAPS

AllComps == Comps \cup {"fx1"}
Cells == AllComps \X Params

\* The positions of a parameter on the panel, and the settings of a device.
Dial(k) == IF k = "hpf_freq" THEN 0..MaxDial ELSE 0..1

Device == {d \in [Params -> Int] :
             /\ d["hpf_freq"] \in 1..MaxDial
             /\ d["hpf_enabled"] \in 0..1
             /\ d["bypass"] \in 0..1}

\* Values of track s, each on a parameter's dial, that the track has had.
Sound(f, e, s) ==
  /\ DOMAIN f \subseteq Cells
  /\ \A x \in DOMAIN f : f[x] \in Dial(x[2]) /\ <<x, f[x]>> \in e[s]

UpMsg ==
  [type : {"subscribe"}, slot : Slots]
    \cup {m \in [type : {"set_param"}, slot : Slots, comp : AllComps,
                 key : Params, value : Int] : m.value \in Dial(m.key)}

Shots == UNION {[D -> Int] : D \in SUBSET Cells}

DownMsg(e) ==
  {[type |-> "slot_info", slot |-> s, eq |-> EqAt[s]] : s \in Slots}
    \cup {[type |-> "chain_params", slot |-> s, comp |-> EqAt[s]] : s \in Slots}
    \cup {m \in [type : {"param_update"}, slot : Slots, params : Shots] :
            Sound(m.params, e, m.slot)}

DeviceInv ==
  /\ dev \in [EqSlots -> Device]
  /\ DOMAIN ever = Slots
  /\ \A s \in EqSlots, k \in Params : <<<<EqAt[s], k>>, dev[s][k]>> \in ever[s]

PanelInv ==
  /\ slot \in Slots
  /\ comp \in AllComps
  /\ drag \in {"none", "hpf_freq"}
  /\ Sound(values, ever, slot)
  /\ up \in Seq(UpMsg)
  /\ down \in Seq(DownMsg(ever))
  /\ sub \in Slots \cup {NoSlot}
  /\ informed \in BOOLEAN
  /\ informed /\ slot \in EqSlots => comp = EqAt[slot]
  /\ DeviceInv

\* What each track has had is never forgotten.
EverGrows == DOMAIN ever' = Slots /\ \A s \in Slots : ever[s] \subseteq ever'[s]

-----------------------------------------------------------------------------
(* Lemmas. *)

LEMMA EqIsAComp ==
  ASSUME NEW s \in Slots
  PROVE  EqAt[s] \in AllComps <=> s \in EqSlots
BY DEF AllComps, Comps, EqSlots, NoEq

LEMMA SoundGrows ==
  ASSUME EverGrows, NEW s \in Slots, NEW f, Sound(f, ever, s)
  PROVE  Sound(f, ever', s)
BY DEF EverGrows, Sound

LEMMA DownGrows ==
  ASSUME EverGrows
  PROVE  Seq(DownMsg(ever)) \subseteq Seq(DownMsg(ever'))
<1>1. ASSUME NEW m \in [type : {"param_update"}, slot : Slots, params : Shots],
             Sound(m.params, ever, m.slot)
      PROVE  Sound(m.params, ever', m.slot)
  BY <1>1, SoundGrows
<1>2. DownMsg(ever) \subseteq DownMsg(ever')
  BY <1>1 DEF DownMsg
<1> QED
  BY <1>2, SeqMonotonic

\* A step of the device or the network that sends the panel nothing untrue and
\* leaves what it shows alone keeps the invariant.
LEMMA NothingShown ==
  ASSUME PanelInv, EverGrows, UNCHANGED <<slot, comp, values, informed>>,
         drag' \in {"none", "hpf_freq"},
         up' \in Seq(UpMsg), down' \in Seq(DownMsg(ever')),
         sub' \in Slots \cup {NoSlot}, DeviceInv'
  PROVE  PanelInv'
<1>1. Sound(values, ever', slot)
  BY SoundGrows DEF PanelInv
<1> QED
  BY <1>1 DEF PanelInv

\* What a message of the panel carries.
Send == {m \in Params \X Int : m[2] \in Dial(m[1])}

\* send() shows what it sends, and says so on the wire.
LEMMA PutIsSound ==
  ASSUME PanelInv, NEW sends \in Seq(Send), Put(sends),
         UNCHANGED <<slot, comp, open, down, sub, dev, informed>>,
         drag' \in {"none", "hpf_freq"}
  PROVE  PanelInv'
<1> USE DEF PanelInv
<1>1. /\ ever' = [ever EXCEPT ![slot] = @ \cup
                    {<<Key(m[1]), m[2]>> : m \in Range(sends)}]
      /\ EverGrows
  BY DEF Put, EverGrows, DeviceInv
<1>2. Range(sends) \subseteq Send
  BY ElementOfSeq DEF Range
<1>3. Sound(values', ever', slot)
  <2> DEFINE keys == {Key(m[1]) : m \in Range(sends)}
             sent == [x \in keys |-> (CHOOSE m \in Range(sends) : Key(m[1]) = x)[2]]
  <2>1. values' = Shown(sent)
    BY DEF Put
  <2>2. ASSUME NEW x \in keys
        PROVE  /\ x \in Cells
               /\ sent[x] \in Dial(x[2])
               /\ <<x, sent[x]>> \in ever'[slot]
    <3>1. PICK m \in Range(sends) : Key(m[1]) = x /\ sent[x] = m[2]
      OBVIOUS
    <3>2. m \in Params \X Int /\ m[2] \in Dial(m[1])
      BY <1>2 DEF Send
    <3>3. <<x, m[2]>> \in ever'[slot]
      BY <1>1, <3>1 DEF DeviceInv
    <3> HIDE DEF sent, keys
    <3>4. x \in Cells /\ x[2] = m[1]
      BY <3>1, <3>2 DEF Key, Cells
    <3> QED
      BY <3>1, <3>2, <3>3, <3>4
  <2>3. Sound(values, ever', slot)
    BY <1>1, SoundGrows
  <2>4. DOMAIN sent = keys
    OBVIOUS
  <2> HIDE DEF sent, keys
  <2>5. DOMAIN values' = DOMAIN values \cup keys
    BY <2>1, <2>4 DEF Shown
  <2>6. \A x \in DOMAIN values' :
          values'[x] = IF x \in keys THEN sent[x] ELSE values[x]
    BY <2>1, <2>4, <2>5 DEF Shown
  <2> QED
    BY <2>2, <2>3, <2>5, <2>6 DEF Sound
<1>4. up' \in Seq(UpMsg)
  <2> DEFINE msg(i) == [type |-> "set_param", slot |-> slot, comp |-> comp,
                        key |-> sends[i][1], value |-> sends[i][2]]
             msgs == [i \in 1..Len(sends) |-> msg(i)]
  <2>1. ASSUME NEW i \in 1..Len(sends)
        PROVE  msg(i) \in UpMsg
    <3>1. sends[i] \in Send
      BY ElementOfSeq
    <3> QED
      BY <3>1 DEF Send, UpMsg
  <2>2. msgs \in Seq(UpMsg)
    <3> HIDE DEF msg
    <3> QED
      BY <2>1
  <2>3. up' = up \o msgs \/ up' = up
    BY DEF Put
  <2> QED
    BY <2>2, <2>3, ConcatProperties
<1>5. down' \in Seq(DownMsg(ever'))
  BY <1>1, DownGrows
<1>6. DeviceInv'
  BY <1>1 DEF DeviceInv, EverGrows
<1> QED
  BY <1>3, <1>4, <1>5, <1>6

\* The shell keeps the device within its ranges.
LEMMA TakenIsHeld ==
  ASSUME NEW d \in Device, NEW k \in Params, NEW v \in Dial(k)
  PROVE  Taken(d, k, v) \in Device
BY PanelAssumption DEF Taken, Device, Dial, Params

LEMMA ChangeIsSound ==
  ASSUME PanelInv, NEW s \in EqSlots, NEW k \in Params, NEW v \in Dial(k),
         Change(s, k, v)
  PROVE  DeviceInv' /\ EverGrows
<1>1. dev[s] \in Device
  BY DEF PanelInv, DeviceInv
<1>2. dev' \in [EqSlots -> Device]
  BY <1>1, TakenIsHeld DEF Change, PanelInv, DeviceInv
<1>3. ever' = [ever EXCEPT ![s] = @ \cup
                 {<<<<EqAt[s], x>>, dev'[s][x]>> : x \in Params}]
  BY DEF Change
<1>4. DOMAIN ever' = Slots
  BY <1>3 DEF PanelInv, DeviceInv
<1>5. ASSUME NEW t \in EqSlots, NEW x \in Params
      PROVE  <<<<EqAt[t], x>>, dev'[t][x]>> \in ever'[t]
  <2>1. CASE t = s
    BY <1>3, <2>1 DEF PanelInv, DeviceInv, EqSlots
  <2>2. CASE t # s
    <3>1. dev'[t] = dev[t] /\ ever'[t] = ever[t]
      BY <1>3, <2>2 DEF Change, PanelInv, DeviceInv, EqSlots
    <3> QED
      BY <3>1 DEF PanelInv, DeviceInv
  <2> QED
    BY <2>1, <2>2
<1>6. \A t \in Slots : ever[t] \subseteq ever'[t]
  BY <1>3 DEF PanelInv, DeviceInv
<1> QED
  BY <1>2, <1>4, <1>5, <1>6 DEF DeviceInv, EverGrows

\* What the device tells is what it has.
LEMMA UpdateIsTrue ==
  ASSUME NEW s \in EqSlots, NEW keys \in SUBSET Params, NEW d \in Device, NEW e,
         \A k \in keys : <<<<EqAt[s], k>>, d[k]>> \in e[s]
  PROVE  Update(s, keys, d) \in DownMsg(e)
<1> DEFINE cells == {<<EqAt[s], k>> : k \in keys}
           shot == [x \in cells |-> d[x[2]]]
<1>0. s \in Slots
  BY DEF EqSlots
<1>1. cells \in SUBSET Cells
  BY <1>0, EqIsAComp DEF Cells
<1>2. ASSUME NEW x \in cells
      PROVE  /\ d[x[2]] \in Int
             /\ d[x[2]] \in Dial(x[2])
             /\ <<x, d[x[2]]>> \in e[s]
  <2>1. PICK k \in keys : x = <<EqAt[s], k>>
    OBVIOUS
  <2>2. x[2] = k /\ k \in Params
    BY <2>1
  <2>3. d[k] \in Int /\ d[k] \in Dial(k)
    BY <2>2, PanelAssumption DEF Device, Dial, Params
  <2> QED
    BY <2>1, <2>2, <2>3
<1>3. shot \in Shots
  <2>1. shot \in [cells -> Int]
    BY <1>2
  <2> QED
    BY <1>1, <2>1 DEF Shots
<1>4. Sound(shot, e, s)
  BY <1>1, <1>2 DEF Sound
<1>5. Update(s, keys, d) = [type |-> "param_update", slot |-> s, params |-> shot]
  BY DEF Update
<1> HIDE DEF shot
<1> QED
  BY <1>0, <1>3, <1>4, <1>5 DEF DownMsg

-----------------------------------------------------------------------------
(* What is shown, and what is under way. *)

LEMMA PanelInit == Init => PanelInv
<1> SUFFICES ASSUME Init PROVE PanelInv
  OBVIOUS
<1> USE DEF Init
<1>1. Default \in Device
  BY PanelAssumption DEF Default, Device, Params
<1>2. dev \in [EqSlots -> Device] /\ \A s \in EqSlots : s \in Slots /\ dev[s] = Default
  BY <1>1 DEF EqSlots
<1>3. DeviceInv
  BY <1>2 DEF DeviceInv
<1>4. Sound(values, ever, slot)
  BY DEF Sound
<1>5. up \in Seq(UpMsg) /\ down \in Seq(DownMsg(ever))
  BY EmptySeq
<1> QED
  BY <1>3, <1>4, <1>5 DEF PanelInv, AllComps

\* A value that is shown is on its dial, and so is the default of one that is
\* not.
LEMMA NumIsOnDial ==
  ASSUME PanelInv, NEW k \in Params
  PROVE  Num(k) \in Dial(k)
<1>1. Default[k] \in Dial(k)
  BY PanelAssumption DEF Default, Params, Dial
<1>2. Key(k) \in DOMAIN values => values[Key(k)] \in Dial(k)
  BY DEF PanelInv, Sound, Key
<1> QED
  BY <1>1, <1>2 DEF Num

\* What is sent by a gesture or a button.
LEMMA MoveSends == PanelInv /\ Move => \E sends \in Seq(Send) : Put(sends)
<1> SUFFICES ASSUME PanelInv, Move PROVE \E sends \in Seq(Send) : Put(sends)
  OBVIOUS
<1>1. PICK v \in IF metaKnown THEN 1..MaxDial ELSE {0} :
        Put(IF v > 1 /\ Num("hpf_enabled") = 0
              THEN << <<"hpf_enabled", 1>>, <<drag, v>> >>
              ELSE << <<drag, v>> >>)
  BY DEF Move
<1>2. drag = "hpf_freq"
  BY DEF Move, PanelInv
<1>3. <<drag, v>> \in Send /\ <<"hpf_enabled", 1>> \in Send
  BY <1>2, PanelAssumption DEF Send, Dial, Params
<1>4. << <<"hpf_enabled", 1>>, <<drag, v>> >> \in Seq(Send)
      /\ << <<drag, v>> >> \in Seq(Send)
  BY <1>3
<1> QED
  BY <1>1, <1>4

LEMMA DoubleClickSends == DoubleClick => \E sends \in Seq(Send) : Put(sends)
<1>1. <<"hpf_freq", Default["hpf_freq"]>> \in Send
  BY PanelAssumption DEF Send, Dial, Params, Default
<1>2. << <<"hpf_freq", Default["hpf_freq"]>> >> \in Seq(Send)
  BY <1>1
<1> QED
  BY <1>2 DEF DoubleClick

LEMMA ToggleSends == PanelInv /\ Toggle => \E sends \in Seq(Send) : Put(sends)
<1> SUFFICES ASSUME PanelInv, Toggle PROVE \E sends \in Seq(Send) : Put(sends)
  OBVIOUS
<1>1. Num("bypass") \in 0..1
  BY NumIsOnDial DEF Params, Dial
<1>2. <<"bypass", 1 - Num("bypass")>> \in Send
  BY <1>1 DEF Send, Dial, Params
<1>3. << <<"bypass", 1 - Num("bypass")>> >> \in Seq(Send)
  BY <1>2
<1> QED
  BY <1>3 DEF Toggle

LEMMA GesturesAreSound == PanelInv /\ (Move \/ DoubleClick \/ Toggle) => PanelInv'
<1> SUFFICES ASSUME PanelInv, Move \/ DoubleClick \/ Toggle PROVE PanelInv'
  OBVIOUS
<1>1. PICK sends \in Seq(Send) : Put(sends)
  BY MoveSends, DoubleClickSends, ToggleSends
<1>2. /\ UNCHANGED <<slot, comp, open, down, sub, dev, informed>>
      /\ drag' \in {"none", "hpf_freq"}
  BY DEF Move, DoubleClick, Toggle, PanelInv
<1> QED
  BY <1>1, <1>2, PutIsSound

\* A message of the track is taken in as it is, but for what is held.
LEMMA ReceiveIsSound == PanelInv /\ Receive => PanelInv'
<1> SUFFICES ASSUME PanelInv, Receive PROVE PanelInv'
  OBVIOUS
<1> DEFINE m == Head(down)
<1>1. m \in DownMsg(ever) /\ down' \in Seq(DownMsg(ever))
  BY HeadTailProperties DEF Receive, PanelInv
<1>2. /\ UNCHANGED <<slot, drag, up, sub, dev, ever>>
      /\ informed' = (informed \/ (m.type = "slot_info" /\ m.slot = slot))
  BY DEF Receive
<1>3. \/ ~IsForUs(m) /\ comp' = comp /\ values' = values
      \/ /\ IsForUs(m) /\ m.type = "slot_info"
         /\ comp' = (IF m.eq = NoEq THEN comp ELSE m.eq) /\ values' = values
      \/ m.type = "chain_params" /\ comp' = comp /\ values' = values
      \/ /\ IsForUs(m) /\ m.type = "param_update"
         /\ comp' = comp /\ OnParams(m.params)
  BY DEF Receive, Discover, Describe, ShowUpdate
<1> HIDE DEF m
<1>4. IsForUs(m) <=> m.slot = slot
  BY <1>1, PanelAssumption DEF DownMsg, IsForUs
<1>5. /\ comp' \in AllComps
      /\ informed' /\ slot \in EqSlots => comp' = EqAt[slot]
  <2>1. CASE m.type = "slot_info" /\ IsForUs(m)
    <3>1. m.eq = EqAt[slot] /\ slot \in Slots
      BY <1>1, <1>4, <2>1 DEF DownMsg, PanelInv
    <3>2. comp' = IF EqAt[slot] = NoEq THEN comp ELSE EqAt[slot]
      BY <1>3, <2>1, <3>1
    <3> QED
      BY <3>1, <3>2, EqIsAComp DEF PanelInv, EqSlots
  <2>2. CASE ~(m.type = "slot_info" /\ IsForUs(m))
    <3>1. comp' = comp
      BY <1>3, <2>2
    <3>2. informed' = informed
      BY <1>2, <1>4, <2>2 DEF PanelInv
    <3> QED
      BY <1>2, <3>1, <3>2 DEF PanelInv
  <2> QED
    BY <2>1, <2>2
<1>6. Sound(values', ever, slot)
  <2>1. CASE values' = values
    BY <2>1 DEF PanelInv
  <2>2. CASE m.type = "param_update" /\ m.slot = slot /\ OnParams(m.params)
    <3> DEFINE kept == KeptButHeld(m.params)
    <3>1. Sound(m.params, ever, slot)
      BY <1>1, <2>2 DEF DownMsg
    <3>2. kept \subseteq DOMAIN m.params
      BY DEF KeptButHeld
    <3>3. values' = Shown([x \in kept |-> m.params[x]])
      BY <2>2 DEF OnParams
    <3> HIDE DEF kept
    <3>4. /\ DOMAIN values' = DOMAIN values \cup kept
          /\ \A x \in DOMAIN values' :
               values'[x] = IF x \in kept THEN m.params[x] ELSE values[x]
      BY <3>3 DEF Shown
    <3> QED
      BY <3>1, <3>2, <3>4 DEF PanelInv, Sound
  <2> QED
    BY <1>3, <1>4, <2>1, <2>2
<1>7. DeviceInv'
  BY <1>2 DEF PanelInv, DeviceInv
<1>8. informed' \in BOOLEAN
  BY <1>2
<1> QED
  BY <1>1, <1>2, <1>5, <1>6, <1>7, <1>8 DEF PanelInv

\* The device answers and echoes with what it has.
LEMMA EchoIsTrue ==
  ASSUME PanelInv, NEW s \in EqSlots, NEW k \in Params, DeviceInv', EverGrows,
         down' = down \o Echo(s, k) \/ down' = down
  PROVE  down' \in Seq(DownMsg(ever'))
<1>1. down \in Seq(DownMsg(ever'))
  BY DownGrows DEF PanelInv
<1>2. dev'[s] \in Device /\ Touched(k) \in SUBSET Params
  BY DEF DeviceInv, Touched, Params
<1>3. Update(s, Touched(k), dev'[s]) \in DownMsg(ever')
  BY <1>2, UpdateIsTrue DEF DeviceInv
<1>4. Echo(s, k) \in Seq(DownMsg(ever'))
  BY <1>3 DEF Echo
<1> QED
  BY <1>1, <1>4, ConcatProperties

LEMMA AnswerIsTrue ==
  ASSUME PanelInv, NEW s \in Slots
  PROVE  Answer(s) \in Seq(DownMsg(ever))
<1> DEFINE info == [type |-> "slot_info", slot |-> s, eq |-> EqAt[s]]
           chain == [type |-> "chain_params", slot |-> s, comp |-> EqAt[s]]
           all == Update(s, Params, dev[s])
<1>1. info \in DownMsg(ever) /\ chain \in DownMsg(ever)
  BY DEF DownMsg
<1>2. s \in EqSlots => all \in DownMsg(ever)
  BY UpdateIsTrue DEF PanelInv, DeviceInv
<1>3. Answer(s) = <<info, chain>> \o IF s \in EqSlots THEN <<all>> ELSE <<>>
  BY DEF Answer
<1> HIDE DEF info, chain, all
<1>4. /\ <<info, chain>> \in Seq(DownMsg(ever))
      /\ (IF s \in EqSlots THEN <<all>> ELSE <<>>) \in Seq(DownMsg(ever))
  BY <1>1, <1>2
<1> QED
  BY <1>3, <1>4, ConcatProperties

LEMMA HandleIsSound == PanelInv /\ Handle => PanelInv'
<1> SUFFICES ASSUME PanelInv, Handle PROVE PanelInv'
  OBVIOUS
<1> DEFINE m == Head(up)
<1>1. m \in UpMsg /\ up' \in Seq(UpMsg)
  BY HeadTailProperties DEF Handle, PanelInv
<1>2. m.slot \in Slots
  BY <1>1 DEF UpMsg
<1>3. UNCHANGED <<slot, comp, values, drag, informed>>
  BY DEF Handle, panel
<1>4. CASE m.type = "subscribe"
  <2> DEFINE s == m.slot
  <2>1. /\ sub' = s
        /\ down' = down \o Answer(s)
        /\ UNCHANGED <<dev, ever>>
    BY <1>4 DEF Handle
  <2>2. Answer(s) \in Seq(DownMsg(ever))
    BY <1>2, AnswerIsTrue
  <2>3. down' \in Seq(DownMsg(ever'))
    BY <2>1, <2>2, ConcatProperties DEF PanelInv
  <2>4. DeviceInv' /\ EverGrows
    BY <2>1 DEF PanelInv, DeviceInv, EverGrows
  <2> QED
    BY <1>1, <1>2, <1>3, <2>1, <2>3, <2>4, NothingShown DEF PanelInv
<1>5. CASE m.type = "set_param" /\ m.comp = EqAt[m.slot]
  <2>1. m.key \in Params /\ m.value \in Dial(m.key) /\ m.slot \in EqSlots
    <3>1. m.comp \in AllComps
      BY <1>1, <1>5 DEF UpMsg
    <3> QED
      BY <1>1, <1>2, <1>5, <3>1, EqIsAComp DEF UpMsg
  <2>2. /\ Change(m.slot, m.key, m.value)
        /\ down' = down \o Echo(m.slot, m.key)
        /\ sub' = sub
    BY <1>5 DEF Handle
  <2> HIDE DEF m
  <2>3. DeviceInv' /\ EverGrows
    BY <1>2, <2>1, <2>2, ChangeIsSound
  <2>4. down' \in Seq(DownMsg(ever'))
    BY <1>2, <2>1, <2>2, <2>3, EchoIsTrue
  <2> QED
    BY <1>1, <1>3, <2>2, <2>3, <2>4, NothingShown DEF PanelInv
<1>6. CASE m.type = "set_param" /\ m.comp # EqAt[m.slot]
  <2>1. UNCHANGED <<dev, ever, down, sub>>
    BY <1>6 DEF Handle
  <2>2. DeviceInv' /\ EverGrows
    BY <2>1 DEF PanelInv, DeviceInv, EverGrows
  <2> QED
    BY <1>1, <1>3, <2>1, <2>2, NothingShown DEF PanelInv
<1>7. m.type \in {"subscribe", "set_param"}
  BY <1>1 DEF UpMsg
<1> QED
  BY <1>4, <1>5, <1>6, <1>7

LEMMA HardwareIsSound == PanelInv /\ Hardware => PanelInv'
<1> SUFFICES ASSUME PanelInv, Hardware PROVE PanelInv'
  OBVIOUS
<1>1. PICK s \in EqSlots, k \in {"hpf_freq", "bypass"} :
        /\ \E v \in IF k = "bypass" THEN {1 - dev[s][k]} ELSE 1..MaxDial :
             Change(s, k, v)
        /\ down' = down \o Echo(s, k)
  BY DEF Hardware
<1>2. PICK v \in IF k = "bypass" THEN {1 - dev[s][k]} ELSE 1..MaxDial :
        Change(s, k, v)
  BY <1>1
<1>3. dev[s] \in Device
  BY DEF PanelInv, DeviceInv
<1>4. k \in Params /\ v \in Dial(k)
  BY <1>3, PanelAssumption DEF Params, Dial, Device
<1>5. DeviceInv' /\ EverGrows
  BY <1>2, <1>4, ChangeIsSound
<1>6. down' \in Seq(DownMsg(ever'))
  BY <1>1, <1>4, <1>5, EchoIsTrue
<1>7. UNCHANGED <<slot, comp, values, drag, up, sub, informed>>
  BY DEF Hardware, panel
<1> QED
  BY <1>5, <1>6, <1>7, NothingShown DEF PanelInv

LEMMA PanelStep == PanelInv /\ [Next]_vars => PanelInv'
<1> SUFFICES ASSUME PanelInv, [Next]_vars
             PROVE  PanelInv'
  OBVIOUS
<1>1. ASSUME UNCHANGED <<slot, comp, values, dev, ever, informed>>,
             drag' \in {"none", "hpf_freq"},
             up' \in Seq(UpMsg), down' \in Seq(DownMsg(ever)),
             sub' \in Slots \cup {NoSlot}
      PROVE  PanelInv'
  <2>1. DeviceInv' /\ EverGrows
    BY <1>1 DEF PanelInv, DeviceInv, EverGrows
  <2> QED
    BY <1>1, <2>1, NothingShown
<1>2. CASE Press \/ Release
  BY <1>1, <1>2 DEF Press, Release, net, PanelInv
<1>3. CASE Move \/ DoubleClick \/ Toggle
  BY <1>3, GesturesAreSound
<1>4. CASE ChangeSlot
  <2>1. /\ slot' \in Slots
        /\ values' = <<>>
        /\ up' = Append(up, Subscription(slot')) \/ up' = up
        /\ informed' = FALSE
        /\ UNCHANGED <<comp, drag, down, sub, dev, ever>>
    BY <1>4 DEF ChangeSlot
  <2>2. Subscription(slot') \in UpMsg
    BY <2>1 DEF Subscription, UpMsg
  <2>3. up' \in Seq(UpMsg)
    BY <2>1, <2>2, AppendProperties DEF PanelInv
  <2>4. Sound(values', ever', slot')
    BY <2>1 DEF Sound
  <2>5. DeviceInv'
    BY <2>1 DEF PanelInv, DeviceInv
  <2> QED
    BY <2>1, <2>3, <2>4, <2>5 DEF PanelInv
<1>5. CASE Resubscribe \/ Connect
  <2>1. Subscription(slot) \in UpMsg
    BY DEF Subscription, UpMsg, PanelInv
  <2>2. up' = Append(up, Subscription(slot)) \/ up' = <<Subscription(slot)>>
    BY <1>5 DEF Resubscribe, Connect
  <2>4. up' \in Seq(UpMsg)
    <3>1. <<Subscription(slot)>> \in Seq(UpMsg)
      BY <2>1
    <3>2. Append(up, Subscription(slot)) \in Seq(UpMsg)
      BY <2>1, AppendProperties DEF PanelInv
    <3> QED
      BY <2>2, <3>1, <3>2
  <2>3. UNCHANGED <<slot, comp, values, drag, down, sub, dev, ever, informed>>
    BY <1>5 DEF Resubscribe, Connect, panel
  <2> QED
    BY <1>1, <2>3, <2>4 DEF PanelInv
<1>6. CASE Close
  <2>1. up' \in Seq(UpMsg) /\ down' \in Seq(DownMsg(ever))
    BY <1>6, EmptySeq DEF Close
  <2> QED
    BY <1>1, <1>6, <2>1 DEF Close, panel, PanelInv
<1>7. CASE Receive \/ Handle \/ Hardware
  BY <1>7, ReceiveIsSound, HandleIsSound, HardwareIsSound
<1>8. CASE UNCHANGED vars
  BY <1>1, <1>8 DEF vars, panel, net, PanelInv
<1> QED
  BY <1>2, <1>3, <1>4, <1>5, <1>6, <1>7, <1>8 DEF Next, Users

\* The panel and the device keep their types: no value leaves its dial,
\* whatever a drag before chain_params sends.
THEOREM PanelTypeCorrect == Spec => []TypeOK
<1>1. ASSUME PanelInv PROVE TypeOK
  <2>1. \A k : Dial(k) \subseteq 0..MaxDial
    BY PanelAssumption DEF Dial
  <2>2. \A s \in EqSlots : dev[s] \in Device
    BY <1>1 DEF PanelInv, DeviceInv
  <2> QED
    BY <1>1, <2>1, <2>2 DEF PanelInv, Sound, TypeOK, AllComps, Cells, Device
<1> QED
  BY <1>1, PanelInit, PanelStep, PTL DEF Spec

\* Nothing is shown of another track, and nothing this one has not had.
THEOREM OnlyItsTrackIsShown == Spec => []ShowsItsTrack
<1>1. PanelInv => ShowsItsTrack
  BY DEF PanelInv, Sound, ShowsItsTrack
<1> QED
  BY <1>1, PanelInit, PanelStep, PTL DEF Spec

-----------------------------------------------------------------------------
(* What is sent. *)

\* A gesture sends to the component the panel takes the EQ to be in.
LEMMA PutGoesToComp ==
  ASSUME PanelInv, NEW sends \in Seq(Send), Put(sends),
         NEW i \in Len(up)+1..Len(up')
  PROVE  up'[i].slot = slot /\ up'[i].comp = comp
<1> DEFINE msgs == [n \in 1..Len(sends) |->
                      [type |-> "set_param", slot |-> slot, comp |-> comp,
                       key |-> sends[n][1], value |-> sends[n][2]]]
<1>1. Len(up) \in Nat /\ Len(sends) \in Nat /\ Len(msgs) = Len(sends)
  BY LenProperties DEF PanelInv
<1>2. CASE up' = up
  BY <1>1, <1>2
<1>3. CASE up' = up \o msgs
  <2>1. PICK n \in 1..Len(sends) : i = Len(up) + n
    BY <1>1, <1>3
  <2>2. up'[i] = msgs[n]
    BY <1>1, <1>3, <2>1
  <2> QED
    BY <2>2
<1> QED
  BY <1>2, <1>3 DEF Put

\* Whatever a step puts on the wire, once the track has said where its EQ sits,
\* names that component.
LEMMA SendStep ==
  ASSUME PanelInv, [Next]_vars, informed, slot \in EqSlots,
         NEW i \in Len(up)+1..Len(up'), up'[i].type = "set_param"
  PROVE  up'[i].slot = slot /\ up'[i].comp = EqAt[slot]
<1>1. comp = EqAt[slot] /\ up \in Seq(UpMsg) /\ Len(up) \in Nat
  BY LenProperties DEF PanelInv
<1>2. ASSUME NEW sends \in Seq(Send), Put(sends)
      PROVE  up'[i].slot = slot /\ up'[i].comp = EqAt[slot]
  BY <1>1, <1>2, PutGoesToComp
<1>3. CASE Move
  BY <1>2, <1>3, MoveSends
<1>4. CASE DoubleClick
  BY <1>2, <1>4, DoubleClickSends
<1>5. CASE Toggle
  BY <1>2, <1>5, ToggleSends
<1>6. CASE ChangeSlot \/ Resubscribe
  <2>1. PICK s : up' = up \/ up' = Append(up, Subscription(s))
    BY <1>6 DEF ChangeSlot, Resubscribe
  <2>2. up' = Append(up, Subscription(s)) /\ i = Len(up) + 1
    BY <1>1, <2>1
  <2>3. up'[i] = Subscription(s)
    BY <1>1, <2>2
  <2> QED
    BY <2>3 DEF Subscription
<1>7. CASE Connect
  <2>1. up' = <<Subscription(slot)>> /\ i = 1
    BY <1>1, <1>7 DEF Connect
  <2> QED
    BY <2>1 DEF Subscription
<1>8. CASE Close
  BY <1>1, <1>8 DEF Close
<1>9. CASE Handle
  <2>1. up # <<>> /\ up' = Tail(up)
    BY <1>9 DEF Handle
  <2>2. Len(up') = Len(up) - 1
    BY <1>1, <2>1, HeadTailProperties
  <2> QED
    BY <1>1, <2>2
<1>10. CASE Press \/ Release \/ Receive \/ Hardware \/ UNCHANGED vars
  <2>1. up' = up
    BY <1>10 DEF Press, Release, Receive, Hardware, vars, net
  <2> QED
    BY <1>1, <2>1
<1> QED
  BY <1>3, <1>4, <1>5, <1>6, <1>7, <1>8, <1>9, <1>10 DEF Next, Users

\* Once a track has told the panel where its EQ sits, whatever is sent goes to
\* that EQ, whatever of the tracks before is still on its way.
THEOREM SendsReachTheEq == Spec => SendsGoToTheEq
<1>1. PanelInv /\ [Next]_vars =>
        [informed /\ slot \in EqSlots =>
           \A i \in Len(up)+1..Len(up') :
             up'[i].type = "set_param" =>
               up'[i].slot = slot /\ up'[i].comp = EqAt[slot]]_vars
  BY SendStep
<1> QED
  BY <1>1, PanelInit, PanelStep, PTL DEF Spec, SendsGoToTheEq

-----------------------------------------------------------------------------
(* The hand. *)

HandInv ==
  /\ PanelInv
  /\ hand # NoHand =>
       /\ drag = "hpf_freq"
       /\ hand.key \in Cells /\ hand.key[2] = "hpf_freq"
       /\ hand.key # Key(drag) => comp = EqAt[slot]
       /\ hand.key = Key(drag) =>
            hand.key \in DOMAIN values /\ values[hand.key] = hand.v

LEMMA HandInit == Init => HandInv
BY PanelInit DEF HandInv, Init

\* A gesture puts the dial under the hand.
LEMMA HandMoves == HandInv /\ Move => HandInv'
<1> SUFFICES ASSUME HandInv, Move PROVE HandInv'
  OBVIOUS
<1> USE DEF HandInv
<1>1. PanelInv'
  BY GesturesAreSound
<1>2. drag = "hpf_freq"
  BY DEF Move, PanelInv
<1>3. PICK v \in IF metaKnown THEN 1..MaxDial ELSE {0} :
        /\ Put(IF v > 1 /\ Num("hpf_enabled") = 0
                 THEN << <<"hpf_enabled", 1>>, <<drag, v>> >>
                 ELSE << <<drag, v>> >>)
        /\ hand' = [key |-> Key(drag), v |-> v]
  BY DEF Move
<1>4. UNCHANGED <<comp, drag>>
  BY DEF Move
<1> DEFINE sends == IF v > 1 /\ Num("hpf_enabled") = 0
                      THEN << <<"hpf_enabled", 1>>, <<drag, v>> >>
                      ELSE << <<drag, v>> >>
           keys == {Key(m[1]) : m \in Range(sends)}
           sent == [x \in keys |-> (CHOOSE m \in Range(sends) : Key(m[1]) = x)[2]]
<1>5. values' = Shown(sent)
  BY <1>3 DEF Put
<1>6. /\ <<drag, v>> \in Range(sends)
      /\ Range(sends) \subseteq {<<"hpf_enabled", 1>>, <<drag, v>>}
  BY DEF Range
<1> HIDE DEF sends
<1>7. Key(drag) \in keys
  BY <1>6
<1>8. sent[Key(drag)] = v
  <2>1. \A m \in Range(sends) : Key(m[1]) = Key(drag) => m = <<drag, v>>
    BY <1>2, <1>6 DEF Key
  <2>2. (CHOOSE m \in Range(sends) : Key(m[1]) = Key(drag)) = <<drag, v>>
    BY <1>6, <2>1
  <2> QED
    BY <1>7, <2>2
<1>9. DOMAIN sent = keys
  OBVIOUS
<1> HIDE DEF sent, keys
<1>10. /\ Key(drag) \in DOMAIN values'
       /\ values'[Key(drag)] = v
  BY <1>5, <1>7, <1>8, <1>9 DEF Shown
<1>11. hand'.key = Key(drag) /\ hand'.v = v
  BY <1>3
<1>12. Key(drag) \in Cells /\ Key(drag)[2] = "hpf_freq" /\ Key(drag)' = Key(drag)
  BY <1>2, <1>4 DEF Key, Cells, Params, PanelInv
<1> QED
  BY <1>1, <1>2, <1>4, <1>10, <1>11, <1>12

\* A button is not the dial.
LEMMA HandToggles == HandInv /\ Toggle => HandInv'
<1> SUFFICES ASSUME HandInv, Toggle PROVE HandInv'
  OBVIOUS
<1> USE DEF HandInv
<1>1. PanelInv'
  BY GesturesAreSound
<1>2. UNCHANGED <<slot, comp, drag, hand>>
  BY DEF Toggle
<1> DEFINE sends == << <<"bypass", 1 - Num("bypass")>> >>
           keys == {Key(m[1]) : m \in Range(sends)}
           sent == [x \in keys |-> (CHOOSE m \in Range(sends) : Key(m[1]) = x)[2]]
<1>3. values' = Shown(sent)
  BY DEF Toggle, Put
<1>4. keys = {Key("bypass")} /\ DOMAIN sent = keys
  BY DEF Range
<1> HIDE DEF sent, keys
<1>5. ASSUME hand # NoHand
      PROVE  hand.key \notin keys
  BY <1>4, <1>5 DEF Key
<1>6. \A x \in DOMAIN values \ keys : x \in DOMAIN values' /\ values'[x] = values[x]
  BY <1>3, <1>4 DEF Shown
<1>7. Key(drag)' = Key(drag)
  BY <1>2 DEF Key
<1> QED
  BY <1>1, <1>2, <1>5, <1>6, <1>7

\* No message moves a held dial, nor the component back under the hand.
LEMMA HandReceives == HandInv /\ Receive => HandInv'
<1> SUFFICES ASSUME HandInv, Receive, hand' # NoHand PROVE HandInv'
  BY ReceiveIsSound DEF HandInv
<1> USE DEF HandInv
<1> DEFINE m == Head(down)
<1>1. PanelInv'
  BY ReceiveIsSound
<1>2. m \in DownMsg(ever)
  BY HeadTailProperties DEF Receive, PanelInv
<1>3. UNCHANGED <<slot, drag, hand>>
  BY DEF Receive
<1>4. \/ comp' = comp
      \/ m.type = "slot_info" /\ IsForUs(m) /\ comp' = m.eq
  BY DEF Receive, Discover, Describe, ShowUpdate
<1>5. \/ values' = values
      \/ OnParams(m.params)
  BY DEF Receive, Discover, Describe, ShowUpdate
<1> HIDE DEF m
<1>6. comp' = comp \/ comp' = EqAt[slot]
  BY <1>2, <1>4, PanelAssumption DEF DownMsg, IsForUs
<1>7. drag = "hpf_freq"
  BY <1>3
<1>8. hand.key # Key(drag)' => comp' = EqAt[slot]
  BY <1>3, <1>6, <1>7 DEF Key
<1>9. ASSUME hand.key = Key(drag)'
      PROVE  hand.key \in DOMAIN values' /\ values'[hand.key] = hand.v
  <2>1. comp' = comp
    <3>1. SUFFICES ASSUME comp' # comp PROVE FALSE
      OBVIOUS
    <3>2. hand.key # Key(drag)
      BY <1>3, <1>9, <3>1 DEF Key
    <3>3. comp = EqAt[slot]
      BY <1>3, <3>2
    <3> QED
      BY <1>6, <3>1, <3>3
  <2>2. hand.key = Key(drag)
    BY <1>3, <1>9, <2>1 DEF Key
  <2>3. hand.key \in DOMAIN values /\ values[hand.key] = hand.v
    BY <1>3, <2>2
  <2>4. CASE OnParams(m.params)
    <3> DEFINE kept == KeptButHeld(m.params)
    <3>1. hand.key \notin kept
      BY <1>7, <2>2 DEF KeptButHeld
    <3>2. values' = Shown([x \in kept |-> m.params[x]])
      BY <2>4 DEF OnParams
    <3> HIDE DEF kept
    <3> QED
      BY <2>3, <3>1, <3>2 DEF Shown
  <2> QED
    BY <1>5, <2>3, <2>4
<1> QED
  BY <1>1, <1>3, <1>7, <1>8, <1>9

LEMMA HandStep == HandInv /\ [Next]_vars => HandInv'
<1> SUFFICES ASSUME HandInv, [Next]_vars
             PROVE  HandInv'
  OBVIOUS
<1>1. PanelInv'
  BY PanelStep DEF HandInv
<1>2. ASSUME hand' = NoHand
      PROVE  HandInv'
  BY <1>1, <1>2 DEF HandInv
<1>3. ASSUME UNCHANGED <<slot, comp, values, drag, hand>>
      PROVE  HandInv'
  BY <1>1, <1>3 DEF HandInv, Key
<1>4. CASE Press \/ DoubleClick
  <2>1. hand = NoHand
    BY <1>4 DEF Press, DoubleClick, HandInv
  <2> QED
    BY <1>2, <1>4, <2>1 DEF Press, DoubleClick
<1>5. CASE Release \/ ChangeSlot
  BY <1>2, <1>5 DEF Release, ChangeSlot
<1>6. CASE Move \/ Toggle \/ Receive
  BY <1>6, HandMoves, HandToggles, HandReceives
<1>7. CASE Resubscribe \/ Connect \/ Close \/ Handle \/ Hardware
  BY <1>3, <1>7 DEF Resubscribe, Connect, Close, Handle, Hardware, panel
<1>8. CASE UNCHANGED vars
  BY <1>3, <1>8 DEF vars, panel
<1> QED
  BY <1>4, <1>5, <1>6, <1>7, <1>8 DEF Next, Users

\* While a knob is held the value under the hand is the truth, whatever the
\* device echoes, pushes or answers meanwhile, and in whatever order.
THEOREM TheHandIsTruth == Spec => []HandIsTruth
<1>1. HandInv => HandIsTruth
  BY DEF HandInv, HandIsTruth
<1> QED
  BY <1>1, HandInit, HandStep, PTL DEF Spec
=============================================================================
