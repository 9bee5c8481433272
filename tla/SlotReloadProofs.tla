-------------------------- MODULE SlotReloadProofs --------------------------
(***************************************************************************)
(* Theorems about SlotReload: what no break of a deployment and no device  *)
(* that ignores, delays or serves the old inode can bring about.           *)
(***************************************************************************)
EXTENDS SlotReload, SequenceTheorems, TLAPS

Steps == {"upload", "swap", "loadtest", "connect", "failed"} \cup Connected

-----------------------------------------------------------------------------
(* The code the host has mapped. *)

\* The first inode is never written.  The second is only while no name and no
\* mapping leads to it, and is whole from then on.
FilesInv ==
  /\ content \in [1..2 -> {"old", "part", "new"}]
  /\ content[1] = "old"
  /\ names \in [so : 1..2, new : {0, 2}]
  /\ pc \in Steps
  /\ pc = "upload" => names.so = 1
  /\ pc = "swap" => names.so = 1 /\ content[2] = "new"
  /\ names.so = 2 => content[2] = "new"
  /\ mapped \in 0..2
  /\ mapped = 2 => names.so = 2
  /\ mapped = 0 => loadedAs = NoBuild
  /\ mapped # 0 => content[mapped] = loadedAs

LEMMA FilesInit == Init => FilesInv
<1> SUFFICES ASSUME Init PROVE FilesInv
  OBVIOUS
<1>1. content = <<"old", "part">>
  BY DEF Init
<1>2. /\ content \in [1..2 -> {"old", "part", "new"}]
      /\ content[1] = "old" /\ content[2] = "part"
  BY <1>1
<1>3. names \in [so : 1..2, new : {0, 2}] /\ names.so = 1
  <2>1. names = [so |-> 1, new |-> 0]
    BY DEF Init
  <2> QED
    BY <2>1
<1>4. (mapped = 1 /\ loadedAs = "old") \/ (mapped = 0 /\ loadedAs = NoBuild)
  BY DEF Init
<1>5. pc = "upload"
  BY DEF Init
<1> QED
  BY <1>2, <1>3, <1>4, <1>5 DEF FilesInv, Steps

LEMMA FilesStep == FilesInv /\ [Next]_vars => FilesInv'
<1> SUFFICES ASSUME FilesInv, [Next]_vars
             PROVE  FilesInv'
  OBVIOUS
<1> USE DEF FilesInv, Steps, Connected
<1>1. CASE Upload
  BY <1>1 DEF Upload
<1>2. CASE Swap
  BY <1>2 DEF Swap
<1>3. CASE Loadtest
  BY <1>3 DEF Loadtest, device
<1>4. CASE Connect
  BY <1>4 DEF Connect, device
<1>5. CASE Subscribe \/ Clear \/ SetModule \/ Again
  BY <1>5 DEF Subscribe, Clear, SetModule, Again, Send, device
<1>6. CASE Receive \/ Raise
  BY <1>6 DEF Receive, Raise, device
<1>7. CASE Conclude
  BY <1>7 DEF Conclude, device
<1>8. CASE TimeOut
  BY <1>8 DEF TimeOut, device
<1>9. CASE Answer
  BY <1>9 DEF Answer, device, script
<1>10. CASE Obey
  <2>1. UNCHANGED <<content, names, pc>>
    BY <1>10 DEF Obey, script
  <2>2. \/ UNCHANGED <<mapped, loadedAs>>
        \/ mapped' = names["so"] /\ loadedAs' = content[names["so"]]
    BY <1>10 DEF Obey, Load
  <2> QED
    BY <2>1, <2>2
<1>11. CASE Push
  BY <1>11 DEF Push, device, script
<1>12. CASE Pick
  BY <1>12 DEF Pick, Load, script
<1>13. CASE UNCHANGED vars
  BY <1>13 DEF vars, device, script
<1> QED
  BY <1>1, <1>2, <1>3, <1>4, <1>5, <1>6, <1>7, <1>8, <1>9, <1>10, <1>11, <1>12,
     <1>13 DEF Next, Script, Device

\* Whatever a deployment does, and wherever it breaks off, the host's mapping
\* holds the whole build it was loaded with.
THEOREM MappedCodeStaysIntact == Spec => []MappedCodeIntact
<1>1. FilesInv => MappedCodeIntact
  BY DEF FilesInv, MappedCodeIntact
<1> QED
  BY <1>1, FilesInit, FilesStep, PTL DEF Spec

-----------------------------------------------------------------------------
(* The verdict. *)

Fxs == {"", "other", Module, NoModule}
Builds == {"old", "new"}

Commands == [type : {"subscribe"}] \cup [type : {"module"}, value : {"", Module}]

\* What a message may say once the slot has been seen running seen.
Infos(seen) ==
  {m \in [type : {"slot_info"}, fx : Fxs] :
     m.fx = Module => \E r \in seen : r[1] = Module}
Updates(seen) ==
  {m \in [type : {"param_update"}, build : Builds] : <<Module, m.build>> \in seen}
Messages(seen) == Infos(seen) \cup Updates(seen)

\* Everything the script waits for, has read or has said was once so.
TruthInv ==
  /\ slot \in {"", "other", Module}
  /\ loadedAs \in Builds \cup {NoBuild}
  /\ commands \in Seq(Commands)
  /\ pc \notin Connected => commands = <<>>
  /\ pc \in Connected => <<slot, Reported>> \in ran
  /\ inbox \in Seq(Messages(ran))
  /\ loaded = Module => \E r \in ran : r[1] = Module
  /\ running # NoBuild => running \in Builds /\ <<Module, running>> \in ran
  /\ VerdictWasTrue

LEMMA MessagesGrow ==
  ASSUME NEW seen, NEW more, seen \subseteq more
  PROVE  Seq(Messages(seen)) \subseteq Seq(Messages(more))
<1>1. Messages(seen) \subseteq Messages(more)
  BY DEF Messages, Infos, Updates
<1> QED
  BY <1>1, SeqMonotonic

\* A step that shows no more than was known, and reads and says nothing, keeps
\* the truth, whatever more the slot comes to run.
LEMMA TruthKept ==
  ASSUME TruthInv, ran \subseteq ran',
         slot' \in {"", "other", Module}, loadedAs' \in Builds \cup {NoBuild},
         commands' \in Seq(Commands), pc' \notin Connected => commands' = <<>>,
         pc' \in Connected => <<slot', Reported'>> \in ran',
         inbox' \in Seq(Messages(ran)),
         UNCHANGED <<expect, loaded, running>>,
         verdict' = verdict \/ verdict' \in {"none", "unreachable"}
  PROVE  TruthInv'
<1>1. inbox' \in Seq(Messages(ran'))
  BY MessagesGrow
<1>2. VerdictWasTrue'
  BY DEF TruthInv, VerdictWasTrue
<1> QED
  BY <1>1, <1>2 DEF TruthInv

LEMMA TruthInit == Init => TruthInv
<1> SUFFICES ASSUME Init PROVE TruthInv
  OBVIOUS
<1>1. commands \in Seq(Commands) /\ inbox \in Seq(Messages(ran))
  BY EmptySeq DEF Init
<1> QED
  BY <1>1 DEF Init, TruthInv, VerdictWasTrue, Builds, Module, NoModule, NoBuild,
              Connected

\* What the script makes of the messages of one read is true if they are.
LEMMA ReadingIsTrue ==
  ASSUME NEW msgs \in Seq(Messages(ran)), TruthInv, LastInfo(msgs), LastBuild(msgs)
  PROVE  /\ loaded' = Module => \E r \in ran : r[1] = Module
         /\ running' # NoBuild => running' \in Builds /\ <<Module, running'>> \in ran
<1>0. \A i \in 1..Len(msgs) : msgs[i] \in Messages(ran)
  BY ElementOfSeq
<1>1. ASSUME NEW i \in 1..Len(msgs), msgs[i].type = "slot_info"
      PROVE  msgs[i].fx = Module => \E r \in ran : r[1] = Module
  BY <1>0, <1>1 DEF Messages, Infos, Updates
<1>2. ASSUME NEW i \in 1..Len(msgs), msgs[i].type = "param_update"
      PROVE  msgs[i].build \in Builds /\ <<Module, msgs[i].build>> \in ran
  BY <1>0, <1>2 DEF Messages, Infos, Updates
<1>3. loaded' = Module => \E r \in ran : r[1] = Module
  BY <1>1 DEF LastInfo, IsLast, TruthInv
<1>4. running' # NoBuild => running' \in Builds /\ <<Module, running'>> \in ran
  BY <1>2 DEF LastBuild, IsLast, TruthInv
<1> QED
  BY <1>3, <1>4

\* So is what it concludes.
LEMMA ConclusionIsTrue ==
  ASSUME TruthInv, verdict' = Verdict, UNCHANGED <<expect, ran>>
  PROVE  VerdictWasTrue'
BY DEF TruthInv, VerdictWasTrue, Verdict, Builds, NoBuild, Module

\* The slot's own answers say what it runs.
LEMMA AnswersAreTrue ==
  ASSUME TruthInv, pc \in Connected
  PROVE  /\ \A info \in SlotInfos : <<info>> \in Seq(Messages(ran))
         /\ Params \in Seq(Messages(ran))
<1>1. <<slot, Reported>> \in ran /\ slot \in {"", "other", Module}
  BY DEF TruthInv
<1>2. ASSUME NEW info \in SlotInfos
      PROVE  info \in Messages(ran)
  <2>1. PICK m \in {slot, NoModule} : info = [type |-> "slot_info", fx |-> m]
    BY DEF SlotInfos
  <2>2. m = Module => m = slot
    BY <2>1 DEF NoModule, Module
  <2>3. m = Module => \E r \in ran : r[1] = Module
    BY <1>1, <2>2
  <2>4. m \in Fxs
    BY <1>1, <2>1 DEF Fxs
  <2> QED
    BY <2>1, <2>3, <2>4 DEF Messages, Infos
<1>3. ASSUME Reported # NoBuild
      PROVE  [type |-> "param_update", build |-> Reported] \in Messages(ran)
  BY <1>1, <1>3 DEF Messages, Updates, Reported, TruthInv
<1> QED
  BY <1>2, <1>3 DEF Params

\* What a fresh mapping finds on disk is a whole build.
LEMMA OnDiskIsWhole == FilesInv => content[names["so"]] \in Builds
<1> SUFFICES ASSUME FilesInv PROVE content[names["so"]] \in Builds
  OBVIOUS
<1>1. names["so"] = 1 \/ names["so"] = 2
  BY DEF FilesInv
<1> QED
  BY <1>1 DEF FilesInv, Builds

LEMMA TruthStep == FilesInv /\ FilesInv' /\ TruthInv /\ [Next]_vars => TruthInv'
<1> SUFFICES ASSUME FilesInv, FilesInv', TruthInv, [Next]_vars
             PROVE  TruthInv'
  OBVIOUS
<1>0. /\ inbox \in Seq(Messages(ran)) /\ commands \in Seq(Commands)
      /\ slot \in {"", "other", Module} /\ loadedAs \in Builds \cup {NoBuild}
      /\ pc \notin Connected => commands = <<>>
      /\ pc \in Connected => <<slot, Reported>> \in ran
  BY DEF TruthInv
<1>1. CASE Upload
  <2>1. pc \notin Connected /\ pc' \notin Connected
    BY <1>1 DEF Upload, Connected
  <2> QED
    BY <1>0, <1>1, <2>1, TruthKept DEF Upload, wire
<1>2. CASE Swap
  <2>1. pc \notin Connected /\ pc' \notin Connected
    BY <1>2 DEF Swap, Connected
  <2> QED
    BY <1>0, <1>2, <2>1, TruthKept DEF Swap, wire
<1>3. CASE Loadtest
  <2>1. pc \notin Connected /\ pc' \notin Connected
    BY <1>3 DEF Loadtest, Connected
  <2> QED
    BY <1>0, <1>3, <2>1, TruthKept DEF Loadtest, wire, device
<1>4. CASE Connect \/ Raise
  <2>1. /\ ran \subseteq ran' /\ <<slot', Reported'>> \in ran'
        /\ verdict' = verdict \/ verdict' \in {"none", "unreachable"}
        /\ pc' \in Connected
    BY <1>4 DEF Connect, Raise, Remember, Connected
  <2>2. UNCHANGED <<slot, loadedAs, commands, inbox, expect, loaded, running>>
    BY <1>4 DEF Connect, Raise, wire, device
  <2> QED
    BY <1>0, <2>1, <2>2, TruthKept
<1>5. CASE Subscribe \/ Clear \/ SetModule \/ Again
  <2>1. ASSUME NEW at \in Connected, NEW command \in Commands,
               NEW next \in Connected, Send(at, command, next)
        PROVE  TruthInv'
    <3>1. commands' \in Seq(Commands)
      BY <1>0, <2>1, AppendProperties DEF Send
    <3>2. ran \subseteq ran' /\ <<slot', Reported'>> \in ran'
      BY <2>1 DEF Send, Remember
    <3>3. pc' \in Connected
      BY <2>1 DEF Send
    <3> QED
      BY <1>0, <2>1, <3>1, <3>2, <3>3, TruthKept DEF Send, device
  <2> QED
    BY <1>5, <2>1 DEF Subscribe, Clear, SetModule, Again, Connected, Commands
<1>6. CASE Receive
  <2>1. PICK n \in 1..Len(inbox) :
          /\ LastInfo(SubSeq(inbox, 1, n))
          /\ LastBuild(SubSeq(inbox, 1, n))
          /\ inbox' = SubSeq(inbox, n + 1, Len(inbox))
    BY <1>6 DEF Receive
  <2>2. \A i \in 1..Len(inbox) : inbox[i] \in Messages(ran)
    BY <1>0, ElementOfSeq
  <2>3. Len(inbox) \in Nat
    BY <1>0, LenProperties
  <2>4. /\ SubSeq(inbox, 1, n) \in Seq(Messages(ran))
        /\ inbox' \in Seq(Messages(ran))
    <3>1. \A i \in 1..n : inbox[i] \in Messages(ran)
      BY <2>2, <2>3
    <3>2. \A i \in n+1..Len(inbox) : inbox[i] \in Messages(ran)
      BY <2>2, <2>3
    <3>3. SubSeq(inbox, 1, n) \in Seq(Messages(ran))
      BY <2>3, <3>1, SubSeqProperties
    <3>4. SubSeq(inbox, n + 1, Len(inbox)) \in Seq(Messages(ran))
      BY <2>3, <3>2, SubSeqProperties
    <3> QED
      BY <2>1, <3>3, <3>4
  <2>5. /\ loaded' = Module => \E r \in ran : r[1] = Module
        /\ running' # NoBuild => running' \in Builds /\ <<Module, running'>> \in ran
    BY <2>1, <2>4, ReadingIsTrue
  <2>6. UNCHANGED <<slot, loadedAs, commands, pc, expect, verdict, ran>>
    BY <1>6 DEF Receive, device
  <2>7. VerdictWasTrue' /\ Reported' = Reported
    BY <2>6 DEF TruthInv, VerdictWasTrue, Reported
  <2> QED
    BY <1>0, <2>4, <2>5, <2>6, <2>7 DEF TruthInv
<1>7. CASE Conclude \/ TimeOut
  <2>1. /\ verdict' = Verdict
        /\ UNCHANGED <<slot, loadedAs, commands, inbox, expect, loaded, running, ran>>
        /\ pc \in Connected /\ pc' \in Connected
    BY <1>7 DEF Conclude, TimeOut, device, wire, Connected
  <2>2. VerdictWasTrue' /\ Reported' = Reported
    BY <2>1, ConclusionIsTrue DEF Reported
  <2> QED
    BY <1>0, <2>1, <2>2 DEF TruthInv
<1>8. CASE Answer
  <2>1. pc \in Connected /\ commands' \in Seq(Commands)
    BY <1>0, <1>8, HeadTailProperties DEF Answer
  <2>2. inbox' \in Seq(Messages(ran))
    <3>1. PICK info \in SlotInfos :
            inbox' \in {inbox \o <<info>> \o Params, inbox \o Params \o <<info>>}
      BY <1>8 DEF Answer
    <3>2. <<info>> \in Seq(Messages(ran)) /\ Params \in Seq(Messages(ran))
      BY <2>1, AnswersAreTrue
    <3>3. /\ inbox \o <<info>> \in Seq(Messages(ran))
          /\ inbox \o Params \in Seq(Messages(ran))
      BY <1>0, <3>2, ConcatProperties
    <3> QED
      BY <3>1, <3>2, <3>3, ConcatProperties
  <2>3. UNCHANGED <<slot, loadedAs, pc, expect, loaded, running, verdict, ran>>
    BY <1>8 DEF Answer, device, script
  <2>4. Reported' = Reported
    BY <2>3 DEF Reported
  <2> QED
    BY <1>0, <2>1, <2>2, <2>3, <2>4, TruthKept
<1>9. CASE Obey
  <2>1. /\ pc \in Connected /\ commands' \in Seq(Commands)
        /\ Head(commands) \in Commands
    BY <1>0, <1>9, HeadTailProperties DEF Obey
  <2>2. UNCHANGED <<inbox, pc, expect, loaded, running, verdict>>
    BY <1>9 DEF Obey, script
  <2>3. ran \subseteq ran' /\ <<slot', Reported'>> \in ran'
    BY <1>9, <2>1, <2>2 DEF Obey, Remember
  <2>4. Head(commands).type = "module" => Head(commands).value \in {"", Module}
    BY <2>1 DEF Commands
  <2>5. slot' \in {"", "other", Module}
    BY <1>0, <1>9, <2>4 DEF Obey, Load
  <2>6. loadedAs' \in Builds \cup {NoBuild}
    BY <1>0, <1>9, OnDiskIsWhole DEF Obey, Load
  <2> QED
    BY <1>0, <2>1, <2>2, <2>3, <2>5, <2>6, TruthKept
<1>10. CASE Push
  <2>1. pc \in Connected
    BY <1>10 DEF Push, Connected
  <2>2. inbox' \in Seq(Messages(ran))
    BY <1>0, <1>10, <2>1, AnswersAreTrue, ConcatProperties DEF Push
  <2>3. UNCHANGED <<slot, loadedAs, commands, pc, expect, loaded, running, verdict, ran>>
    BY <1>10 DEF Push, device, script
  <2>4. Reported' = Reported
    BY <2>3 DEF Reported
  <2> QED
    BY <1>0, <2>2, <2>3, <2>4, TruthKept
<1>11. CASE Pick
  <2>1. UNCHANGED <<commands, inbox, pc, expect, loaded, running, verdict>>
    BY <1>11 DEF Pick, wire, script
  <2>2. ran \subseteq ran' /\ (pc' \in Connected => <<slot', Reported'>> \in ran')
    BY <1>11 DEF Pick, Remember
  <2>3. slot' = Module /\ loadedAs' \in Builds \cup {NoBuild}
    BY <1>0, <1>11, OnDiskIsWhole DEF Pick, Load
  <2> QED
    BY <1>0, <2>1, <2>2, <2>3, TruthKept
<1>12. CASE UNCHANGED vars
  <2>1. /\ UNCHANGED <<slot, loadedAs, commands, inbox, pc, expect, loaded, running,
                       verdict, ran>>
        /\ Reported' = Reported
    BY <1>12 DEF vars, device, wire, script, Reported
  <2> QED
    BY <1>0, <2>1, TruthKept
<1> QED
  BY <1>1, <1>2, <1>3, <1>4, <1>5, <1>6, <1>7, <1>8, <1>9, <1>10, <1>11, <1>12
  DEF Next, Script, Device

\* No verdict is made up: a good one means that the module, and the expected
\* build if there was one, has been in the slot since the connection, and a
\* stale one that another build has.
THEOREM VerdictsWereTrue == Spec => []VerdictWasTrue
<1>1. TruthInv => VerdictWasTrue
  BY DEF TruthInv
<1> QED
  BY <1>1, FilesInit, FilesStep, TruthInit, TruthStep, PTL DEF Spec

-----------------------------------------------------------------------------
(* The messages that wait for the script. *)

\* The k-th of the four commands the script sends.
Outgoing(k) == IF k \in {1, 4} THEN [type |-> "subscribe"]
               ELSE [type |-> "module", value |-> IF k = 2 THEN "" ELSE Module]

\* The messages that will answer the subscriptions after the k-th command.
Owed(k) == IF k = 0 THEN 4 ELSE IF k < 4 THEN 2 ELSE 0

\* How many it has sent when it is about to take a step.
SentAt(step, n) ==
  /\ step = "subscribe" => n = 0
  /\ step = "clear" => n = 1
  /\ step = "set" => n = 2
  /\ step = "again" => n = 3
  /\ step \in {"upload", "swap", "loadtest", "connect", "failed"} => n = 0

\* Of n commands sent the manager has handled k, and whatever it is still to
\* answer finds room: two messages for each subscription that is not answered.
Room(n, k) ==
  /\ n \in 0..4
  /\ k \in 0..n
  /\ SentAt(pc, n)
  /\ Len(commands) = n - k
  /\ \A i \in 1..n-k : commands[i] = Outgoing(k + i)
  /\ Len(inbox) + Owed(k) <= MaxInbox + 4

Verdicts == {"none", "unreachable", "stale", "unproven", "running", "not running"}

RoomInv == (\E n, k \in 0..4 : Room(n, k)) /\ verdict \in Verdicts

LEMMA RoomInit == Init => RoomInv
<1> SUFFICES ASSUME Init PROVE RoomInv
  OBVIOUS
<1>1. Len(commands) = 0 /\ Len(inbox) = 0 /\ pc = "upload" /\ verdict = "none"
  BY DEF Init
<1>2. Room(0, 0)
  BY <1>1, InboxAssumption DEF Room, SentAt, Owed
<1> QED
  BY <1>1, <1>2 DEF RoomInv, Verdicts

\* The first and the last thing sent are the subscriptions.
LEMMA OutgoingRead ==
  /\ \A k \in 1..4 : Outgoing(k) \in Commands
  /\ \A k \in 0..3 : /\ Outgoing(k + 1).type = "subscribe" <=> k \in {0, 3}
                     /\ Outgoing(k + 1).type = "module" <=> k \in {1, 2}
                     /\ k \in {0, 3} => Owed(k + 1) = Owed(k) - 2
                     /\ k \in {1, 2} => Owed(k + 1) = Owed(k)
  /\ \A k \in 0..4 : Owed(k) \in 0..4
BY DEF Outgoing, Owed, Commands

\* An answer is one message, or two.
LEMMA AnswerIsShort == Len(Params) \in 0..1
BY DEF Params

\* Sums of lengths, apart from the sequences.
LEMMA StillFits ==
  ASSUME NEW bound \in Nat, NEW waiting \in Nat, NEW owed \in 0..4, NEW more \in 0..1
  PROVE  /\ waiting + owed <= bound + 4 => waiting + 1 + more + (owed - 2) <= bound + 4
         /\ waiting < bound => waiting + more + owed <= bound + 4
OBVIOUS

LEMMA RoomStep == TruthInv /\ RoomInv /\ [Next]_vars => RoomInv'
<1> SUFFICES ASSUME TruthInv, RoomInv, [Next]_vars
             PROVE  RoomInv'
  OBVIOUS
<1>0. PICK n \in 0..4, k \in 0..4 : Room(n, k)
  BY DEF RoomInv
<1>0a. /\ Len(inbox) + Owed(k) <= MaxInbox + 4
       /\ Owed(k) \in 0..4 /\ k \in 0..n /\ SentAt(pc, n)
       /\ Len(commands) = n - k
       /\ \A i \in 1..n-k : commands[i] = Outgoing(k + i)
  BY <1>0, OutgoingRead DEF Room
<1>0b. Len(inbox) \in Nat /\ Owed(k) \in 0..4 /\ Len(Params) \in 0..1
       /\ Len(inbox) + Owed(k) <= MaxInbox + 4
  BY <1>0a, AnswerIsShort, LenProperties DEF TruthInv
<1>1. /\ inbox \in Seq(Messages(ran)) /\ Len(inbox) \in Nat
      /\ commands \in Seq(Commands)
      /\ pc \in Connected => Params \in Seq(Messages(ran))
  BY AnswersAreTrue, LenProperties DEF TruthInv
<1>2. verdict' \in Verdicts
  <2>1. Verdict \in Verdicts
    BY DEF Verdict, Verdicts
  <2>2. verdict' = verdict \/ verdict' = Verdict \/ verdict' = "unreachable"
    BY DEF Next, vars, script, Script, Device, Upload, Swap, Loadtest, Connect,
           Subscribe, Clear, SetModule, Again, Send, Raise, Receive, Conclude,
           TimeOut, Answer, Obey, Push, Pick
  <2> QED
    BY <2>1, <2>2 DEF RoomInv, Verdicts
<1>3. ASSUME SentAt(pc', n), UNCHANGED <<commands, inbox>>
      PROVE  Room(n, k)'
  BY <1>0, <1>3 DEF Room
<1>4. CASE Upload \/ Swap \/ Loadtest \/ Connect \/ Raise \/ Conclude \/ TimeOut \/ Pick
           \/ UNCHANGED vars
  <2>1. UNCHANGED <<commands, inbox>>
    BY <1>4 DEF Upload, Swap, Loadtest, Connect, Raise, Conclude, TimeOut, Pick, vars,
                wire
  <2>2. SentAt(pc', n)
    BY <1>0, <1>4 DEF Upload, Swap, Loadtest, Connect, Raise, Conclude, TimeOut, Pick,
                      vars, script, Room, SentAt
  <2> QED
    BY <1>2, <1>3, <2>1, <2>2 DEF RoomInv
<1>5. CASE Subscribe \/ Clear \/ SetModule \/ Again
  <2>1. /\ n \in 0..3 /\ SentAt(pc', n + 1) /\ inbox' = inbox
        /\ commands' = Append(commands, Outgoing(n + 1))
    <3>1. /\ Outgoing(1) = [type |-> "subscribe"] /\ Outgoing(4) = [type |-> "subscribe"]
          /\ Outgoing(2) = [type |-> "module", value |-> ""]
          /\ Outgoing(3) = [type |-> "module", value |-> Module]
      BY DEF Outgoing
    <3>2. inbox' = inbox
      BY <1>5 DEF Subscribe, Clear, SetModule, Again, Send
    <3>3. \/ pc = "subscribe" /\ pc' = "clear" /\ commands' = Append(commands, Outgoing(1))
          \/ pc = "clear" /\ pc' = "set" /\ commands' = Append(commands, Outgoing(2))
          \/ pc = "set" /\ pc' = "again" /\ commands' = Append(commands, Outgoing(3))
          \/ pc = "again" /\ pc' = "read" /\ commands' = Append(commands, Outgoing(4))
      BY <1>5, <3>1 DEF Subscribe, Clear, SetModule, Again, Send
    <3>4. \/ n = 0 /\ n + 1 = 1 /\ pc' = "clear" /\ commands' = Append(commands, Outgoing(1))
          \/ n = 1 /\ n + 1 = 2 /\ pc' = "set" /\ commands' = Append(commands, Outgoing(2))
          \/ n = 2 /\ n + 1 = 3 /\ pc' = "again" /\ commands' = Append(commands, Outgoing(3))
          \/ n = 3 /\ n + 1 = 4 /\ pc' = "read" /\ commands' = Append(commands, Outgoing(4))
      BY <1>0a, <3>3 DEF SentAt
    <3>5. n \in 0..3 /\ commands' = Append(commands, Outgoing(n + 1))
      BY <3>4
    <3>6. SentAt(pc', n + 1)
      BY <3>4 DEF SentAt
    <3> QED
      BY <3>2, <3>5, <3>6
  <2>2. Outgoing(n + 1) \in Commands
    BY <2>1, OutgoingRead
  <2>3. /\ Len(commands') = Len(commands) + 1
        /\ \A i \in 1..Len(commands) : commands'[i] = commands[i]
        /\ commands'[Len(commands) + 1] = Outgoing(n + 1)
    BY <1>1, <2>1, <2>2, AppendProperties
  <2>4. Room(n + 1, k)'
    BY <1>0, <2>1, <2>3 DEF Room
  <2> QED
    BY <1>2, <2>1, <2>4 DEF RoomInv
<1>6. CASE Receive
  <2>1. PICK m \in 1..Len(inbox) : inbox' = SubSeq(inbox, m + 1, Len(inbox))
    BY <1>6 DEF Receive
  <2>2. Len(inbox') = Len(inbox) - m
    <3>1. \A i \in m+1..Len(inbox) : inbox[i] \in Messages(ran)
      BY <1>1, ElementOfSeq
    <3> QED
      BY <1>1, <2>1, <3>1, SubSeqProperties
  <2>3. UNCHANGED <<pc, commands>>
    BY <1>6 DEF Receive
  <2>4. Room(n, k)'
    <3>1. Len(inbox') + Owed(k) <= MaxInbox + 4
      BY <1>0a, <1>1, <2>2, InboxAssumption
    <3> QED
      BY <1>0a, <2>3, <3>1 DEF Room
  <2> QED
    BY <1>2, <2>4 DEF RoomInv
<1>7. CASE Answer \/ Obey
  <2>1. /\ commands # <<>> /\ commands' = Tail(commands) /\ pc' = pc
    BY <1>7 DEF Answer, Obey, script
  <2>2. /\ k < n /\ Head(commands) = Outgoing(k + 1)
        /\ Len(commands') = n - (k + 1)
        /\ \A i \in 1..n-(k+1) : commands'[i] = Outgoing((k + 1) + i)
    BY <1>0, <1>1, <2>1, HeadTailProperties DEF Room
  <2>3. CASE Answer
    <3>1. k \in {0, 3}
      BY <1>0a, <2>2, <2>3, OutgoingRead DEF Answer
    <3>2. PICK info \in SlotInfos :
            inbox' \in {inbox \o <<info>> \o Params, inbox \o Params \o <<info>>}
      BY <2>3 DEF Answer
    <3>3. pc \in Connected
      BY <2>1 DEF TruthInv
    <3>4. <<info>> \in Seq(Messages(ran)) /\ Params \in Seq(Messages(ran))
      BY <3>3, AnswersAreTrue
    <3>5. Len(inbox') = Len(inbox) + 1 + Len(Params)
      <4>1. /\ inbox \o <<info>> \in Seq(Messages(ran))
            /\ Len(inbox \o <<info>>) = Len(inbox) + 1
            /\ inbox \o Params \in Seq(Messages(ran))
            /\ Len(inbox \o Params) = Len(inbox) + Len(Params)
        BY <1>1, <3>4, ConcatProperties
      <4> QED
        BY <3>2, <3>4, <4>1, ConcatProperties, AnswerIsShort
    <3>6. Len(inbox') + Owed(k + 1) <= MaxInbox + 4
      <4>1. Owed(k + 1) = Owed(k) - 2
        BY <1>0a, <2>2, <3>1, OutgoingRead
      <4>2. Len(inbox) + 1 + Len(Params) + (Owed(k) - 2) <= MaxInbox + 4
        BY <1>0b, StillFits, InboxAssumption
      <4> QED
        BY <3>5, <4>1, <4>2
    <3>7. Room(n, k + 1)'
      BY <1>0, <2>1, <2>2, <3>6 DEF Room
    <3> QED
      BY <1>2, <2>2, <3>7 DEF RoomInv
  <2>4. CASE Obey
    <3>1. k \in {1, 2} /\ inbox' = inbox
      <4>1. Head(commands).type = "module" /\ inbox' = inbox
        BY <2>4 DEF Obey
      <4>2. k \in 0..3
        BY <1>0a, <2>2
      <4> QED
        BY <2>2, <4>1, <4>2, OutgoingRead
    <3>2. Room(n, k + 1)'
      <4>1. Owed(k + 1) = Owed(k)
        BY <1>0a, <2>2, <3>1, OutgoingRead
      <4>2. Len(inbox') + Owed(k + 1) <= MaxInbox + 4
        <5>1. Len(inbox') = Len(inbox)
          BY <3>1
        <5>2. Len(inbox) + Owed(k) <= MaxInbox + 4
          BY <1>0b
        <5> QED
          BY <4>1, <5>1, <5>2, Zenon
      <4> QED
        BY <1>0, <2>1, <2>2, <4>2 DEF Room
    <3> QED
      BY <1>2, <2>2, <3>2 DEF RoomInv
  <2> QED
    BY <1>7, <2>3, <2>4
<1>8. CASE Push
  <2>1. pc \in Connected /\ UNCHANGED <<pc, commands>>
    BY <1>8 DEF Push, Connected, script
  <2>2. Len(inbox') = Len(inbox) + Len(Params) /\ Len(inbox) < MaxInbox
    BY <1>1, <1>8, <2>1, ConcatProperties DEF Push
  <2>3. Len(inbox') + Owed(k) <= MaxInbox + 4
    <3>1. Len(inbox) + Len(Params) + Owed(k) <= MaxInbox + 4
      BY <1>0b, <2>2, StillFits, InboxAssumption
    <3> QED
      BY <2>2, <3>1
  <2>4. Room(n, k)'
    BY <1>0, <2>1, <2>3 DEF Room
  <2> QED
    BY <1>2, <2>4 DEF RoomInv
<1> QED
  BY <1>4, <1>5, <1>6, <1>7, <1>8 DEF Next, Script, Device

\* Every variable keeps its type; in particular, no device can bring more than
\* four messages to wait beyond those it pushes unasked.
THEOREM ReloadTypeCorrect == Spec => []TypeOK
<1>1. FilesInv /\ TruthInv /\ RoomInv => TypeOK
  <2> SUFFICES ASSUME FilesInv, TruthInv, RoomInv PROVE TypeOK
    OBVIOUS
  <2>1. Len(inbox) <= MaxInbox + 4
    <3>1. PICK n \in 0..4, k \in 0..4 : Room(n, k)
      BY DEF RoomInv
    <3>2. Len(inbox) \in Nat
      BY LenProperties DEF TruthInv
    <3> QED
      BY <3>1, <3>2, InboxAssumption DEF Room, Owed
  <2>2. loadedAs \in {"old", "part", "new", NoBuild} /\ slot \in {"", Module, "other"}
    BY DEF TruthInv, Builds
  <2> QED
    BY <2>1, <2>2 DEF TypeOK, FilesInv, RoomInv, Verdicts, Steps
<1> QED
  BY <1>1, FilesInit, FilesStep, TruthInit, TruthStep, RoomInit, RoomStep, PTL DEF Spec
=============================================================================
