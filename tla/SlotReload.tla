----------------------------- MODULE SlotReload -----------------------------
(***************************************************************************)
(* deploy.sh and the reload_fx_slot.py it ends with, against the device:   *)
(* a module directory, the host process that maps the plugin, and the      *)
(* manager behind the websocket.  The scripts' steps are those of the      *)
(* source; the device (external) is any that behaves as the scripts        *)
(* describe it: it may ignore a write, it may serve the inode it has       *)
(* mapped already, and it may take its time.                               *)
(*                                                                         *)
(* Files are inodes: 1 is the plugin on the device when the deployment     *)
(* starts, 2 the one it uploads.  An inode holds a build, or part of one.  *)
(***************************************************************************)
EXTENDS Integers, Sequences

CONSTANTS Prompt,   \* a sleep of the script outlasts what the device has to do,
                    \* and nobody touches the slot meanwhile
          MaxInbox  \* bound on the messages waiting for the script

ASSUME PromptAssumption == Prompt \in BOOLEAN

ASSUME InboxAssumption == MaxInbox \in Nat

VARIABLES
  content,   \* what each inode holds
  names,     \* the directory: the inode of 4k-eq.so and of 4k-eq.so.new
  slot,      \* the module id in the FX position, "" for none
  mapped,    \* the inode the host process has mapped, 0 for none
  loadedAs,  \* the build that was in it when it was mapped
  commands,  \* what the script has sent and the manager not yet handled
  inbox,     \* what the manager has sent and the script not yet read
  pc,        \* the step the scripts are about to take
  expect,    \* the build the script is told to expect, or NoBuild
  loaded,    \* the module id of the last slot_info read, NoModule before one
  running,   \* the last build id read, or NoBuild
  verdict,   \* what the reload script says in the end
  ran        \* <<module, build>> in the slot since the connection (history)

device == <<content, names, slot, mapped, loadedAs>>
wire == <<commands, inbox>>
script == <<pc, expect, loaded, running, verdict>>
vars == <<device, wire, script, ran>>

Module == "4k-eq"
NoModule == "no slot_info"
NoBuild == "none"
Connected == {"subscribe", "clear", "set", "again", "read", "raised", "done"}

\* The build a slot reports: that of the plugin, when it is in the slot.
Reported == IF slot = Module THEN loadedAs ELSE NoBuild

\* Remember what the slot runs after a step, while the script is connected.
Remember ==
  ran' = IF pc' \in Connected THEN ran \cup {<<slot', Reported'>>} ELSE ran

-----------------------------------------------------------------------------
(* deploy.sh.  `set -e`: a step that fails ends it. *)

\* scp to the .new name: the whole file, or part of it when the link breaks.
UploadInPlace ==
  /\ pc = "upload"
  /\ \E sent \in {"part", "new"} :
       /\ content' = [content EXCEPT ![names["so"]] = sent]
       /\ pc' = IF sent = "new" THEN "swap" ELSE "failed"
  /\ UNCHANGED <<names, slot, mapped, loadedAs, wire, expect, loaded, running,
                 verdict, ran>>

Upload ==
  /\ pc = "upload"
  /\ \E sent \in {"part", "new"} :
       /\ content' = [content EXCEPT ![2] = sent]
       /\ names' = [names EXCEPT !["new"] = 2]
       /\ pc' = IF sent = "new" THEN "swap" ELSE "failed"
  /\ UNCHANGED <<slot, mapped, loadedAs, wire, expect, loaded, running, verdict,
                 ran>>

\* mv -f: the name moves to the new inode, and the old one stays mapped.  The
\* files that are moved after it may fail to.
SwapRemovingFirst ==
  /\ pc = "swap"
  /\ \/ /\ names["new"] # 0
        /\ names' = [so |-> names["new"], new |-> 0]
        /\ pc' \in {"loadtest", "failed"}
     \/ /\ pc' = "failed"
        /\ names' = [names EXCEPT !["so"] = 0]
  /\ UNCHANGED <<content, slot, mapped, loadedAs, wire, expect, loaded, running,
                 verdict, ran>>

Swap ==
  /\ pc = "swap"
  /\ \/ /\ names["new"] # 0
        /\ names' = [so |-> names["new"], new |-> 0]
        /\ pc' \in {"loadtest", "failed"}
     \/ /\ pc' = "failed"
        /\ UNCHANGED names
  /\ UNCHANGED <<content, slot, mapped, loadedAs, wire, expect, loaded, running,
                 verdict, ran>>

\* The loadtest, if it was built, maps the file in a process of its own; a
\* deployment it fails on ends here.
Loadtest ==
  /\ pc = "loadtest"
  /\ pc' \in {"connect", "failed"}
  /\ UNCHANGED <<device, wire, expect, loaded, running, verdict, ran>>

-----------------------------------------------------------------------------
(* reload_fx_slot.py. *)

\* The connection and its handshake, which may be refused.
Connect ==
  /\ pc = "connect"
  /\ \/ pc' = "subscribe" /\ verdict' = verdict
     \/ pc' = "done" /\ verdict' = "unreachable"
  /\ UNCHANGED <<device, wire, expect, loaded, running>>
  /\ Remember

Send(at, command, next) ==
  /\ pc = at
  /\ Prompt => commands = <<>>
  /\ commands' = Append(commands, command)
  /\ pc' = next
  /\ UNCHANGED <<device, inbox, expect, loaded, running, verdict>>
  /\ Remember

\* Subscribe; clear the position; set it; and subscribe again, with a sleep
\* after each but the last.
Subscribe == Send("subscribe", [type |-> "subscribe"], "clear")
Clear     == Send("clear", [type |-> "module", value |-> ""], "set")
SetModule == Send("set", [type |-> "module", value |-> Module], "again")
Again     == Send("again", [type |-> "subscribe"], "read")

\* A handshake that times out, or a send into a broken connection, is caught by
\* nobody: the script ends without a verdict.  What it has sent may still be
\* handled.
Raise ==
  /\ pc \in {"connect", "subscribe", "clear", "set", "again"}
  /\ pc' = "raised"
  /\ UNCHANGED <<device, wire, expect, loaded, running, verdict>>
  /\ Remember

\* Message i of a run is the last of its type.
IsLast(msgs, i, type) ==
  /\ msgs[i].type = type
  /\ \A j \in i+1..Len(msgs) : msgs[j].type # type

None(msgs, type) == \A i \in 1..Len(msgs) : msgs[i].type # type

\* What is left in `loaded` and `running_build` after a run of messages.
LastInfo(msgs) ==
  \/ None(msgs, "slot_info") /\ UNCHANGED loaded
  \/ \E i \in 1..Len(msgs) : IsLast(msgs, i, "slot_info") /\ loaded' = msgs[i].fx

LastBuild(msgs) ==
  \/ None(msgs, "param_update") /\ UNCHANGED running
  \/ \E i \in 1..Len(msgs) : IsLast(msgs, i, "param_update") /\ running' = msgs[i].build

\* What the script concludes, in the order of its tests.
VerdictIfReported ==
  IF expect # NoBuild /\ running # NoBuild /\ running # expect THEN "stale"
  ELSE IF loaded = Module THEN "running"
  ELSE "not running"

Verdict ==
  IF expect # NoBuild /\ running # NoBuild /\ running # expect THEN "stale"
  ELSE IF expect # NoBuild /\ running = NoBuild THEN "unproven"
  ELSE IF loaded = Module THEN "running"
  ELSE "not running"

\* recv: as many of the waiting messages as one read returns, all of which are
\* parsed; the loop goes on until one of them was a slot_info.
Receive ==
  /\ pc = "read"
  /\ loaded = NoModule
  /\ \E n \in 1..Len(inbox) :
       /\ LastInfo(SubSeq(inbox, 1, n))
       /\ LastBuild(SubSeq(inbox, 1, n))
       /\ inbox' = SubSeq(inbox, n + 1, Len(inbox))
  /\ UNCHANGED <<device, commands, pc, expect, verdict, ran>>

\* Out of the loop with a slot_info ...
Conclude ==
  /\ pc = "read"
  /\ loaded # NoModule
  /\ verdict' = Verdict
  /\ pc' = "done"
  /\ UNCHANGED <<device, wire, expect, loaded, running, ran>>

\* ... or without one: the read times out, the deadline passes between two
\* reads, or the manager hangs up.
TimeOutReadingOn ==
  /\ pc = "read"
  /\ loaded = NoModule
  /\ UNCHANGED vars

TimeOut ==
  /\ pc = "read"
  /\ loaded = NoModule
  /\ verdict' = Verdict
  /\ pc' = "done"
  /\ UNCHANGED <<device, wire, expect, loaded, running, ran>>

Script == \/ Upload \/ Swap \/ Loadtest \/ Connect
          \/ Subscribe \/ Clear \/ SetModule \/ Again \/ Raise
          \/ Receive \/ Conclude \/ TimeOut

-----------------------------------------------------------------------------
(* The device (external). *)

\* An empty position may be named empty or not be named at all.
SlotInfos == {[type |-> "slot_info", fx |-> m] :
                m \in {slot} \cup (IF slot = "" THEN {NoModule} ELSE {})}
Params == IF Reported = NoBuild THEN <<>>
          ELSE << [type |-> "param_update", build |-> Reported] >>

\* A subscription is answered with the slot and its parameters.
Answer ==
  /\ commands # <<>>
  /\ Head(commands).type = "subscribe"
  /\ commands' = Tail(commands)
  /\ \E info \in SlotInfos :
       inbox' \in {inbox \o <<info>> \o Params, inbox \o Params \o <<info>>}
  /\ UNCHANGED <<device, script, ran>>

\* The slot comes to hold a module: a fresh mapping of the file on disk, or
\* the inode that is mapped already.
Load(module) ==
  /\ slot' = module
  /\ \/ /\ mapped' = names["so"]
        /\ loadedAs' = content[names["so"]]
     \/ /\ mapped # 0
        /\ UNCHANGED <<mapped, loadedAs>>

\* A write of the module key: ignored, cleared, or loaded.
Obey ==
  /\ commands # <<>>
  /\ Head(commands).type = "module"
  /\ commands' = Tail(commands)
  /\ \/ UNCHANGED <<slot, mapped, loadedAs>>
     \/ /\ Head(commands).value = ""
        /\ slot' = ""
        /\ UNCHANGED <<mapped, loadedAs>>
     \/ Head(commands).value # "" /\ Load(Head(commands).value)
  /\ UNCHANGED <<content, names, inbox, script>>
  /\ Remember

\* A subscriber is told of its parameters again now and then.
Push ==
  /\ pc \in {"clear", "set", "again", "read"}
  /\ Len(inbox) < MaxInbox
  /\ Params # <<>>
  /\ inbox' = inbox \o Params
  /\ UNCHANGED <<device, commands, script, ran>>

\* Someone picks the effect in the slot by hand.
Pick ==
  /\ ~Prompt
  /\ pc \notin {"raised", "done"}
  /\ Load(Module)
  /\ UNCHANGED <<content, names, wire, script>>
  /\ Remember

Device == Answer \/ Obey \/ Push \/ Pick

-----------------------------------------------------------------------------

Init ==
  /\ content = <<"old", "part">>
  /\ names = [so |-> 1, new |-> 0]
  /\ \/ slot = Module /\ mapped = 1 /\ loadedAs = "old"
     \/ slot = "" /\ mapped = 0 /\ loadedAs = NoBuild
     \/ slot = "other" /\ mapped = 0 /\ loadedAs = NoBuild
  /\ commands = <<>>
  /\ inbox = <<>>
  /\ pc = "upload"
  /\ expect \in {"new", NoBuild}
  /\ loaded = NoModule
  /\ running = NoBuild
  /\ verdict = "none"
  /\ ran = {}

Next == Script \/ Device

\* The scripts run until they end; reading ends with time, whatever is read.
Spec == Init /\ [][Next]_vars /\ WF_vars(Script) /\ WF_vars(TimeOut)

-----------------------------------------------------------------------------
(* Properties. *)

TypeOK ==
  /\ content \in [1..2 -> {"old", "part", "new"}]
  /\ names["so"] \in 1..2 /\ names["new"] \in {0, 2}
  /\ slot \in {"", Module, "other"}
  /\ mapped \in 0..2
  /\ loadedAs \in {"old", "part", "new", NoBuild}
  /\ Len(inbox) <= MaxInbox + 4
  /\ pc \in {"upload", "swap", "loadtest", "connect", "failed"} \cup Connected
  /\ verdict \in {"none", "unreachable", "stale", "unproven", "running", "not running"}

\* "Never scp directly over a live .so": whatever the deployment does, and
\* wherever it breaks off, the pages the host has mapped hold the build it
\* mapped, and that build was whole.
MappedCodeIntact ==
  mapped # 0 => loadedAs # "part" /\ content[mapped] = loadedAs

\* A good verdict is never made up: when a build was expected, that very build
\* has been in the slot since the script connected, the module with it; and a
\* stale one names a build that was there.
VerdictWasTrue ==
  /\ verdict = "running" =>
       /\ \E r \in ran : r[1] = Module
       /\ expect # NoBuild => <<Module, expect>> \in ran
  /\ verdict = "stale" => \E b \in {"old", "new"} \ {expect} : <<Module, b>> \in ran

\* The scripts end: refused, broken off, or with a verdict.
ScriptsEnd == <>(pc \in {"failed", "raised", "done"})

\* "Ask the manager what is actually in the slot": a verdict is about the slot
\* as it stands after the reload.  The device is given the time the sleeps
\* allow for, and nobody touches the slot by hand.
VerdictIsCurrent ==
  verdict = "stale" => Reported # expect
=============================================================================
