--------------------------- MODULE BoardB02Proofs ---------------------------
(***************************************************************************)
(* Theorems about board B02, for any lamps, durations, messages, samples   *)
(* and horizons: the types, that nothing stays on for good, that the front *)
(* PIR is configured while it has power, and that the outputs follow the   *)
(* node.                                                                   *)
(***************************************************************************)
EXTENDS BoardB02, QueueProofs

-----------------------------------------------------------------------------
(* The node: every operation on it yields a node.                          *)

NodeType ==
  [mode : Modes, is_dark : BOOLEAN, start : [Kinds -> Nat], is_temperature_valid : BOOLEAN,
   send_msg_buffer : Seq(Reports)]

\* Forgetting start times that lie ahead.
LEMMA UpdateTimeType ==
  ASSUME NEW n \in NodeType, NEW time \in Nat
  PROVE  UpdateTime(n, time) \in NodeType
BY DEF UpdateTime, NodeType

\* A new start time.
LEMMA StartedType ==
  ASSUME NEW n \in NodeType, NEW time \in Nat, NEW kind \in Kinds
  PROVE  [n EXCEPT !.start[kind] = time] \in NodeType
BY DEF NodeType

\* A report is appended or dropped.
LEMMA ReportType ==
  ASSUME NEW n \in NodeType, NEW cmd \in Reports
  PROVE  Report(n, cmd) \in NodeType
<1>. DEFINE longer == Append(n.send_msg_buffer, cmd)
<1>1. longer \in Seq(Reports)
  BY AppendProperties DEF NodeType
<1>2. Report(n, cmd) \in {n, [n EXCEPT !.send_msg_buffer = longer]}
  BY DEF Report
<1>. HIDE DEF longer
<1>. QED  BY <1>1, <1>2 DEF NodeType

\* A movement at any of the PIRs.
LEMMA MovementType ==
  ASSUME NEW n \in NodeType, NEW time \in Nat
  PROVE  /\ ProcessDoorMovement(n, time) \in NodeType
         /\ ProcessFrontMovement(n, time) \in NodeType
         /\ ProcessVerandaMovement(n, time) \in NodeType
<1>. DEFINE now == UpdateTime(n, time)
            lit == [now EXCEPT !.start["light"] = time]
            shown == [now EXCEPT !.start["display"] = time]
            intruded == [now EXCEPT !.start["intrusion"] = time]
            intrusion == [intruded EXCEPT !.start["light"] = time]
<1>1. now \in NodeType
  BY UpdateTimeType
<1>. HIDE DEF now
<1>2. lit \in NodeType /\ shown \in NodeType /\ intruded \in NodeType
  BY <1>1, StartedType DEF Kinds
<1>3. StartIntrusion(now, time) = intrusion
  BY <1>1 DEF StartIntrusion, NodeType
<1>. HIDE DEF lit, shown, intruded
<1>4. intrusion \in NodeType
  BY <1>2, StartedType DEF Kinds
<1>. HIDE DEF intrusion
<1>5. "SET_INTRUSION" \in Reports /\ "SET_LIGHT" \in Reports
  BY DEF Reports
<1>6. MovementOnGuard(now, time) \in {now, Report(intrusion, "SET_INTRUSION")}
  BY <1>3 DEF MovementOnGuard
<1>7. ComeHome(now, time) \in {now, lit, Report(lit, "SET_LIGHT")}
  BY DEF ComeHome, lit
<1>8. MovementOnGuard(now, time) \in NodeType /\ ComeHome(now, time) \in NodeType
  BY <1>1, <1>2, <1>4, <1>5, <1>6, <1>7, ReportType
<1>9. ProcessDoorMovement(n, time) \in {now, MovementOnGuard(now, time), ComeHome(now, time)}
  BY DEF ProcessDoorMovement, now
<1>10. ProcessVerandaMovement(n, time) \in {now, MovementOnGuard(now, time), shown}
  BY DEF ProcessVerandaMovement, now, shown
<1>. QED  BY <1>1, <1>2, <1>8, <1>9, <1>10 DEF ProcessFrontMovement

\* A measurement of the temperature, and a judgement of the daylight.
LEMMA MeasurementType ==
  ASSUME NEW n \in NodeType, NEW sample \in BOOLEAN
  PROVE  ProcessTemperature(n, sample) \in NodeType /\ ProcessLuminosity(n, sample) \in NodeType
<1>. DEFINE measured == [n EXCEPT !.is_temperature_valid = sample]
<1>1. measured \in NodeType /\ ProcessLuminosity(n, sample) \in NodeType
  BY DEF NodeType, ProcessLuminosity
<1>2. ProcessTemperature(n, sample) \in {measured, Report(measured, "UPDATE_TEMPERATURE")}
  BY DEF ProcessTemperature
<1>. HIDE DEF measured
<1>. QED  BY <1>1, <1>2, ReportType DEF Reports

\* A message.
LEMMA MsgType ==
  ASSUME NEW n \in NodeType, NEW time \in Nat, NEW msg \in Received
  PROVE  ProcessMsg(n, msg, time) \in NodeType
<1>. DEFINE now == UpdateTime(n, time)
            moded == [now EXCEPT !.mode = msg.value, !.start = [k \in Kinds |-> 0]]
            lit(t) == [now EXCEPT !.start["light"] = t]
            intruded(t) == [now EXCEPT !.start["intrusion"] = t]
            intrusion == [intruded(time) EXCEPT !.start["light"] = time]
<1>1. now \in NodeType
  BY UpdateTimeType
<1>. HIDE DEF now
<1>2. \A t \in Nat : lit(t) \in NodeType /\ intruded(t) \in NodeType
  BY <1>1, StartedType DEF Kinds
<1>3. StartIntrusion(now, time) = intrusion
  BY <1>1 DEF StartIntrusion, NodeType
<1>4. msg.cmd = "SET_MODE" => moded \in NodeType
  BY <1>1, BoardB02Assumption DEF NodeType
<1>5. \/ Obey(now, msg, time) = moded /\ msg.cmd = "SET_MODE"
      \/ Obey(now, msg, time) \in {now, intrusion, intruded(0), lit(time), lit(0)}
  BY <1>3 DEF Obey
<1>. HIDE DEF lit, intruded
<1>6. intrusion \in NodeType
  BY <1>2, StartedType DEF Kinds
<1>. HIDE DEF intrusion, moded
<1>7. Obey(now, msg, time) \in NodeType
  BY <1>1, <1>2, <1>4, <1>5, <1>6
<1>. QED  BY <1>7 DEF ProcessMsg, now

\* A report that is handed out leaves the buffer, and changes nothing else.
LEMMA HandedOut ==
  ASSUME NEW n \in NodeType, n.send_msg_buffer # <<>>
  PROVE  GetMsg(n) \in NodeType
<1>. DEFINE rest == SubSeq(n.send_msg_buffer, 1, Len(n.send_msg_buffer) - 1)
<1>1. n.send_msg_buffer \in Seq(Reports) /\ Len(n.send_msg_buffer) \in Nat \ {0}
  BY EmptySeq, LenProperties DEF NodeType
<1>2. rest \in Seq(Reports)
  BY <1>1, SubSeqProperties
<1>3. GetMsg(n) = [n EXCEPT !.send_msg_buffer = rest]
  BY DEF GetMsg
<1>. HIDE DEF rest
<1>. QED  BY <1>2, <1>3 DEF NodeType

-----------------------------------------------------------------------------
(* Commands for the timers.                                                *)

Command == [timer : TimerNames, expiry : Nat]

\* A command names its timer; one that starts it has a time, one that stops it none.
LEMMA StartType ==
  ASSUME NEW timer \in TimerNames, NEW period \in Nat \ {0}, tick \in Nat
  PROVE  /\ Start(timer, period) \in Command /\ Start(timer, period).timer = timer
         /\ Start(timer, period).expiry # Off
         /\ Stop(timer) \in Command /\ Stop(timer).timer = timer /\ Stop(timer).expiry = Off
BY DEF Start, Stop, Command, Off

\* A timer that is started runs, one that is stopped does not, and the others
\* are not affected.
LEMMA CommandSent ==
  ASSUME NEW cmds \in Seq(Command), NEW c \in Command
  PROVE  /\ Append(cmds, c) \in Seq(Command)
         /\ RunsAfter(Append(cmds, c), timers, c.timer) <=> c.expiry # Off
         /\ \A timer \in TimerNames \ {c.timer} :
              RunsAfter(Append(cmds, c), timers, timer) <=> RunsAfter(cmds, timers, timer)
BY SentRuns, SentToOther, AppendProperties

\* A finite set as a list: its elements, all of them.
LEMMA ListOfSet ==
  ASSUME NEW S, IsFiniteSet(S)
  PROVE  /\ SetToSeq(S) \in Seq(S)
         /\ \A x \in S : \E i \in DOMAIN SetToSeq(S) : SetToSeq(S)[i] = x
<1>. DEFINE n == Cardinality(S)
            places == 1..n
<1>1. n \in Nat /\ ExistsBijection(places, S)
  BY FS_CardinalityType
<1>2. \E f \in [places -> S] : IsInjective(f)
  BY <1>1 DEF ExistsBijection, Bijection, Injection
<1>3. SetToSeq(S) \in [places -> S] /\ IsInjective(SetToSeq(S))
  BY <1>2 DEF SetToSeq
<1>. DEFINE list == SetToSeq(S)
<1>. HIDE DEF list
<1>4. list \in Injection(places, S) /\ IsFiniteSet(places) /\ Cardinality(places) = n
  BY <1>1, <1>3, IntervalCardinality DEF Injection, list
<1>. HIDE DEF places
<1>5. list \in Surjection(places, S)
  BY <1>4, FS_Injection
<1>. QED  BY <1>1, <1>3, <1>5 DEF Surjection, places, list

\* The commands for some of the lamps, as a list, start or stop each of them and
\* no other timer.
LEMMA LampsSent ==
  ASSUME NEW cmds \in Seq(Command), NEW f \in [Lamps -> Command], \A x \in Lamps : f[x].timer = x,
         NEW S \in SUBSET Lamps, NEW these, these = {f[x] : x \in S}
  PROVE  LET list == SetToSeq(these) sent == cmds \o list IN
         /\ sent \in Seq(Command) /\ list \in Seq(Command)
         /\ \A timer \in TimerNames \ S : RunsAfter(sent, timers, timer) <=> RunsAfter(cmds, timers, timer)
         /\ (\A x \in S : f[x].expiry # Off) => \A x \in S : RunsAfter(sent, timers, x)
<1>. DEFINE list == SetToSeq(these)
            g == [x \in S |-> f[x]]
<1>1. IsFiniteSet(S)
  BY FS_Subset, LampAssumption
<1>2. g \in Surjection(S, these)
  BY DEF Surjection
<1>3. IsFiniteSet(these)
  <2>. HIDE DEF g
  <2>. QED  BY <1>1, <1>2, FS_Surjection
<1>4. these \subseteq Command /\ (\A x \in S : f[x] \in these) /\ \A c \in these : c.timer \in S
  OBVIOUS
<1>5. list \in Seq(these) /\ \A c \in these : \E i \in DOMAIN list : list[i] = c
  BY <1>3, ListOfSet
<1>6. (\A x \in S : f[x].expiry # Off) => \A c \in these : c.expiry # Off
  OBVIOUS
<1>. HIDE DEF list
<1>7. list \in Seq(Command) /\ \A i \in DOMAIN list : list[i] \in these
  BY <1>4, <1>5
<1>8. cmds \o list \in Seq(Command)
  BY <1>7, ConcatProperties
<1>9. ASSUME NEW timer \in TimerNames \ S
      PROVE  RunsAfter(cmds \o list, timers, timer) <=> RunsAfter(cmds, timers, timer)
  <2>1. \A i \in DOMAIN list : list[i].timer # timer
    BY <1>4, <1>7
  <2>. QED  BY <1>7, <2>1, ConcatOther
<1>10. ASSUME \A x \in S : f[x].expiry # Off, NEW x \in S
       PROVE  RunsAfter(cmds \o list, timers, x)
  <2>1. PICK i \in DOMAIN list : list[i] = f[x]
    BY <1>4, <1>5
  <2>2. list[i].timer = x
    BY <2>1
  <2>3. \A k \in DOMAIN list : list[k].timer = x => list[k].expiry # Off
    BY <1>6, <1>7, <1>10
  <2>. QED  BY <1>7, <2>2, <2>3, ConcatStarts
<1>. QED  BY <1>7, <1>8, <1>9, <1>10 DEF list

-----------------------------------------------------------------------------
(* The lights: what the bits of a round make of them.                      *)

Stages == {"ENABLE_POWER", "DRAW_DATA", "DISABLE_POWER"}

LightsRecord ==
  [lamp : [Lamps -> BOOLEAN], blocked : BOOLEAN, display : BOOLEAN, stage : Stages, counter : Nat,
   is_green : BOOLEAN, green : BOOLEAN, blue : BOOLEAN, is_red : BOOLEAN, is_even : BOOLEAN,
   red : BOOLEAN]

\* In a round, the lights together with the commands sent so far.
LightsType ==
  [lamp : [Lamps -> BOOLEAN], blocked : BOOLEAN, display : BOOLEAN, stage : Stages, counter : Nat,
   is_green : BOOLEAN, green : BOOLEAN, blue : BOOLEAN, is_red : BOOLEAN, is_even : BOOLEAN,
   red : BOOLEAN, cmds : Seq(Command)]

\* Whether a timer runs, once the commands sent so far are executed.
Runs(l, timer) == RunsAfter(l.cmds, timers, timer)

\* What a round begins with.
LEMMA LightsBegin ==
  ASSUME lights \in LightsRecord, commands \in Seq(Command)
  PROVE  /\ Lights \in LightsType /\ Lights.cmds = commands
         /\ Lights.lamp = lights.lamp /\ Lights.blocked = lights.blocked /\ Lights.display = lights.display
         /\ Lights.green = lights.green /\ Lights.blue = lights.blue
         /\ Lights.is_red = lights.is_red /\ Lights.red = lights.red
BY DEF Lights, LightsRecord, LightsType

\* What a round keeps.
LEMMA LightsEnd ==
  ASSUME lights \in LightsRecord, NEW l \in LightsType, NEW after, after = [x \in DOMAIN lights |-> l[x]]
  PROVE  /\ after \in LightsRecord
         /\ after.lamp = l.lamp /\ after.blocked = l.blocked /\ after.display = l.display
         /\ after.green = l.green /\ after.blue = l.blue
         /\ after.is_red = l.is_red /\ after.red = l.red
BY DEF LightsRecord, LightsType

\* A block switches everything off but the buzzer and stops what would have done so.
LEMMA BlockEffect ==
  ASSUME NEW l \in LightsType, tick \in Nat
  PROVE  LET b == Block(l) IN
         /\ b \in LightsType
         /\ b = l \/ /\ "LIGHTNING_BLOCK" \in bits /\ b.blocked
                     /\ \A x \in Lamps : ~b.lamp[x]
                     /\ ~b.green /\ ~b.blue /\ ~b.is_red /\ ~b.red /\ ~b.display
         /\ \A timer \in {"block", "buzzer", "front_pir"} : Runs(b, timer) <=> Runs(l, timer)
<1>. DEFINE f == [x \in Lamps |-> Stop(x)]
            stops == {Stop(x) : x \in Lamps}
            list == SetToSeq(stops)
            s0 == l.cmds \o list
            s1 == Append(s0, Stop("strip"))
            s2 == Append(s1, Stop("red"))
            s3 == Append(s2, Stop("display"))
            dark == [x \in Lamps |-> FALSE]
            off == [l EXCEPT !.blocked = TRUE, !.lamp = dark, !.counter = 0, !.green = FALSE,
                             !.blue = FALSE, !.is_red = FALSE, !.red = FALSE, !.display = FALSE,
                             !.cmds = s3]
<1>1. l.cmds \in Seq(Command)
  BY DEF LightsType
<1>2. /\ Stop("strip") \in Command /\ Stop("red") \in Command /\ Stop("display") \in Command
      /\ Stop("strip").timer = "strip" /\ Stop("red").timer = "red"
      /\ Stop("display").timer = "display" /\ {"block", "buzzer", "front_pir"} \subseteq TimerNames \ Lamps
  BY LampAssumption DEF TimerNames, OtherTimers, Stop, Command, Off
<1>3. f \in [Lamps -> Command] /\ \A x \in Lamps : f[x].timer = x
  BY DEF Stop, Command, TimerNames, Off
<1>4. stops = {f[x] : x \in Lamps}
  OBVIOUS
<1>. HIDE DEF f, stops
<1>5. /\ s0 \in Seq(Command) /\ list \in Seq(Command)
      /\ \A timer \in {"block", "buzzer", "front_pir"} :
           RunsAfter(s0, timers, timer) <=> RunsAfter(l.cmds, timers, timer)
  BY <1>1, <1>2, <1>3, <1>4, LampsSent
<1>7. s0 = l.cmds \o list
  OBVIOUS
<1>. HIDE DEF s0, list
<1>8. /\ s1 \in Seq(Command)
      /\ \A timer \in {"block", "buzzer", "front_pir"} :
           RunsAfter(s1, timers, timer) <=> RunsAfter(s0, timers, timer)
  BY <1>2, <1>5, CommandSent
<1>9. s1 = s0 \o <<Stop("strip")>>
  BY <1>2, <1>5
<1>. HIDE DEF s1
<1>10. /\ s2 \in Seq(Command)
       /\ \A timer \in {"block", "buzzer", "front_pir"} :
            RunsAfter(s2, timers, timer) <=> RunsAfter(s1, timers, timer)
  BY <1>2, <1>8, CommandSent
<1>11. s2 = s0 \o <<Stop("strip"), Stop("red")>>
  BY <1>2, <1>5, <1>9
<1>. HIDE DEF s2
<1>12. /\ s3 \in Seq(Command)
       /\ \A timer \in {"block", "buzzer", "front_pir"} :
            RunsAfter(s3, timers, timer) <=> RunsAfter(s2, timers, timer)
  BY <1>2, <1>10, CommandSent
<1>13. s3 = s0 \o <<Stop("strip"), Stop("red"), Stop("display")>>
  BY <1>2, <1>5, <1>11
<1>. HIDE DEF s3
<1>14. Block(l) \in {l, off} /\ (Block(l) = l \/ "LIGHTNING_BLOCK" \in bits)
  BY <1>7, <1>13 DEF Block, list, stops
<1>. HIDE DEF dark
<1>15. dark \in [Lamps -> BOOLEAN] /\ \A x \in Lamps : ~dark[x]
  BY DEF dark
<1>16. /\ off \in LightsType /\ off.cmds = s3 /\ off.blocked /\ off.lamp = dark
       /\ ~off.green /\ ~off.blue /\ ~off.is_red /\ ~off.red /\ ~off.display
  BY <1>12, <1>15 DEF LightsType
<1>. HIDE DEF off
<1>17. \A timer \in {"block", "buzzer", "front_pir"} : Runs(off, timer) <=> Runs(l, timer)
  BY <1>5, <1>8, <1>10, <1>12, <1>16 DEF Runs
<1>. QED  BY <1>14, <1>15, <1>16, <1>17

\* The end of a block changes the flag and nothing else.
LEMMA UnblockEffect ==
  ASSUME NEW l \in LightsType
  PROVE  LET u == Unblock(l) IN
         /\ u \in LightsType
         /\ u.lamp = l.lamp /\ u.display = l.display /\ u.green = l.green /\ u.blue = l.blue
         /\ u.is_red = l.is_red /\ u.red = l.red /\ u.cmds = l.cmds
         /\ u.blocked => l.blocked /\ "LIGHTNING_UNBLOCK" \notin bits
BY DEF Unblock, LightsType

\* A lamp that is on after its bit was handled has its timer started, or the bit
\* did not come.
LEMMA ToggleEffect ==
  ASSUME NEW l \in LightsType, tick \in Nat
  PROVE  LET r == ToggleLamps(l) IN
         /\ r \in LightsType
         /\ r.blocked = l.blocked /\ r.display = l.display /\ r.green = l.green /\ r.blue = l.blue
         /\ r.is_red = l.is_red /\ r.red = l.red
         /\ \A timer \in OtherTimers : Runs(r, timer) <=> Runs(l, timer)
         /\ \A x \in Lamps : r.lamp[x] =>
              \/ Runs(r, x)
              \/ l.lamp[x] /\ x \notin bits /\ (Runs(r, x) <=> Runs(l, x))
<1>. DEFINE toggled == Lamps \cap bits
            lit == {x \in toggled : ~l.lamp[x]}
            lamp == [x \in Lamps |-> l.lamp[x] # (x \in toggled)]
            f == [x \in Lamps |-> Start(x, Duration["light"])]
            starts == {Start(x, Duration["light"]) : x \in lit}
            longer == l.cmds \o SetToSeq(starts)
            r == [l EXCEPT !.lamp = lamp, !.cmds = longer]
<1>1. l.cmds \in Seq(Command) /\ l.lamp \in [Lamps -> BOOLEAN]
  BY DEF LightsType
<1>2. Duration["light"] \in Nat \ {0}
  BY NodeB02Assumption DEF Kinds
<1>3. \A x \in Lamps : /\ Start(x, Duration["light"]) \in Command
                       /\ Start(x, Duration["light"]).timer = x
                       /\ Start(x, Duration["light"]).expiry # Off
  BY <1>2, StartType DEF TimerNames
<1>4. f \in [Lamps -> Command] /\ \A x \in Lamps : f[x].timer = x /\ f[x].expiry # Off
  BY <1>3
<1>5. starts = {f[x] : x \in lit}
  OBVIOUS
<1>6. lit \in SUBSET Lamps
  OBVIOUS
<1>7. r = ToggleLamps(l)
  BY DEF ToggleLamps
<1>8. ASSUME NEW x \in Lamps, lamp[x] PROVE x \in lit \/ (l.lamp[x] /\ x \notin bits)
  <2>1. l.lamp[x] # (x \in toggled) /\ l.lamp[x] \in BOOLEAN
    BY <1>1, <1>8
  <2>2. CASE x \in toggled
    BY <2>1, <2>2
  <2>3. CASE x \notin toggled
    <3>1. l.lamp[x]
      BY <2>1, <2>3
    <3>. QED  BY <2>3, <3>1
  <2>. QED  BY <2>2, <2>3
<1>9. lamp \in [Lamps -> BOOLEAN]
  OBVIOUS
<1>. HIDE DEF f, lit, lamp, starts
<1>10. /\ longer \in Seq(Command)
       /\ \A timer \in TimerNames \ lit :
            RunsAfter(longer, timers, timer) <=> RunsAfter(l.cmds, timers, timer)
       /\ \A x \in lit : RunsAfter(longer, timers, x)
  <2>1. \A x \in lit : f[x].expiry # Off
    BY <1>4, <1>6
  <2>2. \A x \in Lamps : f[x].timer = x
    BY <1>4
  <2>3. f \in [Lamps -> Command] /\ l.cmds \in Seq(Command)
    BY <1>1, <1>4
  <2>4. /\ longer \in Seq(Command)
        /\ \A timer \in TimerNames \ lit :
             RunsAfter(longer, timers, timer) <=> RunsAfter(l.cmds, timers, timer)
        /\ (\A x \in lit : f[x].expiry # Off) => \A x \in lit : RunsAfter(longer, timers, x)
    BY <1>5, <1>6, <2>2, <2>3, LampsSent
  <2>. QED  BY <2>1, <2>4
<1>. HIDE DEF longer
<1>11. /\ r \in LightsType /\ r.lamp = lamp /\ r.cmds = longer
       /\ r.blocked = l.blocked /\ r.display = l.display /\ r.green = l.green /\ r.blue = l.blue
       /\ r.is_red = l.is_red /\ r.red = l.red
  BY <1>9, <1>10 DEF LightsType
<1>. HIDE DEF r
<1>12. \A timer \in OtherTimers : timer \in TimerNames \ lit
  BY <1>6, LampAssumption DEF TimerNames
<1>13. \A x \in Lamps : x \in lit \/ x \in TimerNames \ lit
  BY DEF TimerNames
<1>14. \A timer \in OtherTimers : Runs(r, timer) <=> Runs(l, timer)
  BY <1>10, <1>11, <1>12 DEF Runs
<1>15. \A x \in Lamps : r.lamp[x] =>
         \/ Runs(r, x)
         \/ l.lamp[x] /\ x \notin bits /\ (Runs(r, x) <=> Runs(l, x))
  BY <1>8, <1>10, <1>11, <1>13 DEF Runs
<1>. QED  BY <1>7, <1>11, <1>14, <1>15

\* A command for a timer that is no lamp's leaves the others as they were.
LEMMA SendEffect ==
  ASSUME NEW l \in LightsType, NEW timer \in OtherTimers, NEW period \in Nat \ {0}, tick \in Nat
  PROVE  LET r == Send(l, Start(timer, period)) IN
         /\ r \in LightsType /\ Runs(r, timer)
         /\ \A other \in TimerNames \ {timer} : Runs(r, other) <=> Runs(l, other)
         /\ r.lamp = l.lamp /\ r.blocked = l.blocked /\ r.display = l.display
         /\ r.green = l.green /\ r.blue = l.blue /\ r.is_red = l.is_red /\ r.red = l.red
<1>. DEFINE c == Start(timer, period)
            longer == Append(l.cmds, c)
            r == [l EXCEPT !.cmds = longer]
<1>1. l.cmds \in Seq(Command) /\ timer \in TimerNames
  BY DEF LightsType, TimerNames
<1>2. c \in Command /\ c.timer = timer /\ c.expiry # Off
  BY <1>1, StartType
<1>3. r = Send(l, c)
  BY DEF Send
<1>. HIDE DEF c
<1>4. /\ longer \in Seq(Command) /\ RunsAfter(longer, timers, timer)
      /\ \A other \in TimerNames \ {timer} :
           RunsAfter(longer, timers, other) <=> RunsAfter(l.cmds, timers, other)
  BY <1>1, <1>2, CommandSent
<1>. HIDE DEF longer
<1>5. /\ r \in LightsType /\ r.cmds = longer
      /\ r.lamp = l.lamp /\ r.blocked = l.blocked /\ r.display = l.display
      /\ r.green = l.green /\ r.blue = l.blue /\ r.is_red = l.is_red /\ r.red = l.red
  BY <1>4 DEF LightsType
<1>. HIDE DEF r
<1>. QED  BY <1>3, <1>4, <1>5 DEF Runs, c

\* The strip is dark, or its timer is started, or its bit did not come.
LEMMA StripEffect ==
  ASSUME NEW l \in LightsType, tick \in Nat
  PROVE  LET r == StepStrip(l) IN
         /\ r \in LightsType
         /\ r.lamp = l.lamp /\ r.blocked = l.blocked /\ r.display = l.display
         /\ r.is_red = l.is_red /\ r.red = l.red
         /\ \A timer \in TimerNames \ {"strip"} : Runs(r, timer) <=> Runs(l, timer)
         /\ r.green \/ r.blue => Runs(r, "strip") \/ (r = l /\ "LIGHT_STRIP_GREEN_BLUE" \notin bits)
<1>. DEFINE more == l.counter + 1
            other == ~l.is_green
            counted == [l EXCEPT !.counter = more]
            next == Send(counted, Start("strip", StripMs))
            dark == [l EXCEPT !.counter = 0, !.green = FALSE, !.blue = FALSE]
            lit == [next EXCEPT !.is_green = other, !.green = other, !.blue = l.is_green]
<1>1. more \in Nat /\ other \in BOOLEAN /\ l.is_green \in BOOLEAN
  BY DEF LightsType
<1>. HIDE DEF more, other
<1>2. /\ counted \in LightsType /\ counted.cmds = l.cmds /\ counted.is_green = l.is_green
      /\ counted.lamp = l.lamp /\ counted.blocked = l.blocked /\ counted.display = l.display
      /\ counted.is_red = l.is_red /\ counted.red = l.red
  BY <1>1 DEF LightsType
<1>3. "strip" \in OtherTimers /\ StripMs \in Nat \ {0}
  BY BoardB02Assumption DEF OtherTimers
<1>4. counted = [l EXCEPT !.counter = @ + 1]
  BY DEF more
<1>. HIDE DEF counted
<1>5. /\ next \in LightsType /\ Runs(next, "strip")
      /\ \A timer \in TimerNames \ {"strip"} : Runs(next, timer) <=> Runs(counted, timer)
      /\ next.lamp = l.lamp /\ next.blocked = l.blocked /\ next.display = l.display
      /\ next.is_red = l.is_red /\ next.red = l.red
  BY <1>2, <1>3, SendEffect
<1>6. next.is_green = l.is_green
  BY <1>2 DEF Send, LightsType
<1>. DEFINE coloured == [next EXCEPT !.is_green = ~@, !.green = ~l.is_green, !.blue = l.is_green]
<1>7. \/ StepStrip(l) = l /\ "LIGHT_STRIP_GREEN_BLUE" \notin bits
      \/ StepStrip(l) \in {dark, next, coloured}
  BY <1>4 DEF StepStrip
<1>. HIDE DEF next
<1>8. coloured = lit
  BY <1>6 DEF other
<1>. HIDE DEF coloured
<1>9. /\ dark \in LightsType /\ dark.cmds = l.cmds /\ ~dark.green /\ ~dark.blue
      /\ dark.lamp = l.lamp /\ dark.blocked = l.blocked /\ dark.display = l.display
      /\ dark.is_red = l.is_red /\ dark.red = l.red
  BY DEF LightsType
<1>10. /\ lit \in LightsType /\ lit.cmds = next.cmds
       /\ lit.lamp = next.lamp /\ lit.blocked = next.blocked /\ lit.display = next.display
       /\ lit.is_red = next.is_red /\ lit.red = next.red
  BY <1>1, <1>5 DEF LightsType
<1>. HIDE DEF dark, lit
<1>11. /\ \A timer : Runs(counted, timer) = Runs(l, timer)
       /\ \A timer : Runs(dark, timer) = Runs(l, timer)
       /\ \A timer : Runs(lit, timer) = Runs(next, timer)
  BY <1>2, <1>9, <1>10 DEF Runs
<1>. QED  BY <1>5, <1>7, <1>8, <1>9, <1>10, <1>11

\* The red strip is dark and not wanted, or its timer is started, or its bit did
\* not come.
LEMMA RedEffect ==
  ASSUME NEW l \in LightsType, tick \in Nat
  PROVE  LET r == BlinkRed(l) IN
         /\ r \in LightsType
         /\ r.lamp = l.lamp /\ r.blocked = l.blocked /\ r.display = l.display
         /\ r.green = l.green /\ r.blue = l.blue
         /\ \A timer \in TimerNames \ {"red"} : Runs(r, timer) <=> Runs(l, timer)
         /\ r.red \/ r.is_red => Runs(r, "red") \/ (r = l /\ "LIGHT_STRIP_RED" \notin bits)
<1>. DEFINE period == IF l.is_even THEN RedOnMs ELSE RedOffMs
            blink == [l EXCEPT !.red = l.is_even, !.is_even = ~@]
            next == Send(blink, Start("red", period))
            dark == [l EXCEPT !.red = FALSE]
<1>1. l.is_even \in BOOLEAN
  BY DEF LightsType
<1>2. /\ blink \in LightsType /\ blink.cmds = l.cmds
      /\ blink.lamp = l.lamp /\ blink.blocked = l.blocked /\ blink.display = l.display
      /\ blink.green = l.green /\ blink.blue = l.blue
  BY <1>1 DEF LightsType
<1>3. "red" \in OtherTimers /\ period \in Nat \ {0}
  BY BoardB02Assumption DEF OtherTimers
<1>4. \/ BlinkRed(l) = l /\ "LIGHT_STRIP_RED" \notin bits
      \/ BlinkRed(l) = dark /\ ~l.is_red
      \/ BlinkRed(l) = next
  BY DEF BlinkRed
<1>. HIDE DEF blink, period
<1>5. /\ next \in LightsType /\ Runs(next, "red")
      /\ \A timer \in TimerNames \ {"red"} : Runs(next, timer) <=> Runs(blink, timer)
      /\ next.lamp = l.lamp /\ next.blocked = l.blocked /\ next.display = l.display
      /\ next.green = l.green /\ next.blue = l.blue
  BY <1>2, <1>3, SendEffect
<1>6. /\ dark \in LightsType /\ dark.cmds = l.cmds /\ ~dark.red /\ dark.is_red = l.is_red
      /\ dark.lamp = l.lamp /\ dark.blocked = l.blocked /\ dark.display = l.display
      /\ dark.green = l.green /\ dark.blue = l.blue
  BY DEF LightsType
<1>. HIDE DEF next, dark
<1>7. /\ \A timer : Runs(blink, timer) = Runs(l, timer)
      /\ \A timer : Runs(dark, timer) = Runs(l, timer)
  BY <1>2, <1>6 DEF Runs
<1>. QED  BY <1>4, <1>5, <1>6, <1>7

\* The display is off, or its timer is started, or its bit did not come.
LEMMA DrawEffect ==
  ASSUME NEW l \in LightsType, tick \in Nat
  PROVE  LET r == DrawDisplay(l) IN
         /\ r \in LightsType
         /\ r.lamp = l.lamp /\ r.blocked = l.blocked /\ r.green = l.green /\ r.blue = l.blue
         /\ r.is_red = l.is_red /\ r.red = l.red
         /\ \A timer \in TimerNames \ {"display"} : Runs(r, timer) <=> Runs(l, timer)
         /\ r.display => Runs(r, "display") \/ (r = l /\ "DISPLAY" \notin bits)
<1>. DEFINE boot == [l EXCEPT !.stage = "DRAW_DATA", !.display = TRUE]
            show == [l EXCEPT !.stage = "DISABLE_POWER"]
            off == [l EXCEPT !.stage = "ENABLE_POWER", !.display = FALSE]
            booting == Send(boot, Start("display", DisplayBootMs))
            showing == Send(show, Start("display", Duration["display"]))
<1>1. /\ boot \in LightsType /\ boot.cmds = l.cmds
      /\ boot.lamp = l.lamp /\ boot.blocked = l.blocked /\ boot.green = l.green /\ boot.blue = l.blue
      /\ boot.is_red = l.is_red /\ boot.red = l.red
  BY DEF LightsType, Stages
<1>2. /\ show \in LightsType /\ show.cmds = l.cmds
      /\ show.lamp = l.lamp /\ show.blocked = l.blocked /\ show.green = l.green /\ show.blue = l.blue
      /\ show.is_red = l.is_red /\ show.red = l.red
  BY DEF LightsType, Stages
<1>3. /\ off \in LightsType /\ off.cmds = l.cmds /\ ~off.display
      /\ off.lamp = l.lamp /\ off.blocked = l.blocked /\ off.green = l.green /\ off.blue = l.blue
      /\ off.is_red = l.is_red /\ off.red = l.red
  BY DEF LightsType, Stages
<1>4. /\ "display" \in OtherTimers /\ DisplayBootMs \in Nat \ {0}
      /\ Duration["display"] \in Nat \ {0}
  BY BoardB02Assumption, NodeB02Assumption DEF OtherTimers, Kinds
<1>5. \/ DrawDisplay(l) = l /\ "DISPLAY" \notin bits
      \/ DrawDisplay(l) \in {booting, showing, off}
  BY DEF DrawDisplay, LightsType, Stages
<1>. HIDE DEF boot, show, off
<1>6. /\ booting \in LightsType /\ Runs(booting, "display")
      /\ \A timer \in TimerNames \ {"display"} : Runs(booting, timer) <=> Runs(boot, timer)
      /\ booting.lamp = l.lamp /\ booting.blocked = l.blocked /\ booting.green = l.green
      /\ booting.blue = l.blue /\ booting.is_red = l.is_red /\ booting.red = l.red
  BY <1>1, <1>4, SendEffect
<1>7. /\ showing \in LightsType /\ Runs(showing, "display")
      /\ \A timer \in TimerNames \ {"display"} : Runs(showing, timer) <=> Runs(show, timer)
      /\ showing.lamp = l.lamp /\ showing.blocked = l.blocked /\ showing.green = l.green
      /\ showing.blue = l.blue /\ showing.is_red = l.is_red /\ showing.red = l.red
  BY <1>2, <1>4, SendEffect
<1>. HIDE DEF booting, showing
<1>8. /\ \A timer : Runs(boot, timer) = Runs(l, timer)
      /\ \A timer : Runs(show, timer) = Runs(l, timer)
      /\ \A timer : Runs(off, timer) = Runs(l, timer)
  BY <1>1, <1>2, <1>3 DEF Runs
<1>. QED  BY <1>3, <1>5, <1>6, <1>7, <1>8

\* All of it, in the order of the code: what is on afterwards has its timer
\* running, or was on before and its bit did not come.
LEMMA LightsEffect ==
  ASSUME Lights \in LightsType, tick \in Nat
  PROVE  LET r == LightsAfterBits IN
         /\ r \in LightsType
         /\ \A x \in Lamps : r.lamp[x] => Runs(r, x) \/
              (Lights.lamp[x] /\ x \notin bits /\ (Runs(Lights, x) <=> Runs(r, x)))
         /\ r.green \/ r.blue => Runs(r, "strip") \/
              /\ Lights.green \/ Lights.blue
              /\ "LIGHT_STRIP_GREEN_BLUE" \notin bits /\ (Runs(Lights, "strip") <=> Runs(r, "strip"))
         /\ r.red \/ r.is_red => Runs(r, "red") \/
              /\ Lights.red \/ Lights.is_red
              /\ "LIGHT_STRIP_RED" \notin bits /\ (Runs(Lights, "red") <=> Runs(r, "red"))
         /\ r.display => Runs(r, "display") \/
              (Lights.display /\ "DISPLAY" \notin bits /\ (Runs(Lights, "display") <=> Runs(r, "display")))
         /\ r.blocked => /\ "LIGHTNING_UNBLOCK" \notin bits
                         /\ Lights.blocked \/ "LIGHTNING_BLOCK" \in bits
         /\ \A timer \in {"block", "buzzer", "front_pir"} : Runs(r, timer) <=> Runs(Lights, timer)
<1>. DEFINE l1 == Block(Lights)
            l2 == Unblock(l1)
            l3 == ToggleLamps(l2)
            l4 == StepStrip(l3)
            l5 == BlinkRed(l4)
            l6 == DrawDisplay(l5)
<1>0. /\ {"strip", "red", "display", "block", "buzzer", "front_pir"} \subseteq OtherTimers
      /\ OtherTimers \subseteq TimerNames
      /\ Lamps \subseteq TimerNames \ {"strip", "red", "display"}
  BY LampAssumption DEF TimerNames, OtherTimers
<1>1. /\ l1 \in LightsType
      /\ l1 = Lights \/ /\ "LIGHTNING_BLOCK" \in bits /\ l1.blocked
                        /\ \A x \in Lamps : ~l1.lamp[x]
                        /\ ~l1.green /\ ~l1.blue /\ ~l1.is_red /\ ~l1.red /\ ~l1.display
      /\ \A timer \in {"block", "buzzer", "front_pir"} : Runs(l1, timer) <=> Runs(Lights, timer)
  BY BlockEffect
<1>. HIDE DEF l1
<1>2. /\ l2 \in LightsType
      /\ l2.lamp = l1.lamp /\ l2.display = l1.display /\ l2.green = l1.green /\ l2.blue = l1.blue
      /\ l2.is_red = l1.is_red /\ l2.red = l1.red
      /\ \A timer \in TimerNames : Runs(l2, timer) <=> Runs(l1, timer)
      /\ l2.blocked => l1.blocked /\ "LIGHTNING_UNBLOCK" \notin bits
  BY <1>1, UnblockEffect DEF Runs
<1>. HIDE DEF l2
<1>3. /\ l3 \in LightsType
      /\ l3.blocked = l2.blocked /\ l3.display = l2.display /\ l3.green = l2.green /\ l3.blue = l2.blue
      /\ l3.is_red = l2.is_red /\ l3.red = l2.red
      /\ \A timer \in OtherTimers : Runs(l3, timer) <=> Runs(l2, timer)
      /\ \A x \in Lamps : l3.lamp[x] =>
           \/ Runs(l3, x)
           \/ l2.lamp[x] /\ x \notin bits /\ (Runs(l3, x) <=> Runs(l2, x))
  BY <1>2, ToggleEffect
<1>. HIDE DEF l3
<1>4. /\ l4 \in LightsType
      /\ l4.lamp = l3.lamp /\ l4.blocked = l3.blocked /\ l4.display = l3.display
      /\ l4.is_red = l3.is_red /\ l4.red = l3.red
      /\ \A timer \in TimerNames \ {"strip"} : Runs(l4, timer) <=> Runs(l3, timer)
      /\ l4.green \/ l4.blue => Runs(l4, "strip") \/ (l4 = l3 /\ "LIGHT_STRIP_GREEN_BLUE" \notin bits)
  BY <1>3, StripEffect
<1>. HIDE DEF l4
<1>5. /\ l5 \in LightsType
      /\ l5.lamp = l4.lamp /\ l5.blocked = l4.blocked /\ l5.display = l4.display
      /\ l5.green = l4.green /\ l5.blue = l4.blue
      /\ \A timer \in TimerNames \ {"red"} : Runs(l5, timer) <=> Runs(l4, timer)
      /\ l5.red \/ l5.is_red => Runs(l5, "red") \/ (l5 = l4 /\ "LIGHT_STRIP_RED" \notin bits)
  BY <1>4, RedEffect
<1>. HIDE DEF l5
<1>6. /\ l6 \in LightsType
      /\ l6.lamp = l5.lamp /\ l6.blocked = l5.blocked /\ l6.green = l5.green /\ l6.blue = l5.blue
      /\ l6.is_red = l5.is_red /\ l6.red = l5.red
      /\ \A timer \in TimerNames \ {"display"} : Runs(l6, timer) <=> Runs(l5, timer)
      /\ l6.display => Runs(l6, "display") \/ (l6 = l5 /\ "DISPLAY" \notin bits)
  BY <1>5, DrawEffect
<1>7. l6 = LightsAfterBits
  BY DEF LightsAfterBits, l1, l2, l3, l4, l5
<1>. HIDE DEF l6
<1>8. ASSUME NEW x \in Lamps, l6.lamp[x]
      PROVE  Runs(l6, x) \/ (Lights.lamp[x] /\ x \notin bits /\ (Runs(Lights, x) <=> Runs(l6, x)))
  <2>1. /\ Runs(l6, x) <=> Runs(l5, x)
        /\ Runs(l5, x) <=> Runs(l4, x)
        /\ Runs(l4, x) <=> Runs(l3, x)
        /\ Runs(l2, x) <=> Runs(l1, x)
    BY <1>0, <1>2, <1>4, <1>5, <1>6
  <2>2. l3.lamp[x]
    BY <1>4, <1>5, <1>6, <1>8
  <2>3. Runs(l3, x) \/ (l2.lamp[x] /\ x \notin bits /\ (Runs(l3, x) <=> Runs(l2, x)))
    BY <1>3, <2>2
  <2>4. l2.lamp[x] => l1 = Lights
    BY <1>1, <1>2
  <2>5. l2.lamp[x] => l1.lamp[x]
    BY <1>2
  <2>. QED  BY <2>1, <2>3, <2>4, <2>5
<1>9. l6.green \/ l6.blue => Runs(l6, "strip") \/
        /\ Lights.green \/ Lights.blue
        /\ "LIGHT_STRIP_GREEN_BLUE" \notin bits /\ (Runs(Lights, "strip") <=> Runs(l6, "strip"))
  BY <1>0, <1>1, <1>2, <1>3, <1>4, <1>5, <1>6
<1>10. l6.red \/ l6.is_red => Runs(l6, "red") \/
         /\ Lights.red \/ Lights.is_red
         /\ "LIGHT_STRIP_RED" \notin bits /\ (Runs(Lights, "red") <=> Runs(l6, "red"))
  BY <1>0, <1>1, <1>2, <1>3, <1>4, <1>5, <1>6
<1>11. l6.display => Runs(l6, "display") \/
         (Lights.display /\ "DISPLAY" \notin bits /\ (Runs(Lights, "display") <=> Runs(l6, "display")))
  BY <1>0, <1>1, <1>2, <1>3, <1>4, <1>5, <1>6
<1>12. l6.blocked => /\ "LIGHTNING_UNBLOCK" \notin bits
                     /\ Lights.blocked \/ "LIGHTNING_BLOCK" \in bits
  BY <1>1, <1>2, <1>3, <1>4, <1>5, <1>6
<1>13. \A timer \in {"block", "buzzer", "front_pir"} : Runs(l6, timer) <=> Runs(Lights, timer)
  BY <1>0, <1>1, <1>2, <1>3, <1>4, <1>5, <1>6
<1>. QED  BY <1>6, <1>7, <1>8, <1>9, <1>10, <1>11, <1>12, <1>13

-----------------------------------------------------------------------------
(* The types.                                                              *)

StateType ==
  [is_light_on : BOOLEAN, is_blue_green_on : BOOLEAN, is_red_on : BOOLEAN, is_buzzer_on : BOOLEAN,
   is_display_on : BOOLEAN, is_front_pir_on : BOOLEAN,
   status_led_color : {"GREEN_COLOR", "RED_COLOR"}, is_msg_to_send : BOOLEAN]

\* The last bits of a round are handled in order: once a part of the round is
\* over, no bit of it is left.
RoundOver ==
  /\ pc = "wait" => bits = {}
  /\ pc \in {"sensors", "listen", "send", "outputs"} => bits \cap (Movements \cup LightBits) = {}
  /\ pc \in {"send", "outputs"} => bits \cap SensorBits = {}

TypeOK ==
  /\ tick \in Nat /\ node \in NodeType /\ notification \subseteq Bits
  /\ pc \in {"wait", "pirs", "sensors", "listen", "send", "outputs"}
  /\ bits \subseteq Bits /\ tick_count_ms \in Nat /\ node_state \in StateType
  /\ lights \in LightsRecord /\ buzzer \in BOOLEAN
  /\ front_pir \in [enabled : BOOLEAN, listening : BOOLEAN, line : BOOLEAN]
  /\ status_led \in {"NO_COLOR", "GREEN_COLOR", "RED_COLOR"} /\ inputs_ready \in BOOLEAN
  /\ last_tick \in [Movements -> Nat] /\ TimersType /\ calls \in 0..MaxCalls

TypeInv == TypeOK /\ RoundOver

\* The outputs computed from a node are outputs.
LEMMA StateOfType ==
  ASSUME NEW n, NEW time
  PROVE  StateOf(n, time) \in StateType
<1>1. IsLightOn(n, time) \in BOOLEAN /\ IsIntrusionShown(n, time) \in BOOLEAN
  BY DEF IsLightOn, IsIntrusionShown
<1>. QED  BY <1>1 DEF StateOf, StateType

\* The bits of the timers: a lamp's is its name.
LEMMA BitsOfTimers ==
  /\ BitOf("block") = "LIGHTNING_UNBLOCK" /\ BitOf("strip") = "LIGHT_STRIP_GREEN_BLUE"
  /\ BitOf("red") = "LIGHT_STRIP_RED" /\ BitOf("display") = "DISPLAY"
  /\ BitOf("buzzer") = "BUZZER" /\ BitOf("temperature") = "TEMPERATURE_SENSOR"
  /\ BitOf("front_pir") = "FRONT_PIR_CONFIG"
  /\ \A x \in Lamps : BitOf(x) = x
  /\ \A timer \in TimerNames : BitOf(timer) \in Bits /\ BitOf(timer) # "LIGHTNING_BLOCK"
<1>1. BitOf("block") = "LIGHTNING_UNBLOCK"
  BY DEF BitOf
<1>2. BitOf("strip") = "LIGHT_STRIP_GREEN_BLUE"
  BY DEF BitOf
<1>3. BitOf("red") = "LIGHT_STRIP_RED"
  BY DEF BitOf
<1>4. BitOf("display") = "DISPLAY"
  BY DEF BitOf
<1>5. BitOf("buzzer") = "BUZZER"
  BY DEF BitOf
<1>6. BitOf("temperature") = "TEMPERATURE_SENSOR"
  BY DEF BitOf
<1>7. BitOf("front_pir") = "FRONT_PIR_CONFIG"
  BY DEF BitOf
<1>8. ASSUME NEW x \in Lamps
      PROVE  BitOf(x) = x
  <2>1. x \notin OtherTimers
    BY LampAssumption
  <2>. QED  BY <2>1 DEF BitOf, OtherTimers
<1>9. ASSUME NEW timer \in TimerNames
      PROVE  BitOf(timer) \in Bits /\ BitOf(timer) # "LIGHTNING_BLOCK"
  <2>1. CASE timer \in Lamps
    BY <1>8, <2>1, LampAssumption DEF Bits, LightBits, SwitchBits
  <2>2. CASE timer \in OtherTimers
    BY <1>1, <1>2, <1>3, <1>4, <1>5, <1>6, <1>7, <2>2
    DEF OtherTimers, Bits, LightBits, SwitchBits, SensorBits
  <2>. QED  BY <2>1, <2>2 DEF TimerNames
<1>. QED  BY <1>1, <1>2, <1>3, <1>4, <1>5, <1>6, <1>7, <1>8, <1>9

\* The daemon forgets no timer: it runs on, or its bit is notified.
LEMMA DaemonEffect ==
  ASSUME TimersType, notification \subseteq Bits,
         ExecuteCommand \/ \E timer \in TimerNames : ExpireTimer(timer)
  PROVE  /\ TimersType'
         /\ notification \subseteq notification' /\ notification' \subseteq Bits
         /\ \A timer \in TimerNames :
              Scheduled(timer) => Scheduled(timer)' \/ BitOf(timer) \in notification'
<1>. SUFFICES
       /\ timers' \in [TimerNames -> Nat] /\ commands' \in Seq(Command)
       /\ notification \subseteq notification' /\ notification' \subseteq Bits
       /\ \A timer \in TimerNames : RunsAfter(commands, timers, timer) =>
            RunsAfter(commands', timers', timer) \/ BitOf(timer) \in notification'
  BY DEF TimersType, Scheduled, Command
<1>1. timers \in [TimerNames -> Nat] /\ commands \in Seq(Command)
  BY DEF TimersType, Command
<1>2. CASE ExecuteCommand
  <2>. DEFINE command == Head(commands)
  <2>1. commands # <<>> /\ commands' = Tail(commands)
    BY <1>2 DEF ExecuteCommand
  <2>2. command \in Command /\ Tail(commands) \in Seq(Command)
    BY <1>1, <2>1, HeadTailProperties
  <2>3. CASE timers' = [timers EXCEPT ![command.timer] = Off]
             /\ notification' = notification \cup {BitOf(command.timer)}
    <3>1. ASSUME NEW timer \in TimerNames, RunsAfter(commands, timers, timer)
          PROVE  RunsAfter(commands', timers', timer) \/ BitOf(timer) \in notification'
      <4>1. CASE timer = command.timer
        BY <2>3, <4>1
      <4>2. CASE timer # command.timer
        <5>1. timers'[timer] = timers[timer]
          BY <1>1, <2>3, <4>2
        <5>. QED  BY <1>1, <2>1, <3>1, <4>2, <5>1, ExecutedOther
      <4>. QED  BY <4>1, <4>2
    <3>. QED  BY <1>1, <2>1, <2>2, <2>3, <3>1, BitsOfTimers DEF Command, Off
  <2>4. CASE timers' = [timers EXCEPT ![command.timer] = command.expiry]
             /\ notification' = notification
    <3>1. ASSUME NEW timer \in TimerNames, RunsAfter(commands, timers, timer)
          PROVE  RunsAfter(commands', timers', timer)
      <4>1. CASE timer = command.timer
        <5>1. command.timer \in TimerNames
          BY <2>2 DEF Command
        <5>. QED  BY <1>1, <2>1, <2>4, <3>1, <4>1, <5>1, ExecutedRuns
      <4>2. CASE timer # command.timer
        <5>1. timers'[timer] = timers[timer]
          BY <1>1, <2>4, <4>2
        <5>. QED  BY <1>1, <2>1, <3>1, <4>2, <5>1, ExecutedOther
      <4>. QED  BY <4>1, <4>2
    <3>. QED  BY <1>1, <2>1, <2>2, <2>4, <3>1 DEF Command
  <2>. QED  BY <1>2, <2>3, <2>4 DEF ExecuteCommand, Fire
<1>3. ASSUME NEW expired \in TimerNames, ExpireTimer(expired)
      PROVE  /\ timers' \in [TimerNames -> Nat] /\ commands' \in Seq(Command)
             /\ notification \subseteq notification' /\ notification' \subseteq Bits
             /\ \A timer \in TimerNames : RunsAfter(commands, timers, timer) =>
                  RunsAfter(commands', timers', timer) \/ BitOf(timer) \in notification'
  <2>1. /\ timers' = [timers EXCEPT ![expired] = Off] /\ commands' = commands
        /\ notification' = notification \cup {BitOf(expired)}
    BY <1>3 DEF ExpireTimer, Fire
  <2>2. ASSUME NEW timer \in TimerNames, RunsAfter(commands, timers, timer), timer # expired
        PROVE  RunsAfter(commands', timers', timer)
    <3>1. timers'[timer] = timers[timer]
      BY <1>1, <2>1, <2>2
    <3>. QED  BY <2>1, <2>2, <3>1, RunsAlone
  <2>. QED  BY <1>1, <2>1, <2>2, BitsOfTimers DEF Off
<1>. QED  BY <1>2, <1>3

\* Before its first step the task is well typed and no round is under way.
LEMMA InitType == Init => TypeInv
<1>. SUFFICES ASSUME Init PROVE TypeInv
  OBVIOUS
<1>1. tick \in Nat /\ tick_count_ms \in Nat /\ calls \in 0..MaxCalls
  BY BoardB02Assumption DEF Init
<1>2. "temperature" \in TimerNames /\ NODE_B02_TEMPERATURE_PERIOD_MS \in Nat \ {0}
  BY BoardB02Assumption DEF TimerNames, OtherTimers
<1>3. commands \in Seq(Command) /\ timers \in [TimerNames -> Nat]
  BY <1>1, <1>2, StartType DEF Init, Off
<1>4. TimersType
  BY <1>3 DEF TimersType, Command
<1>5. node \in NodeType
  BY DEF Init, NodeInit, NodeType, Modes, Kinds
<1>6. lights \in LightsRecord
  BY DEF Init, LightsRecord, Stages
<1>7. node_state \in StateType
  BY StateOfType DEF Init, NoState
<1>8. /\ front_pir \in [enabled : BOOLEAN, listening : BOOLEAN, line : BOOLEAN]
      /\ last_tick \in [Movements -> Nat]
  BY DEF Init
<1>9. /\ notification = {} /\ bits = {} /\ pc = "wait" /\ buzzer = FALSE
      /\ inputs_ready = FALSE /\ status_led = "NO_COLOR"
  BY DEF Init
<1>. QED
  BY <1>1, <1>4, <1>5, <1>6, <1>7, <1>8, <1>9 DEF TypeInv, TypeOK, RoundOver

\* Every step keeps the types, and a part of a round that ends leaves none of its bits.
LEMMA StepType ==
  ASSUME TypeInv, [Next]_vars
  PROVE  TypeInv'
<1>. USE DEF TypeInv
<1>0. /\ tick \in Nat /\ tick_count_ms \in Nat /\ node \in NodeType /\ bits \subseteq Bits
      /\ commands \in Seq(Command) /\ timers \in [TimerNames -> Nat]
  BY DEF TypeOK, TimersType, Command
<1>1. CASE Wait
  BY <1>1 DEF Wait, TypeOK, RoundOver, outputs, daemon, inputs, TimersType
<1>2. CASE DoorPir \/ FrontPir \/ VerandaPir
  <2>1. node' \in NodeType
    BY <1>0, <1>2, MovementType DEF DoorPir, FrontPir, VerandaPir
  <2>2. /\ pc = "pirs" /\ pc' = pc /\ bits' \subseteq bits
        /\ UNCHANGED <<tick, notification, tick_count_ms, node_state, lights, buzzer, status_led,
                       timers, commands, inputs_ready, last_tick, calls>>
        /\ front_pir' \in {front_pir, [front_pir EXCEPT !.line = FALSE]}
    BY <1>2 DEF DoorPir, FrontPir, CaptureRead, VerandaPir, outputs, daemon, inputs
  <2>3. front_pir' \in [enabled : BOOLEAN, listening : BOOLEAN, line : BOOLEAN]
    BY <2>2 DEF TypeOK
  <2>. QED  BY <2>1, <2>2, <2>3 DEF TypeOK, RoundOver, TimersType
<1>3. CASE Lightning
  <2>. DEFINE l == LightsAfterBits
              after == [x \in DOMAIN lights |-> l[x]]
              longer == Append(l.cmds, Start("buzzer", BuzzerMs))
  <2>1. l \in LightsType
    BY <1>0, LightsBegin, LightsEffect DEF TypeOK
  <2>2. Start("buzzer", BuzzerMs) \in Command
    BY <1>0, StartType, BoardB02Assumption DEF TimerNames, OtherTimers
  <2>3. commands' \in {l.cmds, longer} /\ lights' = after
    BY <1>3 DEF Lightning
  <2>. HIDE DEF l
  <2>4. lights' \in LightsRecord
    BY <2>1, <2>3, LightsEnd DEF TypeOK
  <2>5. commands' \in Seq(Command)
    BY <2>1, <2>2, <2>3, AppendProperties DEF LightsType
  <2>6. /\ pc' = "sensors" /\ bits' = bits \ LightBits /\ bits \cap Movements = {} /\ buzzer' \in BOOLEAN
        /\ UNCHANGED <<tick, node, notification, tick_count_ms, node_state, front_pir, status_led,
                       timers, inputs_ready, last_tick, calls>>
    BY <1>3 DEF Lightning, inputs
  <2>. QED  BY <2>4, <2>5, <2>6 DEF TypeOK, RoundOver, TimersType, Command
<1>4. CASE ReadTemperature
  <2>1. node' \in NodeType
    BY <1>0, <1>4, MeasurementType, BoardB02Assumption DEF ReadTemperature
  <2>2. Start("temperature", NODE_B02_TEMPERATURE_PERIOD_MS) \in Command
    BY <1>0, StartType, BoardB02Assumption DEF TimerNames, OtherTimers
  <2>3. commands' \in Seq(Command)
    BY <1>0, <1>4, <2>2, AppendProperties DEF ReadTemperature
  <2>. QED  BY <1>4, <2>1, <2>3 DEF ReadTemperature, TypeOK, RoundOver, outputs, TimersType, Command
<1>5. CASE PowerFrontPir
  <2>1. Start("front_pir", FrontPirMs) \in Command
    BY <1>0, StartType, BoardB02Assumption DEF TimerNames, OtherTimers
  <2>2. commands' \in Seq(Command)
    BY <1>0, <1>5, <2>1, AppendProperties DEF PowerFrontPir
  <2>3. front_pir' \in [enabled : BOOLEAN, listening : BOOLEAN, line : BOOLEAN]
    BY <1>5 DEF PowerFrontPir, TypeOK
  <2>. QED  BY <1>5, <2>2, <2>3 DEF PowerFrontPir, TypeOK, RoundOver, inputs, TimersType, Command
<1>6. CASE ConfigFrontPir \/ Listen
  <2>1. front_pir' \in [enabled : BOOLEAN, listening : BOOLEAN, line : BOOLEAN]
    BY <1>6 DEF ConfigFrontPir, CaptureRead, Listen, TypeOK
  <2>. QED
    BY <1>6, <2>1 DEF ConfigFrontPir, CaptureRead, Listen, TypeOK, RoundOver, round, daemon, inputs, TimersType
<1>7. CASE GetState
  <2>1. node' \in NodeType /\ node_state' \in StateType
    BY <1>0, <1>7, UpdateTimeType, StateOfType DEF GetState
  <2>. QED  BY <1>7, <2>1 DEF GetState, TypeOK, RoundOver, outputs, daemon, inputs, TimersType
<1>8. CASE SendReport
  <2>1. node' \in NodeType
    BY <1>0, <1>8, HandedOut DEF SendReport
  <2>. QED  BY <1>8, <2>1 DEF SendReport, TypeOK, RoundOver, round, outputs, daemon, inputs, TimersType
<1>9. CASE UpdateOutputs
  <2>1. AlwaysWanted \subseteq Bits /\ LightsWanted \subseteq Bits
    BY DEF AlwaysWanted, LightsWanted, Bits, LightBits, SwitchBits, SensorBits
  <2>2. node_state' \in StateType
    BY <1>9, StateOfType DEF UpdateOutputs, NoState
  <2>3. lights' \in LightsRecord
    BY <1>9 DEF UpdateOutputs, TypeOK, StateType, LightsRecord
  <2>4. status_led' \in {"NO_COLOR", "GREEN_COLOR", "RED_COLOR"}
    BY <1>9 DEF UpdateOutputs, TypeOK, StateType
  <2>5. notification' \subseteq Bits
    BY <1>9, <2>1 DEF UpdateOutputs, TypeOK
  <2>. QED
    BY <1>9, <2>2, <2>3, <2>4, <2>5 DEF UpdateOutputs, TypeOK, RoundOver, daemon, inputs, TimersType
<1>10. CASE Daemon
  <2>1. TimersType' /\ notification' \subseteq Bits
    BY <1>10, DaemonEffect DEF Daemon, TypeOK
  <2>. QED  BY <1>10, <2>1 DEF Daemon, TypeOK, RoundOver, round, outputs, inputs
<1>11. ASSUME NEW bit \in Bits, Call(bit), node' \in NodeType, commands' \in Seq(Command)
       PROVE  TypeInv'
  <2>1. calls' \in 0 .. MaxCalls
    <3>1. MaxCalls \in Nat /\ calls \in 0 .. MaxCalls /\ calls < MaxCalls /\ calls' = calls + 1
      BY <1>11, BoardB02Assumption DEF Call, TypeOK
    <3>. QED  BY <3>1
  <2>2. notification' \subseteq Bits
    BY <1>11 DEF Call, TypeOK
  <2>3. TimersType'
    BY <1>11 DEF Call, TypeOK, TimersType, Command
  <2>4. RoundOver'
    BY <1>11 DEF Call, RoundOver, round
  <2>. QED
    BY <1>11, <2>1, <2>2, <2>3, <2>4 DEF Call, TypeOK, round, outputs, inputs
<1>12. "UPDATE_STATE" \in Bits /\ "LIGHTNING_BLOCK" \in Bits
  BY DEF Bits, LightBits, SwitchBits
<1>13. ASSUME NEW msg \in Received, ProcessNodeMsg(msg)
       PROVE  TypeInv'
  <2>1. node' \in NodeType
    BY <1>0, <1>13, MsgType DEF ProcessNodeMsg
  <2>. QED  BY <1>0, <1>11, <1>12, <1>13, <2>1 DEF ProcessNodeMsg
<1>14. ASSUME NEW is_dark \in Darkness, ProcessPhotoresistor(is_dark)
       PROVE  TypeInv'
  <2>1. node' \in NodeType
    BY <1>0, <1>14, MeasurementType, BoardB02Assumption DEF ProcessPhotoresistor
  <2>. QED  BY <1>0, <1>11, <1>12, <1>14, <2>1 DEF ProcessPhotoresistor
<1>15. CASE DisableLightning
  <2>1. Start("block", DisableMs) \in Command
    BY <1>0, StartType, BoardB02Assumption DEF TimerNames, OtherTimers
  <2>2. commands' \in Seq(Command)
    BY <1>0, <1>15, <2>1, AppendProperties DEF DisableLightning
  <2>. QED  BY <1>0, <1>11, <1>12, <1>15, <2>2 DEF DisableLightning
<1>16. CASE Tick
  BY <1>16 DEF Tick, TypeOK, RoundOver, round, outputs, daemon, inputs, TimersType
<1>17. CASE FrontPirChanges \/ \E m \in {"DOOR_PIR", "VERANDA_PIR"} : Interrupt(m)
  <2>1. notification' \subseteq Bits /\ last_tick' \in [Movements -> Nat]
    BY <1>0, <1>17 DEF FrontPirChanges, Interrupt, TypeOK, Bits, Movements
  <2>2. front_pir' \in [enabled : BOOLEAN, listening : BOOLEAN, line : BOOLEAN]
    BY <1>17 DEF FrontPirChanges, Interrupt, outputs, TypeOK
  <2>3. UNCHANGED <<tick, node, pc, bits, tick_count_ms, node_state, lights, buzzer, status_led,
                    timers, commands, inputs_ready, calls>>
    BY <1>17 DEF FrontPirChanges, Interrupt, round, outputs, daemon
  <2>. QED  BY <2>1, <2>2, <2>3 DEF TypeOK, RoundOver, TimersType
<1>18. CASE UNCHANGED vars
  BY <1>18 DEF vars, TypeOK, RoundOver, round, outputs, daemon, inputs, TimersType
<1>. QED
  BY <1>1, <1>2, <1>3, <1>4, <1>5, <1>6, <1>7, <1>8, <1>9, <1>10, <1>13, <1>14, <1>15, <1>16, <1>17,
     <1>18
  DEF Next, TaskStep, OtherStep

\* Every variable keeps its type: the node's record through all of its
\* functions, the lights through the bits of a round, the queue of commands.
THEOREM TypeCorrect == Spec => []TypeOK
<1>1. TypeInv => TypeOK
  BY DEF TypeInv
<1>. QED  BY <1>1, InitType, StepType, PTL DEF Spec

-----------------------------------------------------------------------------
(* Nothing stays on for good.                                              *)

\* A block that is still to begin has its end in sight, and if the task has not
\* taken its beginning it has not taken its end either: otherwise the block
\* would begin after its end.
LeftOnInv ==
  /\ NothingLeftOn
  /\ Pending("LIGHTNING_BLOCK") => WillRing("block")
  /\ "LIGHTNING_BLOCK" \in notification =>
        Scheduled("block") \/ "LIGHTNING_UNBLOCK" \in notification

\* The timers whose bits switch something off.
Switches == Lamps \cup {"strip", "red", "display", "buzzer", "block"}

\* They are among the timers, and their bits are those of the lights.
LEMMA SwitchesTimed ==
  /\ Switches \subseteq TimerNames
  /\ \A timer \in Switches : BitOf(timer) \in LightBits
BY BitsOfTimers DEF Switches, TimerNames, OtherTimers, LightBits, SwitchBits

\* What rings is scheduled, or its bit is pending.
LEMMA RingingBits ==
  /\ \A x \in Lamps : /\ WillRing(x) <=> Scheduled(x) \/ Pending(x)
                      /\ WillRing(x)' <=> Scheduled(x)' \/ Pending(x)'
  /\ WillRing("strip") <=> Scheduled("strip") \/ Pending("LIGHT_STRIP_GREEN_BLUE")
  /\ WillRing("red") <=> Scheduled("red") \/ Pending("LIGHT_STRIP_RED")
  /\ WillRing("display") <=> Scheduled("display") \/ Pending("DISPLAY")
  /\ WillRing("buzzer") <=> Scheduled("buzzer") \/ Pending("BUZZER")
  /\ WillRing("block") <=> Scheduled("block") \/ Pending("LIGHTNING_UNBLOCK")
  /\ (WillRing("strip") <=> Scheduled("strip") \/ Pending("LIGHT_STRIP_GREEN_BLUE"))'
  /\ (WillRing("red") <=> Scheduled("red") \/ Pending("LIGHT_STRIP_RED"))'
  /\ (WillRing("display") <=> Scheduled("display") \/ Pending("DISPLAY"))'
  /\ (WillRing("buzzer") <=> Scheduled("buzzer") \/ Pending("BUZZER"))'
  /\ (WillRing("block") <=> Scheduled("block") \/ Pending("LIGHTNING_UNBLOCK"))'
  /\ \A timer : /\ WillRing(timer) <=> Scheduled(timer) \/ Pending(BitOf(timer))
                /\ WillRing(timer)' <=> Scheduled(timer)' \/ Pending(BitOf(timer))'
BY BitsOfTimers DEF WillRing

\* Steps that leave the lights and the buzzer alone and make no timer forgotten.
LEMMA NothingForgotten ==
  ASSUME LeftOnInv, UNCHANGED <<lights, buzzer>>,
         \A timer \in Switches : WillRing(timer) => WillRing(timer)',
         Pending("LIGHTNING_BLOCK")' => WillRing("block")',
         "LIGHTNING_BLOCK" \in notification' =>
           Scheduled("block")' \/ "LIGHTNING_UNBLOCK" \in notification'
  PROVE  LeftOnInv'
<1>1. /\ \A x \in Lamps : WillRing(x) => WillRing(x)'
      /\ WillRing("strip") => WillRing("strip")'
      /\ WillRing("red") => WillRing("red")'
      /\ WillRing("display") => WillRing("display")'
      /\ WillRing("buzzer") => WillRing("buzzer")'
      /\ WillRing("block") => WillRing("block")'
  BY DEF Switches
<1>2. LampNeverStuck' /\ StripNeverStuck' /\ RedNeverStuck'
  BY <1>1 DEF LeftOnInv, NothingLeftOn, LampNeverStuck, StripNeverStuck, RedNeverStuck
<1>3. DisplayNeverStuck' /\ BuzzerNeverStuck' /\ BlockNeverStuck'
  BY <1>1 DEF LeftOnInv, NothingLeftOn, DisplayNeverStuck, BuzzerNeverStuck, BlockNeverStuck
<1>. QED  BY <1>2, <1>3 DEF LeftOnInv, NothingLeftOn

\* Steps that leave the lights alone, send no commands to their timers, drop no
\* notification and no bit of the lights, and begin no block.
LEMMA LeftOnSteps ==
  ASSUME LeftOnInv, UNCHANGED <<lights, buzzer>>,
         \A timer \in Switches : Scheduled(timer) => Scheduled(timer)',
         notification \subseteq notification', bits \cap LightBits \subseteq bits', bits' \subseteq bits,
         "LIGHTNING_BLOCK" \in notification' => "LIGHTNING_BLOCK" \in notification
  PROVE  LeftOnInv'
<1>1. \A bit \in LightBits : Pending(bit) => Pending(bit)'
  BY DEF Pending
<1>2. \A timer \in Switches : WillRing(timer) => WillRing(timer)'
  BY <1>1, RingingBits, SwitchesTimed
<1>3. Pending("LIGHTNING_BLOCK")' => Pending("LIGHTNING_BLOCK")
  BY DEF Pending
<1>4. "block" \in Switches
  BY DEF Switches
<1>. QED  BY <1>2, <1>3, <1>4, NothingForgotten DEF LeftOnInv

\* Nothing is on at first.
LEMMA LeftOnInit == Init => LeftOnInv
BY DEF Init, LeftOnInv, NothingLeftOn, LampNeverStuck, StripNeverStuck, RedNeverStuck,
       DisplayNeverStuck, BuzzerNeverStuck, BlockNeverStuck, Pending

\* The step that handles the bits.
LEMMA LeftOnLightning ==
  ASSUME TypeInv, LeftOnInv, Lightning
  PROVE  LeftOnInv'
<1>. DEFINE r == LightsAfterBits
            c == Start("buzzer", BuzzerMs)
            longer == Append(r.cmds, c)
            after == [x \in DOMAIN lights |-> r[x]]
<1>0. /\ tick \in Nat /\ lights \in LightsRecord /\ commands \in Seq(Command) /\ buzzer \in BOOLEAN
      /\ "buzzer" \in TimerNames
  BY DEF TypeInv, TypeOK, TimersType, Command, TimerNames, OtherTimers
<1>1. /\ r \in LightsType
      /\ \A x \in Lamps : r.lamp[x] => Runs(r, x) \/
           (Lights.lamp[x] /\ x \notin bits /\ (Runs(Lights, x) <=> Runs(r, x)))
      /\ r.green \/ r.blue => Runs(r, "strip") \/
           /\ Lights.green \/ Lights.blue
           /\ "LIGHT_STRIP_GREEN_BLUE" \notin bits /\ (Runs(Lights, "strip") <=> Runs(r, "strip"))
      /\ r.red \/ r.is_red => Runs(r, "red") \/
           /\ Lights.red \/ Lights.is_red
           /\ "LIGHT_STRIP_RED" \notin bits /\ (Runs(Lights, "red") <=> Runs(r, "red"))
      /\ r.display => Runs(r, "display") \/
           (Lights.display /\ "DISPLAY" \notin bits /\ (Runs(Lights, "display") <=> Runs(r, "display")))
      /\ r.blocked => /\ "LIGHTNING_UNBLOCK" \notin bits
                      /\ Lights.blocked \/ "LIGHTNING_BLOCK" \in bits
      /\ Runs(r, "block") <=> Runs(Lights, "block")
      /\ Runs(r, "buzzer") <=> Runs(Lights, "buzzer")
  BY <1>0, LightsBegin, LightsEffect
<1>. HIDE DEF r
<1>2. c \in Command /\ c.timer = "buzzer" /\ c.expiry # Off
  BY <1>0, StartType, BoardB02Assumption
<1>. HIDE DEF c
<1>3. /\ RunsAfter(longer, timers, "buzzer")
      /\ \A timer \in TimerNames \ {"buzzer"} : RunsAfter(longer, timers, timer) <=> Runs(r, timer)
  BY <1>1, <1>2, CommandSent DEF LightsType, Runs
<1>4. /\ lights' = after /\ commands' = (IF "BUZZER" \in bits /\ ~buzzer THEN longer ELSE r.cmds)
      /\ timers' = timers /\ notification' = notification /\ bits' = bits \ LightBits
      /\ buzzer' = (buzzer # ("BUZZER" \in bits))
  BY DEF Lightning, r, c
<1>5. /\ lights'.lamp = r.lamp /\ lights'.blocked = r.blocked /\ lights'.display = r.display
      /\ lights'.green = r.green /\ lights'.blue = r.blue
      /\ lights'.is_red = r.is_red /\ lights'.red = r.red
  BY <1>0, <1>1, <1>4, LightsEnd
<1>6. /\ Lights.lamp = lights.lamp /\ Lights.blocked = lights.blocked
      /\ Lights.display = lights.display /\ Lights.green = lights.green /\ Lights.blue = lights.blue
      /\ Lights.is_red = lights.is_red /\ Lights.red = lights.red /\ Lights.cmds = commands
  BY <1>0, LightsBegin
<1>. HIDE DEF after, longer
<1>7. \A timer : Runs(Lights, timer) <=> Scheduled(timer)
  BY <1>6 DEF Runs, Scheduled
<1>8. \A timer \in TimerNames \ {"buzzer"} : Runs(r, timer) <=> Scheduled(timer)'
  BY <1>3, <1>4 DEF Runs, Scheduled
<1>9. /\ Lamps \subseteq TimerNames \ {"buzzer"}
      /\ {"strip", "red", "display", "block"} \subseteq TimerNames \ {"buzzer"}
  BY LampAssumption DEF TimerNames, OtherTimers
<1>10. \A bit : Pending(bit) => bit \in bits \/ Pending(bit)'
  BY <1>4 DEF Pending
<1>11. LampNeverStuck'
  <2>1. ASSUME NEW x \in Lamps, lights'.lamp[x] PROVE WillRing(x)'
    <3>1. Scheduled(x)' <=> Runs(r, x)
      BY <1>8, <1>9
    <3>2. Scheduled(x)' \/ (lights.lamp[x] /\ x \notin bits /\ (Scheduled(x) <=> Scheduled(x)'))
      BY <1>1, <1>5, <1>6, <1>7, <2>1, <3>1
    <3>. QED  BY <1>10, <3>2, RingingBits DEF LeftOnInv, NothingLeftOn, LampNeverStuck
  <2>. QED  BY <2>1 DEF LampNeverStuck
<1>12. StripNeverStuck'
  BY <1>1, <1>5, <1>6, <1>7, <1>8, <1>9, <1>10, RingingBits
  DEF LeftOnInv, NothingLeftOn, StripNeverStuck
<1>13. RedNeverStuck'
  BY <1>1, <1>5, <1>6, <1>7, <1>8, <1>9, <1>10, RingingBits
  DEF LeftOnInv, NothingLeftOn, RedNeverStuck
<1>14. DisplayNeverStuck'
  BY <1>1, <1>5, <1>6, <1>7, <1>8, <1>9, <1>10, RingingBits
  DEF LeftOnInv, NothingLeftOn, DisplayNeverStuck
<1>15. BuzzerNeverStuck'
  <2>1. CASE "BUZZER" \in bits /\ ~buzzer
    BY <1>3, <1>4, <2>1, RingingBits DEF BuzzerNeverStuck, Scheduled
  <2>2. CASE "BUZZER" \notin bits /\ buzzer
    <3>1. Scheduled("buzzer") => Scheduled("buzzer")'
      <4>1. commands' = r.cmds
        BY <1>4, <2>2
      <4>. QED  BY <1>1, <1>4, <1>7, <4>1 DEF Runs, Scheduled
    <3>. QED  BY <1>10, <2>2, <3>1, RingingBits DEF LeftOnInv, NothingLeftOn, BuzzerNeverStuck
  <2>3. CASE "BUZZER" \in bits /\ buzzer
    BY <1>4, <2>3 DEF BuzzerNeverStuck
  <2>4. CASE "BUZZER" \notin bits /\ ~buzzer
    <3>1. buzzer = FALSE /\ ("BUZZER" \in bits) = FALSE
      BY <1>0, <2>4
    <3>2. buzzer' = FALSE
      BY <1>4, <3>1
    <3>. QED  BY <3>2 DEF BuzzerNeverStuck
  <2>. QED  BY <1>0, <2>1, <2>2, <2>3, <2>4
<1>16. BlockNeverStuck'
  <2>1. lights'.blocked => lights.blocked \/ Pending("LIGHTNING_BLOCK")
    BY <1>1, <1>5, <1>6 DEF Pending
  <2>2. lights'.blocked => WillRing("block")
    BY <2>1 DEF LeftOnInv, NothingLeftOn, BlockNeverStuck
  <2>3. Scheduled("block") => Scheduled("block")'
    BY <1>1, <1>7, <1>8, <1>9
  <2>. QED  BY <1>1, <1>5, <1>10, <2>2, <2>3, RingingBits DEF BlockNeverStuck
<1>17. "LIGHTNING_BLOCK" \in notification =>
         Scheduled("block")' \/ "LIGHTNING_UNBLOCK" \in notification'
  BY <1>1, <1>4, <1>7, <1>8, <1>9 DEF LeftOnInv
<1>18. Pending("LIGHTNING_BLOCK")' => "LIGHTNING_BLOCK" \in notification
  BY <1>4 DEF Pending, LightBits, SwitchBits
<1>19. "LIGHTNING_UNBLOCK" \in notification' => Pending("LIGHTNING_UNBLOCK")'
  BY DEF Pending
<1>. QED
  BY <1>4, <1>11, <1>12, <1>13, <1>14, <1>15, <1>16, <1>17, <1>18, <1>19, RingingBits
  DEF LeftOnInv, NothingLeftOn

\* The bits of the PIRs and of the sensors are none of the lights'.
LEMMA OtherBits == (Movements \cup SensorBits \cup {"UPDATE_STATE"}) \cap LightBits = {}
BY LampAssumption DEF Movements, SensorBits, LightBits, SwitchBits

\* The end of a round, where the task asks itself for what is to be switched.
LEMMA LeftOnOutputs ==
  ASSUME TypeInv, LeftOnInv, UpdateOutputs
  PROVE  LeftOnInv'
<1>1. /\ pc = "outputs" /\ bits' = {} /\ bits \subseteq Bits /\ lights \in LightsRecord
      /\ UNCHANGED <<buzzer, timers, commands>> /\ notification \subseteq notification'
  BY DEF UpdateOutputs, daemon, TypeInv, TypeOK
<1>2. bits \cap LightBits = {}
  BY <1>1 DEF TypeInv, RoundOver
<1>3. \A bit \in LightBits : Pending(bit) => bit \in notification'
  BY <1>1, <1>2 DEF Pending
<1>4. \A timer : Scheduled(timer)' <=> Scheduled(timer)
  BY <1>1 DEF Scheduled
<1>5. \A timer \in Switches : WillRing(timer) => WillRing(timer)'
  BY <1>3, <1>4, RingingBits, SwitchesTimed DEF Pending
<1>6. /\ \A x \in Lamps : WillRing(x) => WillRing(x)'
      /\ WillRing("strip") => WillRing("strip")'
      /\ WillRing("red") => WillRing("red")'
      /\ WillRing("display") => WillRing("display")'
      /\ WillRing("buzzer") => WillRing("buzzer")'
      /\ WillRing("block") => WillRing("block")'
  BY <1>5 DEF Switches
<1>7. /\ lights'.lamp = lights.lamp /\ lights'.blocked = lights.blocked
      /\ lights'.display = lights.display /\ lights'.green = lights.green
      /\ lights'.blue = lights.blue /\ lights'.red = lights.red
      /\ lights'.is_red => lights.is_red \/ "LIGHT_STRIP_RED" \in notification'
  <2>1. CASE lights.blocked
    BY <2>1 DEF UpdateOutputs
  <2>2. CASE ~lights.blocked
    <3>1. /\ lights' = [lights EXCEPT !.is_red = node_state.is_red_on]
          /\ LightsWanted \subseteq notification'
      BY <2>2 DEF UpdateOutputs
    <3>2. node_state.is_red_on /\ ~lights.is_red => "LIGHT_STRIP_RED" \in LightsWanted
      BY DEF LightsWanted
    <3>. QED  BY <1>1, <3>1, <3>2 DEF LightsRecord
  <2>. QED  BY <2>1, <2>2
<1>8. RedNeverStuck'
  <2>1. "LIGHT_STRIP_RED" \in notification' => WillRing("red")'
    BY RingingBits DEF Pending
  <2>. QED  BY <1>6, <1>7, <2>1 DEF LeftOnInv, NothingLeftOn, RedNeverStuck
<1>9. LampNeverStuck' /\ StripNeverStuck' /\ DisplayNeverStuck' /\ BuzzerNeverStuck' /\ BlockNeverStuck'
  BY <1>1, <1>6, <1>7
  DEF LeftOnInv, NothingLeftOn, LampNeverStuck, StripNeverStuck, DisplayNeverStuck,
      BuzzerNeverStuck, BlockNeverStuck
<1>10. "LIGHTNING_BLOCK" \in notification' => "LIGHTNING_BLOCK" \in notification
  <2>1. "LIGHTNING_BLOCK" \notin AlwaysWanted \cup LightsWanted
    BY LampAssumption DEF AlwaysWanted, LightsWanted, SwitchBits
  <2>. QED  BY <2>1 DEF UpdateOutputs
<1>11. (Pending("LIGHTNING_BLOCK") => WillRing("block"))'
  BY <1>1, <1>6, <1>10 DEF Pending, LeftOnInv
<1>12. ("LIGHTNING_BLOCK" \in notification =>
          Scheduled("block") \/ "LIGHTNING_UNBLOCK" \in notification)'
  BY <1>1, <1>4, <1>10 DEF LeftOnInv
<1>. QED  BY <1>8, <1>9, <1>11, <1>12 DEF LeftOnInv, NothingLeftOn

\* Every step keeps it.
LEMMA LeftOnStep ==
  ASSUME TypeInv, LeftOnInv, [Next]_vars
  PROVE  LeftOnInv'
<1>0. /\ tick \in Nat /\ commands \in Seq(Command) /\ timers \in [TimerNames -> Nat]
      /\ lights \in LightsRecord
  BY DEF TypeInv, TypeOK, TimersType, Command
<1>1. CASE Wait
  <2>1. /\ pc = "wait" /\ bits' = notification /\ notification' = {} /\ bits = {}
        /\ UNCHANGED <<lights, buzzer, timers, commands>>
    BY <1>1 DEF Wait, outputs, daemon, TypeInv, RoundOver
  <2>2. \A bit : Pending(bit) <=> Pending(bit)'
    BY <2>1 DEF Pending
  <2>3. \A timer : Scheduled(timer)' <=> Scheduled(timer)
    BY <2>1 DEF Scheduled
  <2>4. \A timer : WillRing(timer)' <=> WillRing(timer)
    BY <2>2, <2>3, RingingBits
  <2>. QED  BY <2>1, <2>2, <2>4, NothingForgotten DEF LeftOnInv
<1>2. CASE UNCHANGED <<lights, buzzer, timers, commands>> /\ notification \subseteq notification'
           /\ bits \cap LightBits \subseteq bits' /\ bits' \subseteq bits
           /\ ("LIGHTNING_BLOCK" \in notification' => "LIGHTNING_BLOCK" \in notification)
  <2>1. \A timer : Scheduled(timer)' <=> Scheduled(timer)
    BY <1>2 DEF Scheduled
  <2>. QED  BY <1>2, <2>1, LeftOnSteps
<1>3. CASE DoorPir \/ FrontPir \/ VerandaPir \/ ConfigFrontPir \/ Listen \/ GetState \/ SendReport
  <2>1. /\ UNCHANGED <<lights, buzzer, timers, commands, notification>>
        /\ \E bit \in Movements \cup SensorBits : bits \ {bit} \subseteq bits'
        /\ bits' \subseteq bits
    BY <1>3 DEF DoorPir, FrontPir, VerandaPir, ConfigFrontPir, CaptureRead, Listen, GetState, SendReport,
                outputs, daemon, round, Movements, SensorBits
  <2>2. (Movements \cup SensorBits) \cap LightBits = {}
    BY OtherBits
  <2>. QED  BY <1>2, <2>1, <2>2
<1>4. CASE Lightning
  BY <1>4, LeftOnLightning
<1>5. ASSUME NEW timer \in {"temperature", "front_pir"}, NEW period \in Nat \ {0},
             commands' = Append(commands, Start(timer, period)),
             UNCHANGED <<lights, buzzer, timers, notification>>,
             \E bit \in SensorBits : bits' = bits \ {bit}
      PROVE  LeftOnInv'
  <2>. DEFINE c == Start(timer, period)
  <2>1. c \in Command /\ c.timer = timer
    BY <1>0, StartType DEF TimerNames, OtherTimers
  <2>. HIDE DEF c
  <2>2. \A switch \in Switches : switch \in TimerNames \ {timer}
    BY SwitchesTimed, LampAssumption DEF Switches, OtherTimers
  <2>3. \A switch \in Switches : Scheduled(switch)' <=> Scheduled(switch)
    BY <1>0, <1>5, <2>1, <2>2, CommandSent DEF Scheduled, c
  <2>. QED  BY <1>5, <2>3, LeftOnSteps, OtherBits
<1>6. CASE ReadTemperature
  BY <1>5, <1>6, BoardB02Assumption DEF ReadTemperature, outputs, SensorBits
<1>7. CASE PowerFrontPir
  <2>1. bits' = bits \ {"FRONT_PIR_POWER"} /\ UNCHANGED <<lights, buzzer, timers, notification>>
    BY <1>7 DEF PowerFrontPir
  <2>2. CASE front_pir.enabled
    <3>1. UNCHANGED commands
      BY <1>7, <2>2 DEF PowerFrontPir
    <3>2. "FRONT_PIR_POWER" \notin LightBits
      BY OtherBits DEF SensorBits
    <3>. QED  BY <1>2, <2>1, <3>1, <3>2
  <2>3. CASE ~front_pir.enabled
    BY <1>5, <1>7, <2>1, <2>3, BoardB02Assumption DEF PowerFrontPir, SensorBits
  <2>. QED  BY <2>2, <2>3
<1>8. CASE UpdateOutputs
  BY <1>8, LeftOnOutputs
<1>9. CASE Daemon
  <2>1. /\ notification \subseteq notification'
        /\ \A timer \in TimerNames :
              Scheduled(timer) => Scheduled(timer)' \/ BitOf(timer) \in notification'
    BY <1>9, DaemonEffect DEF Daemon, TypeInv, TypeOK
  <2>2. UNCHANGED <<lights, buzzer, bits>>
    BY <1>9 DEF Daemon, round, outputs
  <2>3. \A bit : Pending(bit) => Pending(bit)'
    BY <2>1, <2>2 DEF Pending
  <2>4. \A timer \in Switches : WillRing(timer) => WillRing(timer)'
    BY <2>1, <2>3, RingingBits, SwitchesTimed DEF Pending
  <2>5. "LIGHTNING_BLOCK" \in notification' => "LIGHTNING_BLOCK" \in notification
    <3>1. commands # <<>> => Head(commands).timer \in TimerNames
      <4>1. commands # <<>> => Head(commands) \in Command
        BY <1>0, HeadTailProperties
      <4>. QED  BY <4>1 DEF Command
    <3>. QED  BY <1>9, <3>1, BitsOfTimers DEF Daemon, ExecuteCommand, ExpireTimer, Fire
  <2>6. Pending("LIGHTNING_BLOCK")' => Pending("LIGHTNING_BLOCK")
    BY <2>2, <2>5 DEF Pending
  <2>7. "block" \in Switches /\ "block" \in TimerNames
    BY SwitchesTimed DEF Switches
  <2>8. "LIGHTNING_BLOCK" \in notification' =>
           Scheduled("block")' \/ "LIGHTNING_UNBLOCK" \in notification'
    BY <2>1, <2>5, <2>7, BitsOfTimers DEF LeftOnInv
  <2>. QED  BY <2>2, <2>4, <2>6, <2>7, <2>8, NothingForgotten DEF LeftOnInv
<1>10. CASE (\E msg \in Received : ProcessNodeMsg(msg)) \/ (\E is_dark \in Darkness : ProcessPhotoresistor(is_dark))
  <2>1. /\ UNCHANGED <<lights, buzzer, timers, commands, bits>>
        /\ notification' = notification \cup {"UPDATE_STATE"}
    BY <1>10 DEF ProcessNodeMsg, ProcessPhotoresistor, Call, outputs, round
  <2>. QED  BY <1>2, <2>1
<1>11. CASE DisableLightning
  <2>. DEFINE c == Start("block", DisableMs)
  <2>1. /\ UNCHANGED <<lights, buzzer, timers, bits>>
        /\ notification' = notification \cup {"LIGHTNING_BLOCK"}
        /\ commands' = Append(commands, c)
    BY <1>11 DEF DisableLightning, Call, outputs, round
  <2>2. c \in Command /\ c.timer = "block" /\ c.expiry # Off
    BY <1>0, StartType, BoardB02Assumption DEF TimerNames, OtherTimers
  <2>. HIDE DEF c
  <2>3. Scheduled("block")' /\ \A timer \in Switches : Scheduled(timer) => Scheduled(timer)'
    BY <1>0, <2>1, <2>2, CommandSent, SwitchesTimed DEF Scheduled
  <2>4. \A bit : Pending(bit) => Pending(bit)'
    BY <2>1 DEF Pending
  <2>5. \A timer \in Switches : WillRing(timer) => WillRing(timer)'
    BY <2>3, <2>4, RingingBits
  <2>. QED  BY <2>1, <2>3, <2>5, RingingBits, NothingForgotten
<1>12. CASE FrontPirChanges \/ (\E m \in {"DOOR_PIR", "VERANDA_PIR"} : Interrupt(m)) \/ Tick
  <2>1. /\ UNCHANGED <<lights, buzzer, timers, commands, bits>>
        /\ notification \subseteq notification' /\ notification' \subseteq notification \cup Movements
    BY <1>12 DEF FrontPirChanges, Interrupt, Tick, outputs, round, daemon, Movements
  <2>. QED  BY <1>2, <2>1 DEF Movements
<1>13. CASE UNCHANGED vars
  BY <1>2, <1>13 DEF vars, outputs, daemon, round
<1>. QED
  BY <1>1, <1>3, <1>4, <1>6, <1>7, <1>8, <1>9, <1>10, <1>11, <1>12, <1>13
  DEF Next, TaskStep, OtherStep

\* Whatever is on has something under way that will switch it off, and a block
\* something that will end it.
THEOREM NothingStuck == Spec => []NothingLeftOn
<1>1. LeftOnInv => NothingLeftOn
  BY DEF LeftOnInv
<1>2. Spec => []TypeInv
  BY InitType, StepType, PTL DEF Spec
<1>. QED  BY <1>1, <1>2, LeftOnInit, LeftOnStep, PTL DEF Spec

-----------------------------------------------------------------------------
(* The front PIR.                                                          *)

\* Between the reading of its captures and the enabling of its interrupt nothing
\* takes the power from the front PIR.
FrontInv == FrontPirConfigured /\ (pc = "listen" => front_pir.enabled)

\* Steps that leave the front PIR alone and do not forget its timer.
LEMMA FrontSteps ==
  ASSUME FrontInv, UNCHANGED <<front_pir.enabled, front_pir.listening>>,
         pc' = "listen" <=> pc = "listen",
         WillRing("front_pir") => WillRing("front_pir")'
  PROVE  FrontInv'
BY DEF FrontInv, FrontPirConfigured

\* The timer of the front PIR rings by its bit.
LEMMA FrontRings ==
  /\ WillRing("front_pir") <=> Scheduled("front_pir") \/ Pending("FRONT_PIR_CONFIG")
  /\ (WillRing("front_pir") <=> Scheduled("front_pir") \/ Pending("FRONT_PIR_CONFIG"))'
BY BitsOfTimers DEF WillRing

\* Commands for another timer, and bits that come or other bits that go.
LEMMA FrontKept ==
  ASSUME FrontInv, UNCHANGED <<front_pir.enabled, front_pir.listening>>,
         pc' = "listen" <=> pc = "listen", notification \subseteq notification',
         "FRONT_PIR_CONFIG" \in bits => "FRONT_PIR_CONFIG" \in bits',
         Scheduled("front_pir") => Scheduled("front_pir")'
  PROVE  FrontInv'
BY FrontRings, FrontSteps DEF Pending

\* The front PIR has no power at first.
LEMMA FrontInit == Init => FrontInv
BY DEF Init, FrontInv, FrontPirConfigured

\* Every step keeps it.
LEMMA FrontStep ==
  ASSUME TypeInv, FrontInv, [Next]_vars
  PROVE  FrontInv'
<1>0. /\ tick \in Nat /\ commands \in Seq(Command) /\ timers \in [TimerNames -> Nat]
      /\ lights \in LightsRecord /\ "front_pir" \in TimerNames
      /\ front_pir \in [enabled : BOOLEAN, listening : BOOLEAN, line : BOOLEAN]
  BY DEF TypeInv, TypeOK, TimersType, Command, TimerNames, OtherTimers
<1>1. CASE Wait
  <2>1. /\ pc = "wait" /\ pc' = "pirs" /\ bits' = notification /\ notification' = {} /\ bits = {}
        /\ UNCHANGED <<front_pir, timers, commands>>
    BY <1>1 DEF Wait, outputs, daemon, TypeInv, RoundOver
  <2>2. WillRing("front_pir") => WillRing("front_pir")'
    BY <2>1, FrontRings DEF Pending, Scheduled
  <2>. QED  BY <2>1, <2>2, FrontSteps
<1>2. CASE DoorPir \/ FrontPir \/ VerandaPir \/ GetState \/ SendReport
  <2>1. /\ pc # "listen" /\ pc' # "listen" /\ UNCHANGED <<notification, timers, commands>>
        /\ bits \ Movements \subseteq bits'
        /\ front_pir' \in {front_pir, [front_pir EXCEPT !.line = FALSE]}
    BY <1>2 DEF DoorPir, FrontPir, CaptureRead, VerandaPir, GetState, SendReport, outputs, daemon, round, Movements
  <2>2. UNCHANGED <<front_pir.enabled, front_pir.listening>>
    BY <1>0, <2>1
  <2>. QED  BY <2>1, <2>2, FrontKept DEF Scheduled, Movements
<1>3. CASE Lightning
  <2>. DEFINE l == LightsAfterBits
              c == Start("buzzer", BuzzerMs)
              longer == Append(l.cmds, c)
  <2>1. /\ l \in LightsType /\ Lights.cmds = commands
        /\ Runs(l, "front_pir") <=> Runs(Lights, "front_pir")
    BY <1>0, LightsBegin, LightsEffect
  <2>2. c \in Command /\ c.timer = "buzzer"
    BY <1>0, StartType, BoardB02Assumption DEF TimerNames, OtherTimers
  <2>3. commands' \in {l.cmds, longer} /\ timers' = timers
    BY <1>3 DEF Lightning
  <2>. HIDE DEF l, c
  <2>4. RunsAfter(longer, timers, "front_pir") <=> Runs(l, "front_pir")
    BY <1>0, <2>1, <2>2, CommandSent DEF LightsType, Runs
  <2>. HIDE DEF longer
  <2>5. Scheduled("front_pir") => Scheduled("front_pir")'
    BY <2>1, <2>3, <2>4 DEF Runs, Scheduled
  <2>6. "FRONT_PIR_CONFIG" \notin LightBits
    BY OtherBits DEF SensorBits
  <2>. QED  BY <1>3, <2>5, <2>6, FrontKept DEF Lightning
<1>4. CASE ReadTemperature
  <2>. DEFINE c == Start("temperature", NODE_B02_TEMPERATURE_PERIOD_MS)
  <2>1. c \in Command /\ c.timer = "temperature"
    BY <1>0, StartType, BoardB02Assumption DEF TimerNames, OtherTimers
  <2>2. /\ commands' = Append(commands, c) /\ bits' = bits \ {"TEMPERATURE_SENSOR"}
        /\ UNCHANGED <<pc, notification, timers, front_pir>>
    BY <1>4 DEF ReadTemperature, outputs
  <2>. HIDE DEF c
  <2>3. Scheduled("front_pir") => Scheduled("front_pir")'
    BY <1>0, <2>1, <2>2, CommandSent DEF Scheduled
  <2>. QED  BY <2>2, <2>3, FrontKept
<1>5. CASE PowerFrontPir
  <2>1. CASE front_pir.enabled
    BY <1>0, <1>5, <2>1 DEF PowerFrontPir, FrontInv, FrontPirConfigured
  <2>2. CASE ~front_pir.enabled
    <3>. DEFINE c == Start("front_pir", FrontPirMs)
    <3>1. c \in Command /\ c.timer = "front_pir" /\ c.expiry # Off
      BY <1>0, StartType, BoardB02Assumption
    <3>2. /\ commands' = Append(commands, c) /\ timers' = timers /\ pc = "sensors" /\ pc' = pc
          /\ front_pir' = [front_pir EXCEPT !.enabled = TRUE]
      BY <1>5, <2>2 DEF PowerFrontPir
    <3>. HIDE DEF c
    <3>3. Scheduled("front_pir")'
      BY <1>0, <3>1, <3>2, CommandSent DEF Scheduled
    <3>4. WillRing("front_pir")' /\ front_pir'.enabled
      BY <1>0, <3>2, <3>3, FrontRings
    <3>. QED  BY <3>2, <3>4 DEF FrontInv, FrontPirConfigured
  <2>. QED  BY <2>1, <2>2
<1>6. CASE ConfigFrontPir
  <2>1. CASE front_pir.enabled
    BY <1>0, <1>6, <2>1 DEF ConfigFrontPir, CaptureRead, FrontInv, FrontPirConfigured
  <2>2. CASE ~front_pir.enabled
    BY <1>6, <2>2 DEF ConfigFrontPir, CaptureRead, FrontInv, FrontPirConfigured
  <2>. QED  BY <2>1, <2>2
<1>7. CASE Listen
  BY <1>0, <1>7 DEF Listen, FrontInv, FrontPirConfigured
<1>8. CASE UpdateOutputs
  <2>1. /\ pc = "outputs" /\ pc' = "wait" /\ notification \subseteq notification'
        /\ UNCHANGED <<front_pir, timers, commands>>
    BY <1>8 DEF UpdateOutputs, daemon
  <2>2. "FRONT_PIR_CONFIG" \notin bits
    BY <2>1 DEF TypeInv, RoundOver, SensorBits
  <2>. QED  BY <2>1, <2>2, FrontKept DEF Scheduled
<1>9. CASE Daemon
  <2>1. /\ notification \subseteq notification' /\ UNCHANGED <<front_pir, pc, bits>>
        /\ Scheduled("front_pir") => Scheduled("front_pir")' \/ "FRONT_PIR_CONFIG" \in notification'
    BY <1>0, <1>9, DaemonEffect, BitsOfTimers DEF Daemon, TypeInv, TypeOK, round, outputs
  <2>2. WillRing("front_pir") => WillRing("front_pir")'
    BY <2>1, FrontRings DEF Pending
  <2>. QED  BY <2>1, <2>2, FrontSteps
<1>10. CASE DisableLightning
  <2>. DEFINE c == Start("block", DisableMs)
  <2>1. /\ UNCHANGED <<front_pir, timers, bits, pc>> /\ notification \subseteq notification'
        /\ commands' = Append(commands, c)
    BY <1>10 DEF DisableLightning, Call, outputs, round
  <2>2. c \in Command /\ c.timer = "block"
    BY <1>0, StartType, BoardB02Assumption DEF TimerNames, OtherTimers
  <2>. HIDE DEF c
  <2>3. Scheduled("front_pir") => Scheduled("front_pir")'
    BY <1>0, <2>1, <2>2, CommandSent DEF Scheduled
  <2>. QED  BY <2>1, <2>3, FrontKept
<1>11. CASE FrontPirChanges
  <2>1. /\ front_pir' = [front_pir EXCEPT !.line = TRUE] /\ notification \subseteq notification'
        /\ UNCHANGED <<pc, bits, timers, commands>>
    BY <1>11 DEF FrontPirChanges, round, daemon
  <2>2. UNCHANGED <<front_pir.enabled, front_pir.listening>>
    BY <1>0, <2>1
  <2>. QED  BY <2>1, <2>2, FrontKept DEF Scheduled
<1>12. CASE \/ \E msg \in Received : ProcessNodeMsg(msg)
            \/ \E is_dark \in Darkness : ProcessPhotoresistor(is_dark)
            \/ \E m \in {"DOOR_PIR", "VERANDA_PIR"} : Interrupt(m)
            \/ Tick \/ UNCHANGED vars
  <2>1. /\ UNCHANGED <<front_pir, pc, bits, timers, commands>> /\ notification \subseteq notification'
    BY <1>12 DEF ProcessNodeMsg, ProcessPhotoresistor, Call, Interrupt, Tick, vars, outputs, round, daemon
  <2>. QED  BY <2>1, FrontKept DEF Scheduled
<1>. QED
  BY <1>1, <1>2, <1>3, <1>4, <1>5, <1>6, <1>7, <1>8, <1>9, <1>10, <1>11, <1>12
  DEF Next, TaskStep, OtherStep

\* A front PIR with power listens or is about to, one without is not listened to.
THEOREM FrontPirFollowed == Spec => []FrontPirConfigured
<1>1. FrontInv => FrontPirConfigured
  BY DEF FrontInv
<1>2. Spec => []TypeInv
  BY InitType, StepType, PTL DEF Spec
<1>. QED  BY <1>1, <1>2, FrontInit, FrontStep, PTL DEF Spec

-----------------------------------------------------------------------------
(* The outputs follow the node.                                            *)

\* The outputs do not depend on the reports.
LEMMA OutputsOfNode ==
  ASSUME NEW n \in NodeType, n.send_msg_buffer # <<>>, NEW time
  PROVE  \A output \in DOMAIN StateOf(n, time) \ {"is_msg_to_send"} :
           StateOf(GetMsg(n), time)[output] = StateOf(n, time)[output]
<1>. DEFINE m == GetMsg(n)
<1>1. m.mode = n.mode /\ m.is_dark = n.is_dark /\ m.start = n.start
  BY DEF GetMsg, NodeType
<1>. HIDE DEF m
<1>2. \A kind : Expired(m, kind, time) <=> Expired(n, kind, time)
  BY <1>1 DEF Expired
<1>3. IsLightOn(m, time) = IsLightOn(n, time) /\ IsIntrusionShown(m, time) = IsIntrusionShown(n, time)
  BY <1>1, <1>2 DEF IsLightOn, IsIntrusionShown
<1>4. (n.mode = "SILENCE_MODE" /\ ~Expired(n, "display", time))
        = (m.mode = "SILENCE_MODE" /\ ~Expired(m, "display", time))
  BY <1>1, <1>2
<1>. DEFINE s == StateOf(n, time)
            t == StateOf(m, time)
<1>5. /\ t.is_light_on = s.is_light_on /\ t.is_blue_green_on = s.is_blue_green_on
      /\ t.is_red_on = s.is_red_on /\ t.is_buzzer_on = s.is_buzzer_on
      /\ t.is_display_on = s.is_display_on /\ t.is_front_pir_on = s.is_front_pir_on
      /\ t.status_led_color = s.status_led_color
  BY <1>1, <1>3, <1>4 DEF StateOf
<1>6. DOMAIN s = {"is_light_on", "is_blue_green_on", "is_red_on", "is_buzzer_on", "is_display_on",
                  "is_front_pir_on", "status_led_color", "is_msg_to_send"}
  BY DEF StateOf
<1>. HIDE DEF s, t
<1>7. \A output \in DOMAIN s \ {"is_msg_to_send"} : t[output] = s[output]
  BY <1>5, <1>6
<1>. QED  BY <1>7 DEF m, s, t

\* What the task has asked the node for is still what the node asks for, unless
\* the task has been notified since; and all reports are sent before the
\* outputs are seen to.
Asked ==
  pc \in {"send", "outputs"} /\ notification = {} =>
    LET wanted == StateOf(node, tick_count_ms) IN
      /\ \A output \in DOMAIN wanted \ {"is_msg_to_send"} : node_state[output] = wanted[output]
      /\ pc = "outputs" => ~wanted.is_msg_to_send

ShownInv == Asked /\ LatestStateShown

\* No output is claimed to be shown before the first round.
LEMMA ShownInit == Init => ShownInv
BY DEF Init, ShownInv, Asked, LatestStateShown

\* The end of a round.
LEMMA ShownOutputs ==
  ASSUME TypeInv, ShownInv, UpdateOutputs
  PROVE  ShownInv'
<1>. DEFINE wanted == StateOf(node, tick_count_ms)
<1>1. /\ pc = "outputs" /\ pc' = "wait" /\ UNCHANGED <<node, tick_count_ms, buzzer, front_pir>>
      /\ lights \in LightsRecord /\ node_state \in StateType
      /\ front_pir.enabled \in BOOLEAN
  BY DEF UpdateOutputs, TypeInv, TypeOK
<1>2. Asked'
  BY <1>1 DEF Asked
<1>3. DOMAIN wanted = {"is_light_on", "is_blue_green_on", "is_red_on", "is_buzzer_on", "is_display_on",
                       "is_front_pir_on", "status_led_color", "is_msg_to_send"}
  BY DEF StateOf
<1>4. notification = {} =>
        /\ node_state.is_light_on = wanted.is_light_on
        /\ node_state.is_blue_green_on = wanted.is_blue_green_on
        /\ node_state.is_red_on = wanted.is_red_on
        /\ node_state.is_buzzer_on = wanted.is_buzzer_on
        /\ node_state.is_display_on = wanted.is_display_on
        /\ node_state.is_front_pir_on = wanted.is_front_pir_on
        /\ node_state.status_led_color = wanted.status_led_color
        /\ ~wanted.is_msg_to_send
  <2>. HIDE DEF wanted
  <2>. QED  BY <1>1, <1>3 DEF ShownInv, Asked, wanted
<1>. HIDE DEF wanted
<1>5. ASSUME notification' = {}
      PROVE  /\ wanted.is_buzzer_on => buzzer
             /\ front_pir.enabled = wanted.is_front_pir_on
             /\ ~wanted.is_msg_to_send
  <2>1. notification = {} /\ AlwaysWanted = {}
    BY <1>5 DEF UpdateOutputs
  <2>2. node_state.is_buzzer_on => buzzer
    BY <2>1 DEF AlwaysWanted
  <2>3. ~(node_state.is_front_pir_on # front_pir.enabled)
    BY <2>1 DEF AlwaysWanted
  <2>4. node_state.is_front_pir_on = front_pir.enabled
    BY <1>1, <2>3 DEF StateType
  <2>. QED  BY <1>4, <2>1, <2>2, <2>4
<1>6. lights'.blocked = lights.blocked
  BY <1>1 DEF UpdateOutputs, LightsRecord
<1>7. ASSUME notification' = {}, ~lights.blocked
      PROVE  /\ lights'.is_red = wanted.is_red_on
             /\ wanted.is_light_on => \A x \in Lamps : lights'.lamp[x]
             /\ wanted.is_blue_green_on => lights'.counter # 0
             /\ wanted.is_display_on => lights'.display
             /\ status_led' = wanted.status_led_color
  <2>1. /\ notification = {} /\ LightsWanted = {} /\ status_led' = node_state.status_led_color
        /\ lights' = [lights EXCEPT !.is_red = node_state.is_red_on]
    BY <1>7 DEF UpdateOutputs
  <2>2. /\ node_state.is_light_on => \A x \in Lamps : lights.lamp[x]
        /\ node_state.is_blue_green_on => lights.counter # 0
        /\ node_state.is_display_on => lights.display
    BY <2>1 DEF LightsWanted
  <2>3. /\ lights'.is_red = node_state.is_red_on /\ lights'.lamp = lights.lamp
        /\ lights'.counter = lights.counter /\ lights'.display = lights.display
    BY <1>1, <2>1 DEF LightsRecord
  <2>. QED  BY <1>4, <2>1, <2>2, <2>3
<1>8. LatestStateShown'
  BY <1>1, <1>5, <1>6, <1>7 DEF LatestStateShown, wanted
<1>. QED  BY <1>2, <1>8 DEF ShownInv

\* Every step keeps it.
LEMMA ShownStep ==
  ASSUME TypeInv, ShownInv, [Next]_vars
  PROVE  ShownInv'
<1>0. /\ node \in NodeType
      /\ pc \in {"wait", "pirs", "sensors", "listen", "send", "outputs"}
      /\ front_pir \in [enabled : BOOLEAN, listening : BOOLEAN, line : BOOLEAN]
  BY DEF TypeInv, TypeOK
<1>1. CASE pc' \in {"pirs", "sensors", "listen"}
  BY <1>1 DEF ShownInv, Asked, LatestStateShown
<1>2. CASE Wait \/ DoorPir \/ FrontPir \/ VerandaPir \/ Lightning \/ ReadTemperature
           \/ PowerFrontPir \/ ConfigFrontPir \/ Listen
  BY <1>1, <1>2 DEF Wait, DoorPir, FrontPir, VerandaPir, Lightning, ReadTemperature, PowerFrontPir,
                    ConfigFrontPir, Listen
<1>3. CASE GetState
  <2>1. /\ node_state' = StateOf(node', tick_count_ms') /\ pc' \in {"send", "outputs"}
        /\ pc' = "outputs" => ~node_state'.is_msg_to_send
    BY <1>3 DEF GetState
  <2>2. LatestStateShown'
    BY <2>1 DEF LatestStateShown
  <2>3. Asked'
    BY <2>1 DEF Asked
  <2>. QED  BY <2>2, <2>3 DEF ShownInv
<1>4. CASE SendReport
  <2>1. pc' \in {"send", "outputs"} /\ UNCHANGED <<notification, node_state, tick_count_ms>> /\ pc = "send"
    BY <1>4 DEF SendReport, round
  <2>2. LatestStateShown'
    BY <2>1 DEF LatestStateShown
  <2>3. CASE node.send_msg_buffer # <<>>
    <3>. DEFINE s == StateOf(node, tick_count_ms)
                t == StateOf(node', tick_count_ms)
    <3>1. node' = GetMsg(node) /\ pc' = "send"
      BY <1>4, <2>3 DEF SendReport
    <3>2. DOMAIN s = DOMAIN t /\ \A output \in DOMAIN s \ {"is_msg_to_send"} : t[output] = s[output]
      <4>1. DOMAIN s = DOMAIN t
        BY DEF StateOf
      <4>. HIDE DEF s, t
      <4>. QED  BY <1>0, <2>3, <3>1, <4>1, OutputsOfNode DEF s, t
    <3>3. notification = {} => \A output \in DOMAIN s \ {"is_msg_to_send"} : node_state[output] = s[output]
      BY <2>1 DEF ShownInv, Asked
    <3>. HIDE DEF s
    <3>4. notification = {} => \A output \in DOMAIN t \ {"is_msg_to_send"} : node_state[output] = t[output]
      <4>. HIDE DEF t
      <4>. QED  BY <3>2, <3>3
    <3>5. Asked'
      BY <2>1, <3>1, <3>4 DEF Asked
    <3>. QED  BY <2>2, <3>5 DEF ShownInv
  <2>4. CASE node.send_msg_buffer = <<>>
    <3>1. node' = node
      BY <1>4, <2>4 DEF SendReport
    <3>2. ~StateOf(node, tick_count_ms).is_msg_to_send
      BY <2>4 DEF StateOf
    <3>3. Asked'
      BY <2>1, <3>1, <3>2 DEF ShownInv, Asked
    <3>. QED  BY <2>2, <3>3 DEF ShownInv
  <2>. QED  BY <2>3, <2>4
<1>5. CASE UpdateOutputs
  BY <1>5, ShownOutputs
<1>6. CASE notification' # {} /\ pc' = pc
  BY <1>6 DEF ShownInv, Asked, LatestStateShown
<1>7. CASE UNCHANGED <<notification, node, pc, tick_count_ms, node_state, lights, buzzer, status_led,
                       front_pir.enabled>>
  BY <1>7 DEF ShownInv, Asked, LatestStateShown
<1>8. CASE (\E msg \in Received : ProcessNodeMsg(msg)) \/ (\E is_dark \in Darkness : ProcessPhotoresistor(is_dark))
           \/ DisableLightning
  BY <1>6, <1>8 DEF ProcessNodeMsg, ProcessPhotoresistor, DisableLightning, Call
<1>9. CASE Daemon
  <2>1. notification \subseteq notification'
    BY <1>9, DaemonEffect DEF Daemon, TypeInv, TypeOK
  <2>2. CASE notification' = {}
    BY <1>7, <1>9, <2>1, <2>2 DEF Daemon, round, outputs
  <2>. QED  BY <1>6, <1>9, <2>2 DEF Daemon
<1>10. CASE FrontPirChanges
  <2>1. front_pir'.enabled = front_pir.enabled
    BY <1>0, <1>10 DEF FrontPirChanges
  <2>2. \/ UNCHANGED notification
        \/ notification' # {}
    BY <1>10 DEF FrontPirChanges
  <2>. QED  BY <1>6, <1>7, <1>10, <2>1, <2>2 DEF FrontPirChanges, round
<1>11. CASE \E m \in {"DOOR_PIR", "VERANDA_PIR"} : Interrupt(m)
  <2>1. \/ UNCHANGED notification
        \/ notification' # {}
    BY <1>11 DEF Interrupt
  <2>. QED  BY <1>6, <1>7, <1>11, <2>1 DEF Interrupt, round, outputs
<1>12. CASE Tick \/ UNCHANGED vars
  BY <1>7, <1>12 DEF Tick, vars, round, outputs
<1>. QED
  BY <1>2, <1>3, <1>4, <1>5, <1>8, <1>9, <1>10, <1>11, <1>12 DEF Next, TaskStep, OtherStep

\* When the task sleeps, buzzer and front PIR are what the node asks for, and so
\* are the lights unless they are blocked: no change of the node escapes the task.
THEOREM StateShown == Spec => []LatestStateShown
<1>1. ShownInv => LatestStateShown
  BY DEF ShownInv
<1>2. Spec => []TypeInv
  BY InitType, StepType, PTL DEF Spec
<1>. QED  BY <1>1, <1>2, ShownInit, ShownStep, PTL DEF Spec
=============================================================================
