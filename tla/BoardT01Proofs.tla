--------------------------- MODULE BoardT01Proofs ---------------------------
(***************************************************************************)
(* Theorems about board T01, for all durations, messages, samples and      *)
(* horizons: the types, that nothing stays on for good, that the outputs   *)
(* follow the node, and that no report is dropped.                         *)
(***************************************************************************)
EXTENDS BoardT01, QueueProofs

-----------------------------------------------------------------------------
(* The node: every operation on it yields a node.                          *)

\* Forgetting start times that lie ahead, and what a sample or a message sets.
LEMMA UpdateTimeType ==
  ASSUME NEW n \in NodeType, NEW time \in Nat
  PROVE  /\ UpdateTime(n, time) \in NodeType
         /\ UpdateTime(n, time).mode = n.mode
         /\ UpdateTime(n, time).is_dark = n.is_dark
         /\ UpdateTime(n, time).send_msg_buffer = n.send_msg_buffer
BY DEF UpdateTime, NodeType, Past

\* A report is appended or dropped.
LEMMA ReportType ==
  ASSUME NEW n \in NodeType, NEW cmd \in Reports
  PROVE  /\ Report(n, cmd) \in NodeType
         /\ Len(Report(n, cmd).send_msg_buffer) \in
              {Len(n.send_msg_buffer), Len(n.send_msg_buffer) + 1}
<1>1. n.send_msg_buffer \in Seq(Reports)
  BY DEF NodeType
<1>2. /\ Append(n.send_msg_buffer, cmd) \in Seq(Reports)
      /\ Len(Append(n.send_msg_buffer, cmd)) = Len(n.send_msg_buffer) + 1
  BY <1>1, AppendProperties
<1>. DEFINE longer == Append(n.send_msg_buffer, cmd)
<1>. HIDE DEF longer
<1>3. [n EXCEPT !.send_msg_buffer = longer] \in NodeType
  BY <1>2 DEF NodeType, longer
<1>4. [n EXCEPT !.send_msg_buffer = longer].send_msg_buffer = longer
  BY DEF NodeType
<1>5. Report(n, cmd) = IF Len(n.send_msg_buffer) # SEND_MSG_BUFFER
                       THEN [n EXCEPT !.send_msg_buffer = longer] ELSE n
  BY DEF Report, longer
<1>6. Len(longer) = Len(n.send_msg_buffer) + 1
  BY <1>2 DEF longer
<1>. QED  BY <1>3, <1>4, <1>5, <1>6

\* A movement reports at most once.
LEMMA MovementType ==
  ASSUME NEW n \in NodeType, NEW time \in Nat
  PROVE  /\ ProcessMovement(n, time) \in NodeType
         /\ Len(ProcessMovement(n, time).send_msg_buffer) \in
              {Len(n.send_msg_buffer), Len(n.send_msg_buffer) + 1}
<1>. DEFINE now == UpdateTime(n, time)
            shown == IF DisplayExpired(now, time) THEN [now EXCEPT !.display_start = time] ELSE now
            lit == [shown EXCEPT !.light_start = time]
            intrusion == [now EXCEPT !.intrusion_start = time, !.light_start = time]
<1>1. now \in NodeType /\ now.send_msg_buffer = n.send_msg_buffer
  BY UpdateTimeType
<1>. HIDE DEF now
<1>2. shown \in NodeType /\ shown.send_msg_buffer = n.send_msg_buffer
  BY <1>1 DEF NodeType
<1>3. intrusion \in NodeType /\ intrusion.send_msg_buffer = n.send_msg_buffer
  BY <1>1 DEF NodeType
<1>. HIDE DEF shown
<1>4. lit \in NodeType /\ lit.send_msg_buffer = n.send_msg_buffer
  BY <1>2 DEF NodeType
<1>5. MovementInSilence(now, time) \in {shown, lit, Report(lit, "SET_LIGHT")}
  BY DEF MovementInSilence, shown
<1>6. MovementOnGuard(now, time) \in {now, Report(intrusion, "SET_INTRUSION")}
  BY DEF MovementOnGuard, StartIntrusion
<1>7. ProcessMovement(n, time) \in {now, MovementInSilence(now, time), MovementOnGuard(now, time)}
  BY DEF ProcessMovement, now
<1>. HIDE DEF lit, intrusion
<1>8. "SET_LIGHT" \in Reports /\ "SET_INTRUSION" \in Reports
  BY DEF Reports
<1>9. ProcessMovement(n, time) \in
        {now, shown, lit, Report(lit, "SET_LIGHT"), Report(intrusion, "SET_INTRUSION")}
  BY <1>5, <1>6, <1>7
<1>10. /\ Report(lit, "SET_LIGHT") \in NodeType
       /\ Len(Report(lit, "SET_LIGHT").send_msg_buffer) \in
            {Len(n.send_msg_buffer), Len(n.send_msg_buffer) + 1}
  BY <1>4, <1>8, ReportType
<1>11. /\ Report(intrusion, "SET_INTRUSION") \in NodeType
       /\ Len(Report(intrusion, "SET_INTRUSION").send_msg_buffer) \in
            {Len(n.send_msg_buffer), Len(n.send_msg_buffer) + 1}
  BY <1>3, <1>8, ReportType
<1>. QED  BY <1>1, <1>2, <1>4, <1>9, <1>10, <1>11

\* So does a measurement of the humidity, and of the door.
LEMMA MeasurementType ==
  ASSUME NEW n \in NodeType
  PROVE  /\ \A sample \in Humidities :
              /\ ProcessHumidity(n, sample) \in NodeType
              /\ Len(ProcessHumidity(n, sample).send_msg_buffer) \in
                   {Len(n.send_msg_buffer), Len(n.send_msg_buffer) + 1}
         /\ \A is_open \in BOOLEAN :
              /\ ProcessDoorState(n, is_open) \in NodeType
              /\ Len(ProcessDoorState(n, is_open).send_msg_buffer) \in
                   {Len(n.send_msg_buffer), Len(n.send_msg_buffer) + 1}
<1>1. "UPDATE_HUMIDITY" \in Reports /\ "UPDATE_DOOR_STATE" \in Reports
  BY DEF Reports
<1>2. ASSUME NEW sample \in Humidities
      PROVE  /\ ProcessHumidity(n, sample) \in NodeType
             /\ Len(ProcessHumidity(n, sample).send_msg_buffer) \in
                  {Len(n.send_msg_buffer), Len(n.send_msg_buffer) + 1}
  <2>. DEFINE sampled == [n EXCEPT !.humidity = sample]
  <2>1. sampled \in NodeType /\ sampled.send_msg_buffer = n.send_msg_buffer
    BY DEF NodeType
  <2>. HIDE DEF sampled
  <2>2. ProcessHumidity(n, sample) \in {sampled, Report(sampled, "UPDATE_HUMIDITY")}
    BY DEF ProcessHumidity, sampled
  <2>. QED  BY <1>1, <2>1, <2>2, ReportType
<1>3. ASSUME NEW is_open \in BOOLEAN
      PROVE  /\ ProcessDoorState(n, is_open) \in NodeType
             /\ Len(ProcessDoorState(n, is_open).send_msg_buffer) \in
                  {Len(n.send_msg_buffer), Len(n.send_msg_buffer) + 1}
  <2>. DEFINE read == [n EXCEPT !.is_door_open = is_open]
  <2>1. read \in NodeType /\ read.send_msg_buffer = n.send_msg_buffer
    BY DEF NodeType
  <2>. HIDE DEF read
  <2>2. ProcessDoorState(n, is_open) = Report(read, "UPDATE_DOOR_STATE")
    BY DEF ProcessDoorState, read
  <2>. QED  BY <1>1, <2>1, <2>2, ReportType
<1>. QED  BY <1>2, <1>3

\* A message reports nothing.
LEMMA MsgType ==
  ASSUME NEW n \in NodeType, NEW time \in Nat, NEW msg \in Received
  PROVE  /\ ProcessMsg(n, msg, time) \in NodeType
         /\ ProcessMsg(n, msg, time).send_msg_buffer = n.send_msg_buffer
<1>. DEFINE now == UpdateTime(n, time)
<1>1. now \in NodeType /\ now.send_msg_buffer = n.send_msg_buffer
  BY UpdateTimeType
<1>2. msg.cmd = "SET_MODE" => msg.value \in Modes
  BY BoardAssumption
<1>3. ProcessMsg(n, msg, time) \in {n, Obey(now, msg, time)}
  BY DEF ProcessMsg
<1>. HIDE DEF now
<1>. DEFINE called_off == [now EXCEPT !.intrusion_start = 0]
            lit == [now EXCEPT !.light_start = time]
            unlit == [now EXCEPT !.light_start = 0]
            warned == [now EXCEPT !.is_warning_enabled = (msg.value = "ON")]
            intrusion == [now EXCEPT !.intrusion_start = time, !.light_start = time]
            moded == [now EXCEPT !.mode = msg.value, !.display_start = 0,
                                 !.intrusion_start = 0, !.light_start = 0]
<1>4. /\ Obey(now, msg, time) \in {now, called_off, lit, unlit, warned, intrusion, moded}
      /\ Obey(now, msg, time) = moded => msg.cmd = "SET_MODE" \/ Obey(now, msg, time) \in
           {now, called_off, lit, unlit, warned, intrusion}
  BY DEF Obey, StartIntrusion
<1>5. \A n1 \in {called_off, lit, unlit, warned, intrusion} :
        n1 \in NodeType /\ n1.send_msg_buffer = now.send_msg_buffer
  <2>1. called_off \in NodeType /\ called_off.send_msg_buffer = now.send_msg_buffer
    BY <1>1 DEF NodeType
  <2>2. lit \in NodeType /\ lit.send_msg_buffer = now.send_msg_buffer
    BY <1>1 DEF NodeType
  <2>3. unlit \in NodeType /\ unlit.send_msg_buffer = now.send_msg_buffer
    BY <1>1 DEF NodeType
  <2>4. warned \in NodeType /\ warned.send_msg_buffer = now.send_msg_buffer
    BY <1>1 DEF NodeType
  <2>5. intrusion \in NodeType /\ intrusion.send_msg_buffer = now.send_msg_buffer
    BY <1>1 DEF NodeType
  <2>. HIDE DEF called_off, lit, unlit, warned, intrusion
  <2>. QED  BY <2>1, <2>2, <2>3, <2>4, <2>5
<1>6. msg.cmd = "SET_MODE" => moded \in NodeType /\ moded.send_msg_buffer = now.send_msg_buffer
  BY <1>1, <1>2 DEF NodeType
<1>. HIDE DEF called_off, lit, unlit, warned, intrusion, moded
<1>7. /\ Obey(now, msg, time) \in NodeType
      /\ Obey(now, msg, time).send_msg_buffer = now.send_msg_buffer
  BY <1>1, <1>4, <1>5, <1>6
<1>. QED  BY <1>1, <1>3, <1>7

\* A report that is handed out leaves the buffer, and changes nothing else.
LEMMA HandedOut ==
  ASSUME NEW n \in NodeType, n.send_msg_buffer # <<>>
  PROVE  /\ GetMsg(n) \in NodeType
         /\ Len(GetMsg(n).send_msg_buffer) = Len(n.send_msg_buffer) - 1
<1>. DEFINE rest == SubSeq(n.send_msg_buffer, 1, Len(n.send_msg_buffer) - 1)
<1>1. n.send_msg_buffer \in Seq(Reports) /\ Len(n.send_msg_buffer) \in Nat \ {0}
  BY EmptySeq, LenProperties DEF NodeType
<1>2. rest \in Seq(Reports) /\ Len(rest) = Len(n.send_msg_buffer) - 1
  BY <1>1, SubSeqProperties
<1>3. GetMsg(n) = [n EXCEPT !.send_msg_buffer = rest]
  BY DEF GetMsg
<1>. HIDE DEF rest
<1>. QED  BY <1>2, <1>3 DEF NodeType

-----------------------------------------------------------------------------
(* The lights: what the bits of a round make of them.                      *)

Command == [timer : TimerNames, expiry : Nat]

LightsType ==
  [light : BOOLEAN, display : BOOLEAN, stage : {"ENABLE_POWER", "DRAW_DATA", "DISABLE_POWER"},
   warning : [enabled : BOOLEAN, even : BOOLEAN, power : BOOLEAN], blocked : BOOLEAN,
   cmds : Seq(Command)]

\* Whether a timer runs, once the commands sent so far are executed.
Runs(l, timer) == RunsAfter(l.cmds, timers, timer)

\* A timer that is started runs, one that is stopped does not, and the others
\* are not affected.
LEMMA CommandSent ==
  ASSUME NEW cmds \in Seq(Command), NEW c \in Command
  PROVE  /\ Append(cmds, c) \in Seq(Command)
         /\ RunsAfter(Append(cmds, c), timers, c.timer) <=> c.expiry # Off
         /\ \A timer \in TimerNames \ {c.timer} :
              RunsAfter(Append(cmds, c), timers, timer) <=> RunsAfter(cmds, timers, timer)
BY SentRuns, SentToOther, AppendProperties

\* A start and a stop are commands for their timer, and a start leaves it running.
LEMMA StartType ==
  ASSUME NEW timer \in TimerNames, NEW period \in Nat \ {0}, tick \in Nat
  PROVE  /\ Start(timer, period) \in Command /\ Start(timer, period).timer = timer
         /\ Start(timer, period).expiry # Off
         /\ Stop(timer) \in Command /\ Stop(timer).timer = timer /\ Stop(timer).expiry = Off
BY DEF Start, Stop, Command, Off

\* A block switches everything off and stops what would have done so.
LEMMA BlockEffect ==
  ASSUME NEW l \in LightsType, tick \in Nat
  PROVE  LET b == Block(l) IN
         /\ b \in LightsType
         /\ b = l \/ ("LIGHTNING_BLOCK" \in bits /\ ~b.light /\ ~b.display /\ ~b.warning.enabled
                        /\ ~b.warning.power /\ b.blocked)
         /\ Runs(b, "block") <=> Runs(l, "block")
<1>. DEFINE s1 == Append(l.cmds, Stop("light"))
            s2 == Append(s1, Stop("warning"))
            s3 == Append(s2, Stop("display"))
            w == [l.warning EXCEPT !.enabled = FALSE, !.power = FALSE]
            off == [l EXCEPT !.blocked = TRUE, !.light = FALSE, !.display = FALSE,
                             !.warning = w, !.cmds = s3]
<1>1. l.cmds \in Seq(Command) /\ l.warning \in [enabled : BOOLEAN, even : BOOLEAN, power : BOOLEAN]
  BY DEF LightsType
<1>2. /\ Stop("light") \in Command /\ Stop("warning") \in Command /\ Stop("display") \in Command
      /\ Stop("light").timer = "light" /\ Stop("warning").timer = "warning"
      /\ Stop("display").timer = "display" /\ "block" \in TimerNames
  BY DEF TimerNames, Stop, Command, Off
<1>3. s1 \in Seq(Command) /\ (RunsAfter(s1, timers, "block") <=> RunsAfter(l.cmds, timers, "block"))
  BY <1>1, <1>2, CommandSent
<1>. HIDE DEF s1
<1>4. s2 \in Seq(Command) /\ (RunsAfter(s2, timers, "block") <=> RunsAfter(s1, timers, "block"))
  BY <1>2, <1>3, CommandSent
<1>. HIDE DEF s2
<1>5. s3 \in Seq(Command) /\ (RunsAfter(s3, timers, "block") <=> RunsAfter(s2, timers, "block"))
  BY <1>2, <1>4, CommandSent
<1>6. s3 = l.cmds \o <<Stop("light"), Stop("warning"), Stop("display")>>
  BY <1>1, <1>2 DEF s1, s2
<1>7. Block(l) \in {l, off} /\ (Block(l) = l \/ "LIGHTNING_BLOCK" \in bits)
  BY <1>6 DEF Block
<1>. HIDE DEF s3
<1>8. w \in [enabled : BOOLEAN, even : BOOLEAN, power : BOOLEAN] /\ ~w.enabled /\ ~w.power
  BY <1>1
<1>. HIDE DEF w
<1>9. /\ off \in LightsType /\ off.cmds = s3 /\ ~off.light /\ ~off.display /\ off.blocked
      /\ off.warning = w
  BY <1>5, <1>8 DEF LightsType
<1>. HIDE DEF off
<1>10. Runs(off, "block") <=> Runs(l, "block")
  BY <1>3, <1>4, <1>5, <1>9 DEF Runs
<1>. QED  BY <1>7, <1>8, <1>9, <1>10

\* The end of a block changes the flag and nothing else.
LEMMA UnblockEffect ==
  ASSUME NEW l \in LightsType
  PROVE  LET u == Unblock(l) IN
         /\ u \in LightsType
         /\ u.light = l.light /\ u.display = l.display /\ u.warning = l.warning
         /\ u.stage = l.stage /\ u.cmds = l.cmds
         /\ u.blocked => l.blocked /\ "LIGHTNING_UNBLOCK" \notin bits
BY DEF Unblock, LightsType

\* A light that is on after its bit was handled has its timer started, or the
\* bit did not come.
LEMMA ToggleEffect ==
  ASSUME NEW l \in LightsType, tick \in Nat
  PROVE  LET r == ToggleLight(l) IN
         /\ r \in LightsType
         /\ r.display = l.display /\ r.warning = l.warning /\ r.blocked = l.blocked
         /\ \A timer \in TimerNames \ {"light"} : Runs(r, timer) <=> Runs(l, timer)
         /\ r.light => Runs(r, "light") \/ (l.light /\ r = l /\ "LIGHT" \notin bits)
<1>. DEFINE c == Start("light", NODE_T01_LIGHT_DURATION_MS)
            longer == Append(l.cmds, c)
            dark == [l EXCEPT !.light = FALSE]
            lit == [l EXCEPT !.light = TRUE, !.cmds = longer]
<1>1. "light" \in TimerNames /\ l.cmds \in Seq(Command)
  BY DEF TimerNames, LightsType
<1>2. c \in Command /\ c.timer = "light" /\ c.expiry # Off
  BY <1>1, StartType, DurationAssumption
<1>. HIDE DEF c
<1>3. /\ longer \in Seq(Command) /\ RunsAfter(longer, timers, "light")
      /\ \A timer \in TimerNames \ {"light"} :
           RunsAfter(longer, timers, timer) <=> RunsAfter(l.cmds, timers, timer)
  BY <1>1, <1>2, CommandSent
<1>4. \/ ToggleLight(l) = l /\ "LIGHT" \notin bits
      \/ ToggleLight(l) = dark
      \/ ToggleLight(l) = lit
  BY DEF ToggleLight, c
<1>. HIDE DEF longer
<1>5. /\ dark \in LightsType /\ ~dark.light /\ dark.display = l.display /\ dark.warning = l.warning
      /\ dark.blocked = l.blocked /\ dark.cmds = l.cmds
  BY DEF LightsType
<1>6. /\ lit \in LightsType /\ lit.display = l.display /\ lit.warning = l.warning
      /\ lit.blocked = l.blocked /\ lit.cmds = longer
  BY <1>3 DEF LightsType
<1>. HIDE DEF dark, lit
<1>. QED  BY <1>3, <1>4, <1>5, <1>6 DEF Runs

\* The warning LED is off, or its timer is started, or its bit did not come.
LEMMA BlinkEffect ==
  ASSUME NEW l \in LightsType, tick \in Nat
  PROVE  LET r == BlinkWarning(l) IN
         /\ r \in LightsType
         /\ r.light = l.light /\ r.display = l.display /\ r.blocked = l.blocked
         /\ r.warning.enabled = l.warning.enabled
         /\ \A timer \in TimerNames \ {"warning"} : Runs(r, timer) <=> Runs(l, timer)
         /\ r.warning.enabled \/ r.warning.power =>
              Runs(r, "warning") \/ (r = l /\ "WARNING_LED" \notin bits)
<1>. DEFINE period == IF l.warning.even THEN WarningOnMs ELSE WarningOffMs
            c == Start("warning", period)
            longer == Append(l.cmds, c)
            off == [l.warning EXCEPT !.power = FALSE]
            next == [l.warning EXCEPT !.power = l.warning.even, !.even = ~@]
            dark == [l EXCEPT !.warning = off]
            blink == [l EXCEPT !.warning = next, !.cmds = longer]
<1>1. /\ "warning" \in TimerNames /\ l.cmds \in Seq(Command)
      /\ l.warning \in [enabled : BOOLEAN, even : BOOLEAN, power : BOOLEAN]
  BY DEF TimerNames, LightsType
<1>2. period \in Nat \ {0}
  BY BoardAssumption
<1>3. c \in Command /\ c.timer = "warning" /\ c.expiry # Off
  BY <1>1, <1>2, StartType
<1>4. /\ longer \in Seq(Command) /\ RunsAfter(longer, timers, "warning")
      /\ \A timer \in TimerNames \ {"warning"} :
           RunsAfter(longer, timers, timer) <=> RunsAfter(l.cmds, timers, timer)
  <2>. HIDE DEF c
  <2>. QED  BY <1>1, <1>3, CommandSent
<1>5. /\ off \in [enabled : BOOLEAN, even : BOOLEAN, power : BOOLEAN]
      /\ off.enabled = l.warning.enabled /\ ~off.power
      /\ next \in [enabled : BOOLEAN, even : BOOLEAN, power : BOOLEAN]
      /\ next.enabled = l.warning.enabled
  BY <1>1
<1>6. \/ BlinkWarning(l) = l /\ "WARNING_LED" \notin bits
      \/ BlinkWarning(l) = dark /\ ~l.warning.enabled
      \/ BlinkWarning(l) = blink
  BY DEF BlinkWarning
<1>. HIDE DEF longer, off, next
<1>7. /\ dark \in LightsType /\ dark.light = l.light /\ dark.display = l.display
      /\ dark.blocked = l.blocked /\ dark.cmds = l.cmds /\ dark.warning = off
  BY <1>5 DEF LightsType
<1>8. /\ blink \in LightsType /\ blink.light = l.light /\ blink.display = l.display
      /\ blink.blocked = l.blocked /\ blink.cmds = longer /\ blink.warning = next
  BY <1>4, <1>5 DEF LightsType
<1>. HIDE DEF dark, blink
<1>. QED  BY <1>4, <1>5, <1>6, <1>7, <1>8 DEF Runs

\* The display is off, or its timer is started, or its bit did not come.
LEMMA DrawEffect ==
  ASSUME NEW l \in LightsType, tick \in Nat
  PROVE  LET r == DrawDisplay(l) IN
         /\ r \in LightsType
         /\ r.light = l.light /\ r.warning = l.warning /\ r.blocked = l.blocked
         /\ \A timer \in TimerNames \ {"display"} : Runs(r, timer) <=> Runs(l, timer)
         /\ r.display => Runs(r, "display") \/ (r = l /\ "DISPLAY" \notin bits)
<1>. DEFINE booting == Append(l.cmds, Start("display", DisplayBootMs))
            showing == Append(l.cmds, Start("display", NODE_T01_DISPLAY_DURATION_MS))
            boot == [l EXCEPT !.stage = "DRAW_DATA", !.display = TRUE, !.cmds = booting]
            show == [l EXCEPT !.stage = "DISABLE_POWER", !.cmds = showing]
            off == [l EXCEPT !.stage = "ENABLE_POWER", !.display = FALSE]
<1>1. "display" \in TimerNames /\ l.cmds \in Seq(Command)
  BY DEF TimerNames, LightsType
<1>2. /\ DisplayBootMs \in Nat \ {0} /\ NODE_T01_DISPLAY_DURATION_MS \in Nat \ {0}
  BY BoardAssumption, DurationAssumption
<1>3. /\ booting \in Seq(Command) /\ RunsAfter(booting, timers, "display")
      /\ \A timer \in TimerNames \ {"display"} :
           RunsAfter(booting, timers, timer) <=> RunsAfter(l.cmds, timers, timer)
  BY <1>1, <1>2, CommandSent, StartType
<1>4. /\ showing \in Seq(Command) /\ RunsAfter(showing, timers, "display")
      /\ \A timer \in TimerNames \ {"display"} :
           RunsAfter(showing, timers, timer) <=> RunsAfter(l.cmds, timers, timer)
  BY <1>1, <1>2, CommandSent, StartType
<1>5. \/ DrawDisplay(l) = l /\ "DISPLAY" \notin bits
      \/ DrawDisplay(l) = boot
      \/ DrawDisplay(l) = show
      \/ DrawDisplay(l) = off
  BY DEF DrawDisplay, LightsType
<1>. HIDE DEF booting, showing
<1>6. /\ boot \in LightsType /\ boot.light = l.light /\ boot.warning = l.warning
      /\ boot.blocked = l.blocked /\ boot.cmds = booting
  BY <1>3 DEF LightsType
<1>7. /\ show \in LightsType /\ show.light = l.light /\ show.warning = l.warning
      /\ show.blocked = l.blocked /\ show.cmds = showing
  BY <1>4 DEF LightsType
<1>8. /\ off \in LightsType /\ off.light = l.light /\ off.warning = l.warning
      /\ off.blocked = l.blocked /\ off.cmds = l.cmds /\ ~off.display
  BY DEF LightsType
<1>. HIDE DEF boot, show, off
<1>. QED  BY <1>3, <1>4, <1>5, <1>6, <1>7, <1>8 DEF Runs

\* All of it, in the order of the code: what is on afterwards has its timer
\* running, or was on before and its bit did not come.
LEMMA LightsEffect ==
  ASSUME Lights \in LightsType, tick \in Nat
  PROVE  LET r == LightsAfterBits IN
         /\ r \in LightsType
         /\ r.light => Runs(r, "light") \/
              (Lights.light /\ "LIGHT" \notin bits /\ (Runs(Lights, "light") <=> Runs(r, "light")))
         /\ r.display => Runs(r, "display") \/
              (Lights.display /\ "DISPLAY" \notin bits /\ (Runs(Lights, "display") <=> Runs(r, "display")))
         /\ r.warning.enabled \/ r.warning.power => Runs(r, "warning") \/
              /\ Lights.warning.enabled \/ Lights.warning.power
              /\ "WARNING_LED" \notin bits /\ (Runs(Lights, "warning") <=> Runs(r, "warning"))
         /\ r.blocked => /\ "LIGHTNING_UNBLOCK" \notin bits
                         /\ Lights.blocked \/ "LIGHTNING_BLOCK" \in bits
         /\ Runs(r, "block") <=> Runs(Lights, "block")
<1>. DEFINE l1 == Block(Lights)
            l2 == Unblock(l1)
            l3 == ToggleLight(l2)
            l4 == BlinkWarning(l3)
            l5 == DrawDisplay(l4)
<1>0. {"light", "display", "warning", "block"} \subseteq TimerNames
  BY DEF TimerNames
<1>1. /\ l1 \in LightsType
      /\ l1 = Lights \/ ("LIGHTNING_BLOCK" \in bits /\ ~l1.light /\ ~l1.display /\ ~l1.warning.enabled
                        /\ ~l1.warning.power /\ l1.blocked)
      /\ Runs(l1, "block") <=> Runs(Lights, "block")
  BY BlockEffect
<1>. HIDE DEF l1
<1>2. /\ l2 \in LightsType
      /\ l2.light = l1.light /\ l2.display = l1.display /\ l2.warning = l1.warning
      /\ \A timer \in TimerNames : Runs(l2, timer) <=> Runs(l1, timer)
      /\ l2.blocked => l1.blocked /\ "LIGHTNING_UNBLOCK" \notin bits
  BY <1>1, UnblockEffect DEF Runs
<1>. HIDE DEF l2
<1>3. /\ l3 \in LightsType
      /\ l3.display = l2.display /\ l3.warning = l2.warning /\ l3.blocked = l2.blocked
      /\ \A timer \in TimerNames \ {"light"} : Runs(l3, timer) <=> Runs(l2, timer)
      /\ l3.light => Runs(l3, "light") \/ (l2.light /\ l3 = l2 /\ "LIGHT" \notin bits)
  BY <1>2, ToggleEffect
<1>. HIDE DEF l3
<1>4. /\ l4 \in LightsType
      /\ l4.light = l3.light /\ l4.display = l3.display /\ l4.blocked = l3.blocked
      /\ l4.warning.enabled = l3.warning.enabled
      /\ \A timer \in TimerNames \ {"warning"} : Runs(l4, timer) <=> Runs(l3, timer)
      /\ l4.warning.enabled \/ l4.warning.power =>
              Runs(l4, "warning") \/ (l4 = l3 /\ "WARNING_LED" \notin bits)
  BY <1>3, BlinkEffect
<1>. HIDE DEF l4
<1>5. /\ l5 \in LightsType
      /\ l5.light = l4.light /\ l5.warning = l4.warning /\ l5.blocked = l4.blocked
      /\ \A timer \in TimerNames \ {"display"} : Runs(l5, timer) <=> Runs(l4, timer)
      /\ l5.display => Runs(l5, "display") \/ (l5 = l4 /\ "DISPLAY" \notin bits)
  BY <1>4, DrawEffect
<1>6. l5 = LightsAfterBits
  BY DEF LightsAfterBits, l1, l2, l3, l4
<1>. HIDE DEF l5
<1>. SUFFICES
       /\ l5 \in LightsType
       /\ l5.light => Runs(l5, "light") \/
            (Lights.light /\ "LIGHT" \notin bits /\ (Runs(Lights, "light") <=> Runs(l5, "light")))
       /\ l5.display => Runs(l5, "display") \/
            (Lights.display /\ "DISPLAY" \notin bits /\ (Runs(Lights, "display") <=> Runs(l5, "display")))
       /\ l5.warning.enabled \/ l5.warning.power => Runs(l5, "warning") \/
            /\ Lights.warning.enabled \/ Lights.warning.power
            /\ "WARNING_LED" \notin bits /\ (Runs(Lights, "warning") <=> Runs(l5, "warning"))
       /\ l5.blocked => /\ "LIGHTNING_UNBLOCK" \notin bits
                        /\ Lights.blocked \/ "LIGHTNING_BLOCK" \in bits
       /\ Runs(l5, "block") <=> Runs(Lights, "block")
  BY <1>6
<1>7. l5.light => Runs(l5, "light") \/
        (Lights.light /\ "LIGHT" \notin bits /\ (Runs(Lights, "light") <=> Runs(l5, "light")))
  BY <1>0, <1>1, <1>2, <1>3, <1>4, <1>5
<1>8. l5.display => Runs(l5, "display") \/
        (Lights.display /\ "DISPLAY" \notin bits /\ (Runs(Lights, "display") <=> Runs(l5, "display")))
  BY <1>0, <1>1, <1>2, <1>3, <1>4, <1>5
<1>9. l5.warning.enabled \/ l5.warning.power => Runs(l5, "warning") \/
            /\ Lights.warning.enabled \/ Lights.warning.power
            /\ "WARNING_LED" \notin bits /\ (Runs(Lights, "warning") <=> Runs(l5, "warning"))
  BY <1>0, <1>1, <1>2, <1>3, <1>4, <1>5
<1>10. l5.blocked => /\ "LIGHTNING_UNBLOCK" \notin bits
                     /\ Lights.blocked \/ "LIGHTNING_BLOCK" \in bits
  BY <1>1, <1>2, <1>3, <1>4, <1>5
<1>11. Runs(l5, "block") <=> Runs(Lights, "block")
  BY <1>0, <1>1, <1>2, <1>3, <1>4, <1>5
<1>. QED  BY <1>5, <1>7, <1>8, <1>9, <1>10, <1>11

-----------------------------------------------------------------------------
(* The types.                                                              *)

StateType ==
  [is_light_on : BOOLEAN, is_display_on : BOOLEAN, is_warning_led_on : BOOLEAN,
   status_led_color : {"GREEN_COLOR", "RED_COLOR"}, is_msg_to_send : BOOLEAN]

TypeInv == TypeOK /\ node_state \in StateType

\* The outputs computed from a node are outputs.
LEMMA StateOfType ==
  ASSUME NEW n, NEW time
  PROVE  StateOf(n, time) \in StateType
<1>1. /\ IsLightOn(n, time) \in BOOLEAN /\ IsDisplayOn(n, time) \in BOOLEAN
      /\ IsWarningLedOn(n, time) \in BOOLEAN
  BY DEF IsLightOn, IsDisplayOn, IsWarningLedOn
<1>. QED  BY <1>1 DEF StateOf, StateType

\* The bit each timer notifies.
LEMMA BitsOfTimers ==
  /\ BitOf("block") = "LIGHTNING_UNBLOCK" /\ BitOf("light") = "LIGHT"
  /\ BitOf("warning") = "WARNING_LED" /\ BitOf("display") = "DISPLAY"
  /\ \A timer \in TimerNames : BitOf(timer) \in Bits
  /\ {"PIR", "REED_SWITCH", "LIGHT", "WARNING_LED", "DISPLAY", "LIGHTNING_BLOCK", "UPDATE_STATE"} \subseteq Bits
<1>1. BitOf("block") = "LIGHTNING_UNBLOCK"
  BY DEF BitOf
<1>2. BitOf("light") = "LIGHT"
  BY DEF BitOf
<1>3. BitOf("warning") = "WARNING_LED"
  BY DEF BitOf
<1>4. BitOf("display") = "DISPLAY"
  BY DEF BitOf
<1>5. BitOf("reed") = "REED_SWITCH"
  BY DEF BitOf
<1>6. {"light", "warning", "display", "reed"} \subseteq TimerNames
  BY DEF TimerNames
<1>. QED  BY <1>1, <1>2, <1>3, <1>4, <1>5, <1>6 DEF Bits

\* The daemon forgets no timer: it runs on, or its bit is notified.
LEMMA DaemonEffect ==
  ASSUME TimersType, notification \subseteq Bits,
         ExecuteCommand \/ \E timer \in TimerNames : ExpireTimer(timer)
  PROVE  /\ TimersType'
         /\ notification \subseteq notification' /\ notification' \subseteq Bits
         /\ \A timer \in TimerNames :
              Scheduled(timer) => Scheduled(timer)' \/ BitOf(timer) \in notification'
<1>. SUFFICES
       /\ timers' \in [TimerNames -> Nat] /\ commands' \in Seq(Command)
       /\ notification \subseteq notification' /\ notification' \subseteq Bits
       /\ \A timer \in TimerNames : RunsAfter(commands, timers, timer) =>
            RunsAfter(commands', timers', timer) \/ BitOf(timer) \in notification'
  BY DEF TimersType, Scheduled, Command
<1>1. timers \in [TimerNames -> Nat] /\ commands \in Seq(Command)
  BY DEF TimersType, Command
<1>2. CASE ExecuteCommand
  <2>. DEFINE command == Head(commands)
  <2>1. commands # <<>> /\ commands' = Tail(commands)
    BY <1>2 DEF ExecuteCommand
  <2>2. command \in Command /\ Tail(commands) \in Seq(Command)
    BY <1>1, <2>1, HeadTailProperties
  <2>3. CASE timers' = [timers EXCEPT ![command.timer] = Off]
             /\ notification' = notification \cup {BitOf(command.timer)}
    <3>1. ASSUME NEW timer \in TimerNames, RunsAfter(commands, timers, timer)
          PROVE  RunsAfter(commands', timers', timer) \/ BitOf(timer) \in notification'
      <4>1. CASE timer = command.timer
        BY <2>3, <4>1
      <4>2. CASE timer # command.timer
        <5>1. timers'[timer] = timers[timer]
          BY <1>1, <2>3, <4>2
        <5>. QED  BY <1>1, <2>1, <3>1, <4>2, <5>1, ExecutedOther
      <4>. QED  BY <4>1, <4>2
    <3>. QED  BY <1>1, <2>1, <2>2, <2>3, <3>1, BitsOfTimers DEF Command, Off
  <2>4. CASE timers' = [timers EXCEPT ![command.timer] = command.expiry]
             /\ notification' = notification
    <3>1. ASSUME NEW timer \in TimerNames, RunsAfter(commands, timers, timer)
          PROVE  RunsAfter(commands', timers', timer)
      <4>1. CASE timer = command.timer
        <5>1. command.timer \in TimerNames
          BY <2>2 DEF Command
        <5>. QED  BY <1>1, <2>1, <2>4, <3>1, <4>1, <5>1, ExecutedRuns
      <4>2. CASE timer # command.timer
        <5>1. timers'[timer] = timers[timer]
          BY <1>1, <2>4, <4>2
        <5>. QED  BY <1>1, <2>1, <3>1, <4>2, <5>1, ExecutedOther
      <4>. QED  BY <4>1, <4>2
    <3>. QED  BY <1>1, <2>1, <2>2, <2>4, <3>1 DEF Command
  <2>. QED  BY <1>2, <2>3, <2>4 DEF ExecuteCommand, Fire
<1>3. ASSUME NEW expired \in TimerNames, ExpireTimer(expired)
      PROVE  /\ timers' \in [TimerNames -> Nat] /\ commands' \in Seq(Command)
             /\ notification \subseteq notification' /\ notification' \subseteq Bits
             /\ \A timer \in TimerNames : RunsAfter(commands, timers, timer) =>
                  RunsAfter(commands', timers', timer) \/ BitOf(timer) \in notification'
  <2>1. /\ timers' = [timers EXCEPT ![expired] = Off] /\ commands' = commands
        /\ notification' = notification \cup {BitOf(expired)}
    BY <1>3 DEF ExpireTimer, Fire
  <2>2. ASSUME NEW timer \in TimerNames, RunsAfter(commands, timers, timer), timer # expired
        PROVE  RunsAfter(commands', timers', timer)
    <3>1. timers'[timer] = timers[timer]
      BY <1>1, <2>1, <2>2
    <3>. QED  BY <2>1, <2>2, <3>1, RunsAlone
  <2>. QED  BY <1>1, <2>1, <2>2, BitsOfTimers DEF Off
<1>. QED  BY <1>2, <1>3

\* The state board_T01_init leaves is well typed.
LEMMA InitType == Init => TypeInv
<1>. SUFFICES ASSUME Init PROVE TypeInv
  OBVIOUS
<1>1. tick \in Nat
  BY DEF Init
<1>2. "humidity" \in TimerNames /\ NODE_T01_HUMIDITY_PERIOD_MS \in Nat \ {0}
  BY BoardAssumption DEF TimerNames
<1>3. commands \in Seq(Command)
  BY <1>1, <1>2, StartType DEF Init
<1>4. timers \in [TimerNames -> Nat]
  BY DEF Init, Off
<1>5. node \in NodeType
  BY DEF Init, NodeInit, NodeType, Modes, Humidities
<1>6. warning \in [enabled : BOOLEAN, even : BOOLEAN, power : BOOLEAN]
  BY DEF Init
<1>7. last_tick \in [Interrupts -> 0..tick]
  BY DEF Init
<1>8. node_state \in StateType
  BY StateOfType DEF Init, NoState
<1>9. TimersType
  BY <1>3, <1>4 DEF TimersType, Command
<1>10. tick \in 0..HorizonMs /\ tick_count_ms \in 0..tick /\ calls \in 0..MaxCalls
  BY BoardAssumption DEF Init
<1>11. /\ notification \subseteq Bits /\ bits \subseteq Bits
       /\ pc \in {"wait", "pir", "lightning", "sensors", "send", "outputs"}
       /\ light \in BOOLEAN /\ display \in BOOLEAN /\ blocked \in BOOLEAN /\ inputs_ready \in BOOLEAN
       /\ stage \in {"ENABLE_POWER", "DRAW_DATA", "DISABLE_POWER"}
       /\ status_led \in {"NO_COLOR", "GREEN_COLOR", "RED_COLOR"}
  BY DEF Init
<1>. QED
  BY <1>5, <1>6, <1>7, <1>8, <1>9, <1>10, <1>11 DEF TypeInv, TypeOK

\* What the task's steps, the daemon and the other tasks make of the types.
LEMMA StepType ==
  ASSUME TypeInv, [Next]_vars
  PROVE  TypeInv'
<1>. USE DEF TypeInv
<1>0. /\ tick \in Nat /\ commands \in Seq(Command) /\ timers \in [TimerNames -> Nat]
      /\ tick_count_ms \in Nat
  BY BoardAssumption DEF TypeOK, TimersType, Command
<1>1. CASE Wait
  BY <1>1 DEF Wait, TypeOK, lights, daemon, inputs, TimersType
<1>2. CASE Pir
  <2>1. node' \in NodeType
    BY <1>0, <1>2, MovementType DEF Pir, TypeOK
  <2>. QED  BY <1>2, <2>1 DEF Pir, TypeOK, lights, daemon, inputs, round, TimersType
<1>3. CASE Lightning
  <2>1. LightsAfterBits \in LightsType
    BY <1>0, LightsEffect DEF Lights, LightsType, TypeOK
  <2>2. /\ light' \in BOOLEAN /\ display' \in BOOLEAN /\ blocked' \in BOOLEAN
        /\ stage' \in {"ENABLE_POWER", "DRAW_DATA", "DISABLE_POWER"}
        /\ warning' \in [enabled : BOOLEAN, even : BOOLEAN, power : BOOLEAN]
        /\ commands' \in Seq(Command)
    BY <1>3, <2>1 DEF Lightning, LightsType
  <2>. QED  BY <1>0, <1>3, <2>2 DEF Lightning, TypeOK, inputs, round, TimersType, Command
<1>4. CASE ReadHumidity
  <2>1. node' \in NodeType
    BY <1>4, MeasurementType, BoardAssumption DEF ReadHumidity, TypeOK
  <2>2. commands' \in Seq(Command)
    <3>1. /\ Start("humidity", NODE_T01_HUMIDITY_PERIOD_MS) \in Command
          /\ Start("reed", DoorMs) \in Command
      BY <1>0, StartType, BoardAssumption DEF TimerNames
    <3>2. /\ <<Start("humidity", NODE_T01_HUMIDITY_PERIOD_MS)>> \in Seq(Command)
          /\ <<Start("reed", DoorMs)>> \in Seq(Command) /\ <<>> \in Seq(Command)
      BY <3>1
    <3>. QED  BY <1>0, <1>4, <3>2, ConcatProperties DEF ReadHumidity
  <2>. QED  BY <1>0, <1>4, <2>1, <2>2 DEF ReadHumidity, TypeOK, lights, TimersType, Command
<1>5. CASE ReadReedSwitch
  <2>1. node' \in NodeType
    BY <1>5, MeasurementType DEF ReadReedSwitch, TypeOK
  <2>2. commands' \in Seq(Command)
    <3>1. Start("reed", NODE_T01_DOOR_STATE_PERIOD_MS) \in Command
      BY <1>0, StartType, BoardAssumption DEF TimerNames
    <3>. QED  BY <1>0, <1>5, <3>1, AppendProperties DEF ReadReedSwitch
  <2>. QED  BY <1>0, <1>5, <2>1, <2>2 DEF ReadReedSwitch, TypeOK, lights, inputs, TimersType, Command
<1>6. CASE GetState
  <2>1. node' \in NodeType /\ node_state' \in StateType
    BY <1>0, <1>6, UpdateTimeType, StateOfType DEF GetState, TypeOK
  <2>. QED  BY <1>6, <2>1 DEF GetState, TypeOK, lights, daemon, inputs, TimersType
<1>7. CASE SendReport
  <2>1. node' \in NodeType
    BY <1>7, HandedOut DEF SendReport, TypeOK
  <2>. QED  BY <1>7, <2>1 DEF SendReport, TypeOK, lights, daemon, inputs, round, TimersType
<1>8. CASE UpdateOutputs
  <2>1. SelfNotified \subseteq Bits
    BY BitsOfTimers DEF SelfNotified
  <2>2. node_state' \in StateType
    BY <1>8, StateOfType DEF UpdateOutputs, NoState
  <2>3. warning' \in [enabled : BOOLEAN, even : BOOLEAN, power : BOOLEAN]
    BY <1>8 DEF UpdateOutputs, TypeOK, StateType
  <2>4. status_led' \in {"NO_COLOR", "GREEN_COLOR", "RED_COLOR"}
    BY <1>8 DEF UpdateOutputs, TypeOK, StateType
  <2>5. notification' \subseteq Bits
    BY <1>8, <2>1 DEF UpdateOutputs, TypeOK
  <2>. QED
    BY <1>8, <2>2, <2>3, <2>4, <2>5 DEF UpdateOutputs, TypeOK, daemon, inputs, TimersType
<1>9. CASE Daemon
  <2>1. TimersType' /\ notification' \subseteq Bits
    BY <1>9, DaemonEffect DEF Daemon, TypeOK
  <2>. QED  BY <1>9, <2>1 DEF Daemon, TypeOK, round, lights, inputs
<1>10. ASSUME NEW msg \in Received, ProcessNodeMsg(msg)
       PROVE  TypeInv'
  <2>1. node' \in NodeType
    BY <1>0, <1>10, MsgType DEF ProcessNodeMsg, TypeOK
  <2>. QED  BY <1>10, <2>1, BitsOfTimers, BoardAssumption
            DEF ProcessNodeMsg, Call, TypeOK, round, lights, inputs, TimersType
<1>11. ASSUME NEW is_dark \in Darkness, ProcessPhotoresistor(is_dark)
       PROVE  TypeInv'
  <2>1. node' \in NodeType
    BY <1>11, BoardAssumption DEF ProcessPhotoresistor, ProcessLuminosity, TypeOK, NodeType
  <2>. QED  BY <1>11, <2>1, BitsOfTimers, BoardAssumption
            DEF ProcessPhotoresistor, Call, TypeOK, round, lights, inputs, TimersType
<1>12. CASE DisableLightning
  <2>1. commands' \in Seq(Command)
    <3>1. Start("block", DisableMs) \in Command
      BY <1>0, StartType, BoardAssumption DEF TimerNames
    <3>. QED  BY <1>0, <1>12, <3>1, AppendProperties DEF DisableLightning
  <2>. QED  BY <1>0, <1>12, <2>1, BitsOfTimers, BoardAssumption
            DEF DisableLightning, Call, TypeOK, round, lights, inputs, TimersType, Command
<1>13. CASE Tick
  BY <1>13, BoardAssumption DEF Tick, TypeOK, round, lights, daemon, inputs, TimersType
<1>14. ASSUME NEW i \in Interrupts, Interrupt(i)
       PROVE  TypeInv'
  BY <1>14, BitsOfTimers DEF Interrupt, Interrupts, TypeOK, round, lights, daemon, TimersType
<1>15. CASE UNCHANGED vars
  BY <1>15 DEF vars, TypeOK, round, lights, daemon, inputs, TimersType
<1>. QED
  BY <1>1, <1>2, <1>3, <1>4, <1>5, <1>6, <1>7, <1>8, <1>9, <1>10, <1>11, <1>12, <1>13, <1>14, <1>15
  DEF Next, TaskStep, OtherStep

\* Every variable keeps its type: the node's record through all of its
\* functions, the lights through the bits of a round, the queue of commands.
THEOREM TypeCorrect == Spec => []TypeOK
<1>1. TypeInv => TypeOK
  BY DEF TypeInv
<1>. QED  BY <1>1, InitType, StepType, PTL DEF Spec

-----------------------------------------------------------------------------
(* Nothing stays on for good.                                              *)

\* A block that is still to begin has its end in sight, and if the task has not
\* taken its beginning it has not taken its end either: otherwise the block
\* would begin after its end.
LeftOnInv ==
  /\ NothingLeftOn
  /\ Pending("LIGHTNING_BLOCK") => WillRing("block")
  /\ "LIGHTNING_BLOCK" \in notification =>
        Scheduled("block") \/ "LIGHTNING_UNBLOCK" \in notification

\* The timers whose bits switch something off.
Switches == {"light", "display", "warning", "block"}

\* Steps that leave the lights alone and make no timer forgotten.
LEMMA NothingForgotten ==
  ASSUME LeftOnInv, UNCHANGED <<light, display, warning, blocked>>,
         \A timer \in Switches : WillRing(timer) => WillRing(timer)',
         Pending("LIGHTNING_BLOCK")' => Pending("LIGHTNING_BLOCK"),
         "LIGHTNING_BLOCK" \in notification' =>
           Scheduled("block")' \/ "LIGHTNING_UNBLOCK" \in notification'
  PROVE  LeftOnInv'
<1>1. /\ WillRing("light") => WillRing("light")'
      /\ WillRing("display") => WillRing("display")'
      /\ WillRing("warning") => WillRing("warning")'
      /\ WillRing("block") => WillRing("block")'
  BY DEF Switches
<1>2. LightNeverStuck'
  BY <1>1 DEF LeftOnInv, NothingLeftOn, LightNeverStuck
<1>3. DisplayNeverStuck'
  BY <1>1 DEF LeftOnInv, NothingLeftOn, DisplayNeverStuck
<1>4. WarningNeverStuck'
  BY <1>1 DEF LeftOnInv, NothingLeftOn, WarningNeverStuck
<1>5. BlockNeverStuck'
  BY <1>1 DEF LeftOnInv, NothingLeftOn, BlockNeverStuck
<1>. QED  BY <1>1, <1>2, <1>3, <1>4, <1>5 DEF LeftOnInv, NothingLeftOn

\* What rings is scheduled or pending, and a bit is pending until the step
\* Lightning handles it.
LEMMA RingingBits ==
  /\ WillRing("light") <=> Scheduled("light") \/ Pending("LIGHT")
  /\ WillRing("display") <=> Scheduled("display") \/ Pending("DISPLAY")
  /\ WillRing("warning") <=> Scheduled("warning") \/ Pending("WARNING_LED")
  /\ WillRing("block") <=> Scheduled("block") \/ Pending("LIGHTNING_UNBLOCK")
  /\ (WillRing("light") <=> Scheduled("light") \/ Pending("LIGHT"))'
  /\ (WillRing("display") <=> Scheduled("display") \/ Pending("DISPLAY"))'
  /\ (WillRing("warning") <=> Scheduled("warning") \/ Pending("WARNING_LED"))'
  /\ (WillRing("block") <=> Scheduled("block") \/ Pending("LIGHTNING_UNBLOCK"))'
  /\ \A timer \in Switches : (WillRing(timer) <=> Scheduled(timer) \/ Pending(BitOf(timer)))
  /\ \A timer \in Switches : (WillRing(timer)' <=> Scheduled(timer)' \/ Pending(BitOf(timer))')
BY BitsOfTimers DEF WillRing

\* Nothing is switched on at the start.
LEMMA LeftOnInit == Init => LeftOnInv
BY DEF Init, LeftOnInv, NothingLeftOn, LightNeverStuck, DisplayNeverStuck, WarningNeverStuck,
       BlockNeverStuck, Pending

\* The step that handles the bits.
LEMMA LeftOnLightning ==
  ASSUME TypeInv, LeftOnInv, Lightning
  PROVE  LeftOnInv'
<1>. DEFINE r == LightsAfterBits
<1>0. tick \in Nat /\ Lights \in LightsType
  BY BoardAssumption DEF TypeInv, TypeOK, TimersType, Lights, LightsType, Command
<1>1. /\ r.light => Runs(r, "light") \/
           (Lights.light /\ "LIGHT" \notin bits /\ (Runs(Lights, "light") <=> Runs(r, "light")))
      /\ r.display => Runs(r, "display") \/
           (Lights.display /\ "DISPLAY" \notin bits /\ (Runs(Lights, "display") <=> Runs(r, "display")))
      /\ r.warning.enabled \/ r.warning.power => Runs(r, "warning") \/
           /\ Lights.warning.enabled \/ Lights.warning.power
           /\ "WARNING_LED" \notin bits /\ (Runs(Lights, "warning") <=> Runs(r, "warning"))
      /\ r.blocked => /\ "LIGHTNING_UNBLOCK" \notin bits
                      /\ Lights.blocked \/ "LIGHTNING_BLOCK" \in bits
      /\ Runs(r, "block") <=> Runs(Lights, "block")
  BY <1>0, LightsEffect
<1>. HIDE DEF r
<1>2. /\ light' = r.light /\ display' = r.display /\ warning' = r.warning /\ blocked' = r.blocked
      /\ commands' = r.cmds /\ timers' = timers /\ notification' = notification /\ bits' = bits
      /\ pc = "lightning" /\ pc' = "sensors"
  BY DEF Lightning, round, r
<1>3. /\ Lights.light = light /\ Lights.display = display /\ Lights.warning = warning
      /\ Lights.blocked = blocked /\ Lights.cmds = commands
  BY DEF Lights
<1>4. \A timer : (Runs(Lights, timer) <=> Scheduled(timer)) /\ (Runs(r, timer) <=> Scheduled(timer)')
  BY <1>2, <1>3 DEF Runs, Scheduled
<1>5. \A bit : /\ Pending(bit) <=> bit \in notification \/ bit \in bits
               /\ Pending(bit)' <=> bit \in notification
  BY <1>2 DEF Pending
<1>6. LightNeverStuck'
  BY <1>1, <1>2, <1>3, <1>4, <1>5, RingingBits DEF LeftOnInv, NothingLeftOn, LightNeverStuck
<1>7. DisplayNeverStuck'
  BY <1>1, <1>2, <1>3, <1>4, <1>5, RingingBits DEF LeftOnInv, NothingLeftOn, DisplayNeverStuck
<1>8. WarningNeverStuck'
  BY <1>1, <1>2, <1>3, <1>4, <1>5, RingingBits DEF LeftOnInv, NothingLeftOn, WarningNeverStuck
<1>9. BlockNeverStuck'
  BY <1>1, <1>2, <1>3, <1>4, <1>5, RingingBits DEF LeftOnInv, NothingLeftOn, BlockNeverStuck
<1>10. (Pending("LIGHTNING_BLOCK") => WillRing("block"))'
  BY <1>1, <1>2, <1>3, <1>4, <1>5, RingingBits DEF LeftOnInv
<1>11. ("LIGHTNING_BLOCK" \in notification =>
          Scheduled("block") \/ "LIGHTNING_UNBLOCK" \in notification)'
  BY <1>1, <1>2, <1>3, <1>4, <1>5, <1>6 DEF LeftOnInv
<1>. QED  BY <1>6, <1>7, <1>8, <1>9, <1>10, <1>11 DEF LeftOnInv, NothingLeftOn

\* Steps of the task, the interrupts and the clock that add notifications, if
\* any, and send no commands to the timers of the lights.
LEMMA LeftOnSteps ==
  ASSUME LeftOnInv, UNCHANGED <<light, display, warning, blocked, timers>>,
         \A timer \in Switches : Scheduled(timer)' <=> Scheduled(timer),
         UNCHANGED bits \/ pc' \notin {"pir", "lightning"},
         pc \in {"pir", "lightning"} <=> pc' \in {"pir", "lightning"},
         notification \subseteq notification',
         "LIGHTNING_BLOCK" \in notification' => "LIGHTNING_BLOCK" \in notification
  PROVE  LeftOnInv'
<1>1. \A bit : Pending(bit) => Pending(bit)'
  BY DEF Pending
<1>2. \A timer \in Switches : WillRing(timer) => WillRing(timer)'
  BY <1>1, RingingBits
<1>3. Pending("LIGHTNING_BLOCK")' => Pending("LIGHTNING_BLOCK")
  BY DEF Pending
<1>4. Scheduled("block")' <=> Scheduled("block")
  BY DEF Switches
<1>. QED  BY <1>2, <1>3, <1>4, NothingForgotten DEF LeftOnInv

\* Every step leaves a timer, a bit or the rest of the round to switch off what is on.
LEMMA LeftOnStep ==
  ASSUME TypeInv, TypeInv', LeftOnInv, [Next]_vars
  PROVE  LeftOnInv'
<1>0. /\ tick \in Nat /\ commands \in Seq(Command) /\ timers \in [TimerNames -> Nat]
      /\ Switches \subseteq TimerNames
      /\ pc \in {"wait", "pir", "lightning", "sensors", "send", "outputs"}
  BY BoardAssumption DEF TypeInv, TypeOK, TimersType, Command, Switches, TimerNames
<1>1. CASE Wait
  <2>1. /\ pc = "wait" /\ pc' = "pir" /\ bits' = notification /\ notification' = {}
        /\ UNCHANGED <<light, display, warning, blocked, timers, commands>>
    BY <1>1 DEF Wait, lights, daemon
  <2>2. \A bit : Pending(bit) <=> Pending(bit)'
    BY <2>1 DEF Pending
  <2>3. \A timer : Scheduled(timer)' <=> Scheduled(timer)
    BY <2>1 DEF Scheduled
  <2>. QED  BY <2>1, <2>2, <2>3, NothingForgotten, RingingBits
<1>2. CASE Pir \/ ReadReedSwitch \/ ReadHumidity \/ GetState \/ SendReport \/ Tick
  <2>1. /\ UNCHANGED <<light, display, warning, blocked, timers, notification>>
        /\ UNCHANGED bits \/ (pc = "sensors" /\ pc' = pc)
        /\ pc \in {"pir", "lightning"} <=> pc' \in {"pir", "lightning"}
    BY <1>2 DEF Pir, ReadReedSwitch, ReadHumidity, GetState, SendReport, Tick, lights, daemon, round
  <2>2. \A timer \in Switches : Scheduled(timer)' <=> Scheduled(timer)
    <3>1. CASE UNCHANGED commands
      BY <2>1, <3>1 DEF Scheduled
    <3>2. CASE ReadReedSwitch
      <4>. DEFINE c == Start("reed", NODE_T01_DOOR_STATE_PERIOD_MS)
      <4>1. c \in Command /\ c.timer = "reed" /\ commands' = Append(commands, c)
        BY <1>0, <3>2, StartType, BoardAssumption DEF ReadReedSwitch, TimerNames
      <4>2. \A timer \in Switches : timer \in TimerNames \ {c.timer}
        BY <1>0, <4>1 DEF Switches
      <4>. HIDE DEF c
      <4>. QED  BY <1>0, <2>1, <4>1, <4>2, CommandSent DEF Scheduled
    <3>3. CASE ReadHumidity
      <4>. DEFINE c == Start("humidity", NODE_T01_HUMIDITY_PERIOD_MS)
                  d == Start("reed", DoorMs)
                  once == Append(commands, c)
                  twice == Append(once, d)
      <4>1. c \in Command /\ c.timer = "humidity" /\ d \in Command /\ d.timer = "reed"
        BY <1>0, StartType, BoardAssumption DEF TimerNames
      <4>2. commands' = commands \o <<c>> \o (IF inputs_ready THEN <<>> ELSE <<d>>)
        BY <3>3 DEF ReadHumidity
      <4>. HIDE DEF c, d
      <4>3. commands' \in {once, twice}
        <5>1. commands \o <<c>> = once /\ once \in Seq(Command)
          BY <1>0, <4>1
        <5>. HIDE DEF once
        <5>2. once \o <<>> = once /\ once \o <<d>> = twice
          BY <4>1, <5>1
        <5>. QED  BY <4>2, <5>1, <5>2
      <4>4. \A timer \in Switches : timer \in TimerNames \ {c.timer, d.timer}
        BY <1>0, <4>1 DEF Switches
      <4>5. once \in Seq(Command)
        BY <1>0, <4>1, CommandSent
      <4>6. ASSUME NEW timer \in Switches
            PROVE  /\ RunsAfter(once, timers, timer) <=> RunsAfter(commands, timers, timer)
                   /\ RunsAfter(twice, timers, timer) <=> RunsAfter(once, timers, timer)
        <5>1. timer \in TimerNames \ {c.timer} /\ timer \in TimerNames \ {d.timer}
          BY <4>4
        <5>2. RunsAfter(once, timers, timer) <=> RunsAfter(commands, timers, timer)
          BY <1>0, <4>1, <5>1, CommandSent
        <5>. HIDE DEF once
        <5>3. RunsAfter(twice, timers, timer) <=> RunsAfter(once, timers, timer)
          BY <4>1, <4>5, <5>1, CommandSent
        <5>. QED  BY <5>2, <5>3
      <4>. HIDE DEF once, twice
      <4>. QED  BY <2>1, <4>3, <4>6 DEF Scheduled
    <3>. QED  BY <1>2, <3>1, <3>2, <3>3 DEF Pir, GetState, SendReport, Tick, daemon
  <2>3. UNCHANGED bits \/ pc' \notin {"pir", "lightning"}
    BY <2>1
  <2>. QED  BY <2>1, <2>2, <2>3, LeftOnSteps
<1>3. CASE Lightning
  BY <1>3, LeftOnLightning
<1>4. CASE UpdateOutputs
  <2>1. /\ UNCHANGED <<light, display, blocked, timers, commands>>
        /\ pc = "outputs" /\ pc' = "wait" /\ notification \subseteq notification'
        /\ "LIGHTNING_BLOCK" \in notification' => "LIGHTNING_BLOCK" \in notification
    BY <1>4 DEF UpdateOutputs, daemon, SelfNotified
  <2>2. \A timer : Scheduled(timer)' <=> Scheduled(timer)
    BY <2>1 DEF Scheduled
  <2>3. \A bit : Pending(bit) => Pending(bit)'
    BY <2>1 DEF Pending
  <2>4. /\ WillRing("light") => WillRing("light")'
        /\ WillRing("display") => WillRing("display")'
        /\ WillRing("warning") => WillRing("warning")'
        /\ WillRing("block") => WillRing("block")'
    BY <2>2, <2>3, RingingBits
  <2>5. WarningNeverStuck'
    <3>1. warning'.power => warning.power
      BY <1>4 DEF UpdateOutputs, TypeInv, TypeOK
    <3>2. warning'.enabled => warning.enabled \/ "WARNING_LED" \in notification'
      BY <1>4 DEF UpdateOutputs, SelfNotified, TypeInv, TypeOK
    <3>3. "WARNING_LED" \in notification' => WillRing("warning")'
      BY RingingBits DEF Pending
    <3>. QED  BY <2>4, <3>1, <3>2, <3>3 DEF LeftOnInv, NothingLeftOn, WarningNeverStuck
  <2>6. LightNeverStuck' /\ DisplayNeverStuck' /\ BlockNeverStuck'
    BY <2>1, <2>4 DEF LeftOnInv, NothingLeftOn, LightNeverStuck, DisplayNeverStuck, BlockNeverStuck
  <2>7. (Pending("LIGHTNING_BLOCK") => WillRing("block"))'
    BY <2>1, <2>4 DEF Pending, LeftOnInv
  <2>8. ("LIGHTNING_BLOCK" \in notification =>
           Scheduled("block") \/ "LIGHTNING_UNBLOCK" \in notification)'
    BY <2>1, <2>2 DEF LeftOnInv
  <2>. QED  BY <2>5, <2>6, <2>7, <2>8 DEF LeftOnInv, NothingLeftOn
<1>5. CASE Daemon
  <2>1. /\ notification \subseteq notification'
        /\ \A timer \in TimerNames :
              Scheduled(timer) => Scheduled(timer)' \/ BitOf(timer) \in notification'
    BY <1>5, DaemonEffect DEF Daemon, TypeInv, TypeOK
  <2>2. UNCHANGED <<light, display, warning, blocked, bits, pc>>
    BY <1>5 DEF Daemon, round, lights
  <2>3. \A bit : Pending(bit) => Pending(bit)'
    BY <2>1, <2>2 DEF Pending
  <2>4. \A timer \in Switches : WillRing(timer) => WillRing(timer)'
    BY <1>0, <2>1, <2>3, RingingBits DEF Pending
  <2>5. "LIGHTNING_BLOCK" \in notification' => "LIGHTNING_BLOCK" \in notification
    <3>1. \A timer \in TimerNames : BitOf(timer) # "LIGHTNING_BLOCK"
      BY DEF TimerNames, BitOf
    <3>2. commands # <<>> => Head(commands).timer \in TimerNames
      <4>1. commands # <<>> => Head(commands) \in Command
        BY <1>0, HeadTailProperties
      <4>. QED  BY <4>1 DEF Command
    <3>. QED  BY <1>5, <3>1, <3>2 DEF Daemon, ExecuteCommand, ExpireTimer, Fire
  <2>6. Pending("LIGHTNING_BLOCK")' => Pending("LIGHTNING_BLOCK")
    BY <2>2, <2>5 DEF Pending
  <2>7. "LIGHTNING_BLOCK" \in notification' =>
           Scheduled("block")' \/ "LIGHTNING_UNBLOCK" \in notification'
    <3>1. "block" \in TimerNames
      BY DEF TimerNames
    <3>. QED  BY <2>1, <2>5, <3>1, BitsOfTimers DEF LeftOnInv
  <2>. QED  BY <2>2, <2>4, <2>6, <2>7, NothingForgotten
<1>6. CASE (\E msg \in Received : ProcessNodeMsg(msg)) \/ (\E is_dark \in Darkness : ProcessPhotoresistor(is_dark))
  <2>1. /\ UNCHANGED <<light, display, warning, blocked, timers, commands, bits, pc>>
        /\ notification' = notification \cup {"UPDATE_STATE"}
    BY <1>6 DEF ProcessNodeMsg, ProcessPhotoresistor, Call, lights, round
  <2>2. \A timer : Scheduled(timer)' <=> Scheduled(timer)
    BY <2>1 DEF Scheduled
  <2>. QED  BY <2>1, <2>2, LeftOnSteps
<1>7. CASE DisableLightning
  <2>. DEFINE c == Start("block", DisableMs)
  <2>1. /\ UNCHANGED <<light, display, warning, blocked, timers, bits, pc>>
        /\ notification' = notification \cup {"LIGHTNING_BLOCK"}
        /\ commands' = Append(commands, c)
    BY <1>7 DEF DisableLightning, Call, lights, round
  <2>2. c \in Command /\ c.timer = "block" /\ c.expiry # Off
    BY <1>0, StartType, BoardAssumption DEF TimerNames
  <2>. HIDE DEF c
  <2>3. /\ Scheduled("block")'
        /\ \A timer \in Switches : Scheduled(timer) => Scheduled(timer)'
    BY <1>0, <2>1, <2>2, CommandSent DEF Scheduled
  <2>4. \A bit : Pending(bit) => Pending(bit)'
    BY <2>1 DEF Pending
  <2>5. \A timer \in Switches : WillRing(timer) => WillRing(timer)'
    BY <2>3, <2>4, RingingBits
  <2>6. WillRing("block")'
    BY <2>3, RingingBits
  <2>7. /\ WillRing("light") => WillRing("light")'
        /\ WillRing("display") => WillRing("display")'
        /\ WillRing("warning") => WillRing("warning")'
    BY <2>5 DEF Switches
  <2>8. LightNeverStuck' /\ DisplayNeverStuck' /\ WarningNeverStuck' /\ BlockNeverStuck'
    BY <2>1, <2>6, <2>7 DEF LeftOnInv, NothingLeftOn, LightNeverStuck, DisplayNeverStuck,
                            WarningNeverStuck, BlockNeverStuck
  <2>. QED  BY <2>3, <2>6, <2>8 DEF LeftOnInv, NothingLeftOn
<1>8. ASSUME NEW i \in Interrupts, Interrupt(i)
      PROVE  LeftOnInv'
  <2>1. /\ UNCHANGED <<light, display, warning, blocked, timers, commands, bits, pc>>
        /\ notification' = notification \cup {i} /\ i # "LIGHTNING_BLOCK"
    BY <1>8 DEF Interrupt, Interrupts, lights, round, daemon
  <2>2. \A timer : Scheduled(timer)' <=> Scheduled(timer)
    BY <2>1 DEF Scheduled
  <2>. QED  BY <2>1, <2>2, LeftOnSteps
<1>9. CASE UNCHANGED vars
  <2>1. UNCHANGED <<light, display, warning, blocked, timers, commands, bits, pc, notification>>
    BY <1>9 DEF vars, lights, round, daemon
  <2>2. \A timer : Scheduled(timer)' <=> Scheduled(timer)
    BY <2>1 DEF Scheduled
  <2>. QED  BY <2>1, <2>2, LeftOnSteps
<1>. QED
  BY <1>1, <1>2, <1>3, <1>4, <1>5, <1>6, <1>7, <1>8, <1>9 DEF Next, TaskStep, OtherStep

\* Whatever is on has something under way that will switch it off, and a block
\* something that will end it.
THEOREM NothingStuck == Spec => []NothingLeftOn
<1>1. LeftOnInv => NothingLeftOn
  BY DEF LeftOnInv
<1>2. Spec => []TypeInv
  BY InitType, StepType, PTL DEF Spec
<1>. QED  BY <1>1, <1>2, LeftOnInit, LeftOnStep, PTL DEF Spec

-----------------------------------------------------------------------------
(* No report is dropped.                                                   *)

\* How many reports there may be at each place of a round: each of its inputs
\* adds at most one, and all are handed out before the next round.
Room ==
  /\ pc \in {"wait", "pir", "outputs"} => Len(node.send_msg_buffer) = 0
  /\ pc = "lightning" => Len(node.send_msg_buffer) <= 1
  /\ pc = "sensors" =>
       /\ Len(node.send_msg_buffer) <= 3
       /\ "HUMIDITY_SENSOR" \in bits \/ "REED_SWITCH" \in bits => Len(node.send_msg_buffer) <= 2
       /\ "HUMIDITY_SENSOR" \in bits /\ "REED_SWITCH" \in bits => Len(node.send_msg_buffer) <= 1
  /\ pc = "send" => Len(node.send_msg_buffer) <= 3

\* No report waits at the start.
LEMMA RoomInit == Init => Room
BY DEF Init, Room, NodeInit

\* Each part of a round adds a report at most, and all are sent before the next round.
LEMMA RoomStep ==
  ASSUME TypeInv, Room, [Next]_vars
  PROVE  Room'
<1>0. /\ node \in NodeType /\ Len(node.send_msg_buffer) \in Nat /\ tick \in Nat /\ tick_count_ms \in Nat
      /\ pc \in {"wait", "pir", "lightning", "sensors", "send", "outputs"}
  BY LenProperties, BoardAssumption DEF TypeInv, TypeOK, NodeType
<1>1. CASE Wait
  BY <1>1 DEF Wait, Room
<1>2. CASE Pir
  <2>1. Len(node'.send_msg_buffer) \in {Len(node.send_msg_buffer), Len(node.send_msg_buffer) + 1}
    BY <1>0, <1>2, MovementType DEF Pir
  <2>. QED  BY <1>0, <1>2, <2>1 DEF Pir, Room
<1>3. CASE Lightning
  BY <1>0, <1>3 DEF Lightning, Room, round
<1>4. CASE ReadHumidity
  <2>1. Len(node'.send_msg_buffer) \in {Len(node.send_msg_buffer), Len(node.send_msg_buffer) + 1}
    BY <1>0, <1>4, MeasurementType, BoardAssumption DEF ReadHumidity
  <2>2. /\ pc = "sensors" /\ pc' = "sensors" /\ "HUMIDITY_SENSOR" \in bits
        /\ "HUMIDITY_SENSOR" \notin bits' /\ ("REED_SWITCH" \in bits' <=> "REED_SWITCH" \in bits)
    BY <1>4 DEF ReadHumidity
  <2>3. /\ Len(node'.send_msg_buffer) <= 3
        /\ "REED_SWITCH" \in bits => Len(node'.send_msg_buffer) <= 2
    BY <1>0, <2>1, <2>2 DEF Room
  <2>. QED  BY <2>2, <2>3 DEF Room
<1>5. CASE ReadReedSwitch
  <2>1. Len(node'.send_msg_buffer) \in {Len(node.send_msg_buffer), Len(node.send_msg_buffer) + 1}
    BY <1>0, <1>5, MeasurementType DEF ReadReedSwitch
  <2>2. /\ pc = "sensors" /\ pc' = "sensors" /\ "HUMIDITY_SENSOR" \notin bits'
        /\ "REED_SWITCH" \notin bits' /\ "REED_SWITCH" \in bits
    BY <1>5 DEF ReadReedSwitch
  <2>3. Len(node'.send_msg_buffer) <= 3
    BY <1>0, <2>1, <2>2 DEF Room
  <2>. QED  BY <2>2, <2>3 DEF Room
<1>6. CASE GetState
  <2>1. node'.send_msg_buffer = node.send_msg_buffer
    BY <1>0, <1>6, UpdateTimeType DEF GetState
  <2>2. node_state'.is_msg_to_send <=> node.send_msg_buffer # <<>>
    BY <1>6, <2>1 DEF GetState, StateOf
  <2>3. pc = "sensors" /\ pc' = (IF node_state'.is_msg_to_send THEN "send" ELSE "outputs")
    BY <1>6 DEF GetState
  <2>. QED  BY <1>0, <2>1, <2>2, <2>3 DEF Room
<1>7. CASE SendReport
  <2>1. CASE node.send_msg_buffer # <<>>
    <3>1. Len(node'.send_msg_buffer) = Len(node.send_msg_buffer) - 1 /\ pc = "send" /\ pc' = "send"
      BY <1>0, <1>7, <2>1, HandedOut DEF SendReport
    <3>. QED  BY <1>0, <3>1 DEF Room
  <2>2. CASE node.send_msg_buffer = <<>>
    BY <1>7, <2>2 DEF SendReport, Room
  <2>. QED  BY <2>1, <2>2
<1>8. CASE UpdateOutputs
  BY <1>0, <1>8 DEF UpdateOutputs, Room
<1>9. CASE UNCHANGED <<pc, bits>> /\ node'.send_msg_buffer = node.send_msg_buffer
  BY <1>9 DEF Room
<1>10. ASSUME NEW msg \in Received, ProcessNodeMsg(msg)
       PROVE  UNCHANGED <<pc, bits>> /\ node'.send_msg_buffer = node.send_msg_buffer
  BY <1>0, <1>10, MsgType DEF ProcessNodeMsg, Call, round
<1>11. ASSUME NEW is_dark \in Darkness, ProcessPhotoresistor(is_dark)
       PROVE  UNCHANGED <<pc, bits>> /\ node'.send_msg_buffer = node.send_msg_buffer
  BY <1>0, <1>11 DEF ProcessPhotoresistor, ProcessLuminosity, Call, round, NodeType
<1>12. CASE Daemon \/ DisableLightning \/ Tick \/ UNCHANGED vars \/ \E i \in Interrupts : Interrupt(i)
  BY <1>9, <1>12 DEF Daemon, DisableLightning, Call, Tick, Interrupt, vars, round
<1>. QED
  BY <1>1, <1>2, <1>3, <1>4, <1>5, <1>6, <1>7, <1>8, <1>9, <1>10, <1>11, <1>12
  DEF Next, TaskStep, OtherStep

\* A buffer for more than three reports is never full: none is dropped.
THEOREM NoReportDropped ==
  ASSUME SEND_MSG_BUFFER > 3
  PROVE  Spec => []ReportsFit
<1>1. ASSUME TypeInv, Room PROVE ReportsFit
  <2>1. Len(node.send_msg_buffer) \in Nat
    BY <1>1, LenProperties DEF TypeInv, TypeOK, NodeType
  <2>2. pc \in {"wait", "pir", "lightning", "sensors", "send", "outputs"}
    BY <1>1 DEF TypeInv, TypeOK
  <2>3. Len(node.send_msg_buffer) <= 3
    BY <1>1, <2>1, <2>2 DEF Room
  <2>. QED  BY <2>1, <2>3, DurationAssumption DEF ReportsFit
<1>. QED  BY <1>1, InitType, StepType, RoomInit, RoomStep, PTL DEF Spec

-----------------------------------------------------------------------------
(* The outputs follow the node.                                            *)

\* The outputs do not depend on the reports.
LEMMA OutputsOfNode ==
  ASSUME NEW n \in NodeType, n.send_msg_buffer # <<>>, NEW time
  PROVE  LET s == StateOf(n, time) t == StateOf(GetMsg(n), time) IN
         /\ s.is_light_on = t.is_light_on /\ s.is_display_on = t.is_display_on
         /\ s.is_warning_led_on = t.is_warning_led_on /\ s.status_led_color = t.status_led_color
<1>. DEFINE m == GetMsg(n)
<1>1. /\ m.mode = n.mode /\ m.is_dark = n.is_dark /\ m.light_start = n.light_start
      /\ m.display_start = n.display_start /\ m.intrusion_start = n.intrusion_start
      /\ m.humidity = n.humidity /\ m.is_door_open = n.is_door_open
      /\ m.is_warning_enabled = n.is_warning_enabled
  BY DEF GetMsg, NodeType
<1>. HIDE DEF m
<1>2. IsLightOn(m, time) = IsLightOn(n, time)
  BY <1>1 DEF IsLightOn, LightExpired
<1>3. IsDisplayOn(m, time) = IsDisplayOn(n, time)
  BY <1>1 DEF IsDisplayOn, DisplayExpired
<1>4. IsWarningLedOn(m, time) = IsWarningLedOn(n, time)
  BY <1>1 DEF IsWarningLedOn, IntrusionExpired, Uncomfortable
<1>5. /\ StateOf(n, time).is_light_on = StateOf(m, time).is_light_on
      /\ StateOf(n, time).is_display_on = StateOf(m, time).is_display_on
      /\ StateOf(n, time).is_warning_led_on = StateOf(m, time).is_warning_led_on
      /\ StateOf(n, time).status_led_color = StateOf(m, time).status_led_color
  BY <1>1, <1>2, <1>3, <1>4 DEF StateOf
<1>. QED  BY <1>5 DEF m

\* What the task has asked the node for is still what the node asks for, unless
\* the task has been notified since.
Asked ==
  pc \in {"send", "outputs"} /\ notification = {} =>
    LET wanted == StateOf(node, tick_count_ms) IN
      /\ node_state.is_light_on = wanted.is_light_on
      /\ node_state.is_display_on = wanted.is_display_on
      /\ node_state.is_warning_led_on = wanted.is_warning_led_on
      /\ node_state.status_led_color = wanted.status_led_color

ShownInv == Asked /\ LatestStateShown

\* The outputs start as the node is.
LEMMA ShownInit == Init => ShownInv
BY DEF Init, ShownInv, Asked, LatestStateShown

\* A step that changes the node asks for its outputs to be updated.
LEMMA ShownStep ==
  ASSUME TypeInv, Room, ShownInv, [Next]_vars
  PROVE  ShownInv'
<1>0. /\ node \in NodeType /\ Len(node.send_msg_buffer) \in Nat
      /\ pc \in {"wait", "pir", "lightning", "sensors", "send", "outputs"}
  BY LenProperties DEF TypeInv, TypeOK, NodeType
<1>1. CASE Wait \/ Pir \/ Lightning \/ ReadHumidity \/ ReadReedSwitch
  BY <1>1 DEF Wait, Pir, Lightning, ReadHumidity, ReadReedSwitch, ShownInv, Asked, LatestStateShown
<1>2. CASE GetState
  <2>1. node_state' = StateOf(node', tick_count_ms') /\ pc' \in {"send", "outputs"}
    BY <1>2 DEF GetState
  <2>2. LatestStateShown'
    BY <2>1 DEF LatestStateShown
  <2>3. Asked'
    BY <2>1 DEF Asked
  <2>. QED  BY <2>2, <2>3 DEF ShownInv
<1>3. CASE SendReport
  <2>1. pc' \in {"send", "outputs"} /\ UNCHANGED <<notification, node_state, tick_count_ms>> /\ pc = "send"
    BY <1>3 DEF SendReport, round
  <2>2. LatestStateShown'
    BY <2>1 DEF LatestStateShown
  <2>3. CASE node.send_msg_buffer # <<>>
    <3>1. node' = GetMsg(node)
      BY <1>3, <2>3 DEF SendReport
    <3>2. Asked'
      BY <1>0, <2>1, <2>3, <3>1, OutputsOfNode DEF ShownInv, Asked
    <3>. QED  BY <2>2, <3>2 DEF ShownInv
  <2>4. CASE node.send_msg_buffer = <<>>
    <3>1. node' = node
      BY <1>3, <2>4 DEF SendReport
    <3>2. Asked'
      BY <2>1, <3>1 DEF ShownInv, Asked
    <3>. QED  BY <2>2, <3>2 DEF ShownInv
  <2>. QED  BY <2>3, <2>4
<1>4. CASE UpdateOutputs
  <2>1. pc = "outputs" /\ pc' = "wait" /\ UNCHANGED <<node, tick_count_ms, light, display, blocked>>
    BY <1>4 DEF UpdateOutputs
  <2>2. Asked'
    BY <2>1 DEF Asked
  <2>3. ASSUME notification' = {}, ~blocked
        PROVE  LET wanted == StateOf(node, tick_count_ms) IN
                 /\ warning'.enabled = wanted.is_warning_led_on
                 /\ wanted.is_light_on => light
                 /\ wanted.is_display_on => display
                 /\ status_led' = wanted.status_led_color
                 /\ ~wanted.is_msg_to_send
    <3>1. /\ notification = {} /\ SelfNotified = {}
          /\ warning' = [warning EXCEPT !.enabled = node_state.is_warning_led_on]
          /\ status_led' = node_state.status_led_color
      BY <1>4, <2>3 DEF UpdateOutputs
    <3>2. (node_state.is_light_on => light) /\ (node_state.is_display_on => display)
      BY <3>1 DEF SelfNotified
    <3>3. warning'.enabled = node_state.is_warning_led_on
      BY <3>1 DEF TypeInv, TypeOK
    <3>4. node.send_msg_buffer = <<>>
      BY <1>0, <2>1, EmptySeq DEF Room, NodeType
    <3>5. ~StateOf(node, tick_count_ms).is_msg_to_send
      BY <3>4 DEF StateOf
    <3>. QED  BY <2>1, <3>1, <3>2, <3>3, <3>5 DEF ShownInv, Asked
  <2>4. LatestStateShown'
    BY <2>1, <2>3 DEF LatestStateShown
  <2>. QED  BY <2>2, <2>4 DEF ShownInv
<1>5. CASE notification' # {} /\ pc' = pc
  BY <1>5 DEF ShownInv, Asked, LatestStateShown
<1>6. CASE (\E msg \in Received : ProcessNodeMsg(msg)) \/ (\E is_dark \in Darkness : ProcessPhotoresistor(is_dark))
           \/ DisableLightning \/ \E i \in Interrupts : Interrupt(i)
  BY <1>5, <1>6 DEF ProcessNodeMsg, ProcessPhotoresistor, DisableLightning, Interrupt, Call
<1>7. CASE Daemon
  <2>1. notification \subseteq notification'
    BY <1>7, DaemonEffect DEF Daemon, TypeInv, TypeOK
  <2>2. CASE notification' = {}
    <3>1. UNCHANGED <<notification, node, pc, bits, tick_count_ms, node_state, light, display, warning,
                      blocked, status_led>>
      BY <1>7, <2>1, <2>2 DEF Daemon, round, lights
    <3>. QED  BY <3>1 DEF ShownInv, Asked, LatestStateShown
  <2>. QED  BY <1>5, <1>7, <2>2 DEF Daemon
<1>8. CASE Tick \/ UNCHANGED vars
  <2>1. UNCHANGED <<notification, node, pc, bits, tick_count_ms, node_state, light, display, warning,
                    blocked, status_led>>
    BY <1>8 DEF Tick, vars, round, lights
  <2>. QED  BY <2>1 DEF ShownInv, Asked, LatestStateShown
<1>. QED
  BY <1>1, <1>2, <1>3, <1>4, <1>6, <1>7, <1>8 DEF Next, TaskStep, OtherStep

\* When the task sleeps and the lights are not blocked, they show what the node
\* asks for: no change of the node escapes the task.
THEOREM StateShown == Spec => []LatestStateShown
<1>1. ShownInv => LatestStateShown
  BY DEF ShownInv
<1>2. Spec => [](TypeInv /\ Room)
  BY InitType, StepType, RoomInit, RoomStep, PTL DEF Spec
<1>. QED  BY <1>1, <1>2, ShownInit, ShownStep, PTL DEF Spec
=============================================================================
