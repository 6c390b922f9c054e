--------------------------- MODULE SwosConfigProofs ---------------------------
(* What apply_swos_config and the restore of SwOS snapshots promise, for every  *)
(* switch, every set of ports and any number of callers, whatever is asked and  *)
(* wherever a POST or a read fails.                                             *)
EXTENDS SwosConfig, SequenceTheorems, TLAPS

(* The steps of a plan, and the place of a step in every plan that has it.      *)
StepsOf(s) == {s[i] : i \in 1 .. Len(s)}
Slot(step) ==
    IF step.endpoint = "vlan"
    THEN IF step.phase = "grow" THEN 1 ELSE IF step.phase = "shrink" THEN 6 ELSE 4
    ELSE IF step.endpoint = "fwd" THEN 2
    ELSE IF step.endpoint = "link" THEN 3
    ELSE IF step.endpoint = "snmp" THEN 5
    ELSE 7
Ordered(s) ==
    /\ \E S : s \in Seq(S)
    /\ \A i, j \in 1 .. Len(s) : i < j => Slot(s[i]) < Slot(s[j])

----------------------------------------------------------------------------
(* A call cl to a switch that is sw now and was b when the call, or the apply   *)
(* it undoes, began; others have written the endpoints D since.                 *)

ToRead(cl) == ToSet(EndpointsToRead(cl.req))
(* What the plan is made from, where nobody else writes.                        *)
Seen(cl) == [ep \in Endpoints |-> IF ep \in ToRead(cl) THEN cl.from[ep] ELSE Unread[ep]]
AimOf(cl) ==
    [ep \in Endpoints |->
       IF cl.req.kind = "restore" \/ ep \in ToRead(cl) THEN cl.goal[ep] ELSE cl.from[ep]]

(* The table between its growth and its shrinking.                              *)
Grown(cl) ==
    CASE cl.req.kind = "restore" -> Union(cl.from.vlan, cl.goal.vlan)
      [] cl.req.kind = "apply" -> IF Shrinks(cl.from.vlan, cl.goal.vlan)
                                  THEN Union(cl.from.vlan, cl.goal.vlan) ELSE cl.goal.vlan
      [] OTHER -> cl.from.vlan
Before(cl, step) ==
    IF step.endpoint = "vlan" /\ step.phase # "grow" THEN Grown(cl) ELSE cl.from[step.endpoint]
After(cl, step) == IF step.phase = "grow" THEN Grown(cl) ELSE cl.goal[step.endpoint]

Grows(step) == step.endpoint = "vlan" /\ step.phase = "grow"
Ends(step) == step.endpoint = "vlan" /\ step.phase # "grow"
WillEnd(cl) ==
    \/ cl.req.kind = "restore"
    \/ cl.req.kind = "apply" /\ "vlan" \in ToRead(cl) /\ Shrinks(cl.from.vlan, cl.goal.vlan)

(* A step of a plan of this kind of call.                                       *)
Proper(cl, step) ==
    /\ step.endpoint \in Endpoints
    /\ cl.req.kind # "restore" => step.endpoint \in ToRead(cl)
    /\ CASE cl.req.kind = "restore" -> step.phase = "apply" \/ Grows(step)
         [] cl.req.kind = "apply" -> IF step.endpoint = "vlan" THEN step.phase \in {"grow", "shrink"}
                                     ELSE step.phase = "apply"
         [] OTHER -> step.phase = "blob" /\ step.endpoint = cl.req.endpoint

Fields == {"at", "req", "read", "todo", "writes", "goal", "written", "failedAt", "told", "from"}

(* A call as it stands.                                                         *)
Running(cl, b) ==
    /\ DOMAIN cl = Fields
    /\ cl.at \in {"idle", "read", "write", "confirm", "ended"}
    /\ cl.at # "idle" =>
         /\ cl.req.kind \in {"apply", "blob", "restore"}
         /\ cl.req.kind = "blob" => cl.req.endpoint \in Endpoints
         /\ cl.req.kind = "restore" => ~ cl.req.dryRun
         /\ cl.req.kind # "restore" => cl.from = b
    /\ cl.at # "ended" => cl.told = "nothing"
    /\ cl.at \in {"idle", "read"} => cl.written = {}

(* What has been read is what is there, unless others wrote.                    *)
Reading(cl, sw, D) ==
    /\ \E S : cl.todo \in Seq(S)
    /\ cl.todo # <<>>
    /\ StepsOf(cl.todo) \subseteq ToRead(cl)
    /\ cl.read = [ep \in Endpoints |-> cl.read[ep]]
    /\ \A ep \in Endpoints \ ToRead(cl) : cl.read[ep] = Unread[ep]
    /\ \A ep \in (Endpoints \ D) \cap (ToRead(cl) \ StepsOf(cl.todo)) : cl.read[ep] = sw[ep]

Untouched(cl, sw, D) == \A ep \in Endpoints \ D : sw[ep] = cl.from[ep]

(* The steps that are left are in order, and are those of such a plan.          *)
PlanShape(cl) ==
    /\ Ordered(cl.writes)
    /\ \A step \in StepsOf(cl.writes) : Proper(cl, step)
    /\ cl.writes # <<>> <=> (cl.at # "ended" \/ cl.told = "incomplete")
    /\ cl.at = "ended" /\ cl.told = "incomplete" => cl.failedAt = Head(cl.writes).endpoint
    /\ cl.at = "confirm" => cl.req.kind = "apply" /\ Head(cl.writes).phase = "apply"
    /\ cl.written \subseteq Endpoints
    /\ cl.req.kind # "restore" => cl.written \subseteq ToRead(cl)

PlanSource(cl, D, b) ==
    /\ cl.req.kind = "restore" => cl.goal = b
    /\ cl.req.kind # "restore" => \A ep \in Endpoints \ D : cl.goal[ep] = Planned(cl.req, Seen(cl))[ep]
    /\ cl.req.kind = "apply" /\ D = {} /\ ~ cl.req.dryRun => Refusal(cl.req, Seen(cl), cl.goal) = "none"
    /\ cl.req.kind # "blob" /\ cl.told # "noChange" => ~ cl.req.dryRun

(* Where an endpoint is, between what it was and what it is to be.              *)
Progress(cl, sw, ep) ==
    /\ \A step \in StepsOf(cl.writes) : step.endpoint = ep =>
         /\ step.value = After(cl, step)
         /\ cl.req.kind = "apply" /\ step.phase = "apply" => cl.from[ep] # cl.goal[ep]
         /\ (\A other \in StepsOf(cl.writes) : other.endpoint = ep => Slot(step) <= Slot(other)) =>
              \/ sw[ep] = Before(cl, step)
              \/ cl.at # "write" /\ step = Head(cl.writes) /\ sw[ep] = After(cl, step)
    /\ (\A step \in StepsOf(cl.writes) : step.endpoint # ep) => sw[ep] = AimOf(cl)[ep]
    /\ ep # "vlan" /\ (\E step \in StepsOf(cl.writes) : Grows(step)) => sw[ep] = cl.from[ep]

(* The table grows first, shrinks after the ports, and sys comes last.          *)
TableInOrder(cl) ==
    /\ (\E step \in StepsOf(cl.writes) : Grows(step)) =>
         (\E step \in StepsOf(cl.writes) : Ends(step)) \/ Grown(cl) = cl.goal.vlan
    /\ WillEnd(cl) =>
         \/ \E step \in StepsOf(cl.writes) : Ends(step)
         \/ \A step \in StepsOf(cl.writes) : step.endpoint \notin {"vlan", "fwd", "link"}
SysLast(cl, sw) == sw.sys = cl.from.sys \/ \A step \in StepsOf(cl.writes) : step.endpoint = "sys"

Reported(cl, sw, ep) ==
    \/ sw[ep] = cl.from[ep]
    \/ ep \in cl.written
    \/ cl.at # "write" /\ cl.writes # <<>> /\ ep = Head(cl.writes).endpoint

PlanInv(cl, sw, D, b) ==
    /\ PlanShape(cl)
    /\ PlanSource(cl, D, b)
    /\ \A ep \in Endpoints \ D : Progress(cl, sw, ep) /\ Reported(cl, sw, ep)
    /\ "vlan" \notin D => TableInOrder(cl)
    /\ "sys" \notin D => SysLast(cl, sw)

CallInv(cl, sw, D, b) ==
    /\ Running(cl, b)
    /\ cl.at \in {"read", "confirm"} => Reading(cl, sw, D)
    /\ cl.at = "read" => Untouched(cl, sw, D)
    /\ cl.at = "ended" /\ cl.told \notin {"done", "incomplete"} =>
         Untouched(cl, sw, D) /\ (cl.req.kind = "restore" => cl.told = "failed")
    /\ HasPlan(cl) => PlanInv(cl, sw, D, b)

(* The inductive invariant.                                                     *)
ConfigInv ==
    /\ DOMAIN switch = Endpoints
    /\ scene \in Scenes
    /\ DOMAIN call = Callers /\ DOMAIN base = Callers /\ DOMAIN disturbed = Callers
    /\ \A c \in Callers :
         /\ disturbed[c] \subseteq Endpoints
         /\ CallInv(call[c], switch, disturbed[c], base[c])

----------------------------------------------------------------------------
(* Sequences.                                                                   *)

(* The elements of two sequences of different ranges are those of both.         *)
LEMMA ConcatSteps ==
    ASSUME NEW s, NEW t, \E S : s \in Seq(S), \E T : t \in Seq(T)
    PROVE  /\ \E S : s \o t \in Seq(S)
           /\ Len(s) \in Nat /\ Len(t) \in Nat /\ Len(s \o t) = Len(s) + Len(t)
           /\ \A i \in 1 .. Len(s \o t) : (s \o t)[i] = IF i <= Len(s) THEN s[i] ELSE t[i - Len(s)]
           /\ StepsOf(s \o t) = StepsOf(s) \cup StepsOf(t)
  <1>1. PICK S : s \in Seq(S)
    OBVIOUS
  <1>2. PICK T : t \in Seq(T)
    OBVIOUS
  <1> DEFINE U == S \cup T
  <1>3. s \in Seq(U) /\ t \in Seq(U)
    BY <1>1, <1>2
  <1> HIDE DEF U
  <1>4. /\ s \o t \in Seq(U)
        /\ Len(s \o t) = Len(s) + Len(t)
        /\ \A i \in 1 .. Len(s) + Len(t) : (s \o t)[i] = IF i <= Len(s) THEN s[i] ELSE t[i - Len(s)]
    BY <1>3, ConcatProperties
  <1>5. Len(s) \in Nat /\ Len(t) \in Nat
    BY <1>3, LenProperties
  <1>6. ASSUME NEW x \in StepsOf(s \o t) PROVE x \in StepsOf(s) \cup StepsOf(t)
    <2>1. PICK i \in 1 .. Len(s) + Len(t) : x = (s \o t)[i]
      BY <1>4, <1>6 DEF StepsOf
    <2>2. CASE i <= Len(s)
      BY <2>1, <2>2, <1>4, <1>5 DEF StepsOf
    <2>3. CASE i > Len(s)
      <3>1. i - Len(s) \in 1 .. Len(t) /\ x = t[i - Len(s)]
        BY <2>1, <2>3, <1>4, <1>5
      <3>2. QED
        BY <3>1 DEF StepsOf
    <2>4. QED
      BY <2>2, <2>3, <1>5
  <1>7. ASSUME NEW x \in StepsOf(s) PROVE x \in StepsOf(s \o t)
    <2>1. PICK i \in 1 .. Len(s) : x = s[i]
      BY <1>7 DEF StepsOf
    <2>2. i \in 1 .. Len(s \o t) /\ (s \o t)[i] = x
      BY <2>1, <1>4, <1>5
    <2>3. QED
      BY <2>2 DEF StepsOf
  <1>8. ASSUME NEW x \in StepsOf(t) PROVE x \in StepsOf(s \o t)
    <2>1. PICK i \in 1 .. Len(t) : x = t[i]
      BY <1>8 DEF StepsOf
    <2>2. Len(s) + i \in 1 .. Len(s \o t) /\ (s \o t)[Len(s) + i] = x
      BY <2>1, <1>4, <1>5
    <2>3. QED
      BY <2>2 DEF StepsOf
  <1>9. QED
    BY <1>4, <1>5, <1>6, <1>7, <1>8

LEMMA ConcatIn ==
    ASSUME NEW S, NEW s \in Seq(S), NEW t \in Seq(S)
    PROVE  s \o t \in Seq(S) /\ StepsOf(s \o t) = StepsOf(s) \cup StepsOf(t)
  BY ConcatSteps, ConcatProperties

LEMMA ShortSteps ==
    /\ StepsOf(<<>>) = {}
    /\ \A x : StepsOf(<<x>>) = {x}
    /\ \A x, y : StepsOf(<<x, y>>) = {x, y}
  <1>1. StepsOf(<<>>) = {}
    BY DEF StepsOf
  <1>2. ASSUME NEW x PROVE StepsOf(<<x>>) = {x}
    <2>1. Len(<<x>>) = 1 /\ <<x>>[1] = x /\ 1 .. 1 = {1}
      OBVIOUS
    <2>2. QED
      BY <2>1 DEF StepsOf
  <1>3. ASSUME NEW x, NEW y PROVE StepsOf(<<x, y>>) = {x, y}
    <2>1. Len(<<x, y>>) = 2 /\ <<x, y>>[1] = x /\ <<x, y>>[2] = y /\ 1 .. 2 = {1, 2}
      OBVIOUS
    <2>2. QED
      BY <2>1 DEF StepsOf
  <1>4. QED
    BY <1>1, <1>2, <1>3

LEMMA TailSteps ==
    ASSUME NEW s, \E S : s \in Seq(S), s # <<>>
    PROVE  /\ Head(s) \in StepsOf(s) /\ StepsOf(s) = {Head(s)} \cup StepsOf(Tail(s))
           /\ \E S : Tail(s) \in Seq(S)
  <1>1. PICK S : s \in Seq(S)
    OBVIOUS
  <1>2. /\ Head(s) = s[1] /\ Tail(s) \in Seq(S)
        /\ Len(s) \in Nat \ {0} /\ Len(Tail(s)) = Len(s) - 1
        /\ \A i \in 1 .. Len(s) - 1 : Tail(s)[i] = s[i + 1]
    BY <1>1, HeadTailProperties, LenProperties, EmptySeq
  <1>3. ASSUME NEW x \in StepsOf(Tail(s)) PROVE x \in StepsOf(s)
    <2>1. PICK i \in 1 .. Len(s) - 1 : x = s[i + 1]
      BY <1>2 DEF StepsOf
    <2>2. i + 1 \in 1 .. Len(s)
      BY <1>2
    <2>3. QED
      BY <2>1, <2>2 DEF StepsOf
  <1>4. ASSUME NEW x \in StepsOf(s), x # Head(s) PROVE x \in StepsOf(Tail(s))
    <2>1. PICK i \in 1 .. Len(s) : x = s[i]
      BY DEF StepsOf
    <2>2. i # 1 /\ i - 1 \in 1 .. Len(s) - 1 /\ Tail(s)[i - 1] = x
      BY <2>1, <1>2, <1>4
    <2>3. QED
      BY <2>2, <1>2 DEF StepsOf
  <1>5. Head(s) \in StepsOf(s)
    BY <1>2 DEF StepsOf
  <1>6. QED
    BY <1>2, <1>3, <1>4, <1>5

(* Plans follow one another in order when their steps do.                       *)
LEMMA ConcatOrdered ==
    ASSUME NEW s, NEW t, Ordered(s), Ordered(t),
           \A x \in StepsOf(s) : \A y \in StepsOf(t) : Slot(x) < Slot(y)
    PROVE  Ordered(s \o t) /\ StepsOf(s \o t) = StepsOf(s) \cup StepsOf(t)
  <1>1. /\ \E S : s \o t \in Seq(S)
        /\ Len(s) \in Nat /\ Len(t) \in Nat /\ Len(s \o t) = Len(s) + Len(t)
        /\ \A i \in 1 .. Len(s \o t) : (s \o t)[i] = IF i <= Len(s) THEN s[i] ELSE t[i - Len(s)]
        /\ StepsOf(s \o t) = StepsOf(s) \cup StepsOf(t)
    BY ConcatSteps DEF Ordered
  <1>2. ASSUME NEW i \in 1 .. Len(s \o t), NEW j \in 1 .. Len(s \o t), i < j
        PROVE  Slot((s \o t)[i]) < Slot((s \o t)[j])
    <2>1. CASE j <= Len(s)
      BY <2>1, <1>1, <1>2 DEF Ordered
    <2>2. CASE i > Len(s)
      <3>1. /\ i - Len(s) \in 1 .. Len(t) /\ j - Len(s) \in 1 .. Len(t)
            /\ i - Len(s) < j - Len(s)
            /\ (s \o t)[i] = t[i - Len(s)] /\ (s \o t)[j] = t[j - Len(s)]
        BY <2>2, <1>1, <1>2
      <3>2. QED
        BY <3>1 DEF Ordered
    <2>3. CASE i <= Len(s) /\ j > Len(s)
      <3>1. /\ i \in 1 .. Len(s) /\ j - Len(s) \in 1 .. Len(t)
            /\ (s \o t)[i] = s[i] /\ (s \o t)[j] = t[j - Len(s)]
        BY <2>3, <1>1, <1>2
      <3>2. QED
        BY <3>1 DEF StepsOf
    <2>4. QED
      BY <2>1, <2>2, <2>3, <1>1, <1>2
  <1>3. QED
    BY <1>1, <1>2 DEF Ordered

(* A single step, or none.                                                      *)
LEMMA SingleOrdered ==
    ASSUME NEW condition, NEW step
    PROVE  /\ Ordered(StepIf(condition, step))
           /\ StepsOf(StepIf(condition, step)) = IF condition THEN {step} ELSE {}
           /\ StepIf(condition, step) = <<>> <=> ~ condition
  <1>1. CASE condition
    <2>1. StepIf(condition, step) = <<step>>
      BY <1>1 DEF StepIf
    <2>2. /\ <<step>> \in Seq({step}) /\ Len(<<step>>) = 1
          /\ \A i \in 1 .. 1 : <<step>>[i] = step
          /\ <<step>> # <<>>
      OBVIOUS
    <2>3. StepsOf(<<step>>) = {step}
      BY <2>2 DEF StepsOf
    <2>4. Ordered(<<step>>)
      <3>1. \A i, j \in 1 .. 1 : ~ (i < j)
        OBVIOUS
      <3>2. QED
        BY <2>2, <3>1 DEF Ordered
    <2>5. QED
      BY <1>1, <2>1, <2>2, <2>3, <2>4
  <1>2. CASE ~ condition
    BY <1>2 DEF StepIf, Ordered, StepsOf
  <1>3. QED
    BY <1>1, <1>2

(* Taking the first step leaves the others, all of them later.                  *)
LEMMA TailOrdered ==
    ASSUME NEW s, Ordered(s), s # <<>>
    PROVE  /\ Head(s) \in StepsOf(s)
           /\ Ordered(Tail(s))
           /\ StepsOf(Tail(s)) = StepsOf(s) \ {Head(s)}
           /\ \A x \in StepsOf(Tail(s)) : Slot(Head(s)) < Slot(x)
  <1>1. PICK S : s \in Seq(S)
    BY DEF Ordered
  <1>2. /\ Head(s) = s[1] /\ Tail(s) \in Seq(S)
        /\ Len(s) \in Nat \ {0} /\ Len(Tail(s)) = Len(s) - 1
        /\ \A i \in 1 .. Len(s) - 1 : Tail(s)[i] = s[i + 1]
    BY <1>1, HeadTailProperties, LenProperties, EmptySeq
  <1>3. \A x \in StepsOf(Tail(s)) : \E i \in 1 .. Len(s) - 1 : x = s[i + 1]
    BY <1>2 DEF StepsOf
  <1>4. \A i \in 1 .. Len(s) - 1 : i + 1 \in 1 .. Len(s) /\ 1 \in 1 .. Len(s) /\ 1 < i + 1
    BY <1>2
  <1>5. ASSUME NEW x \in StepsOf(Tail(s)) PROVE x \in StepsOf(s) /\ Slot(Head(s)) < Slot(x)
    <2>1. PICK i \in 1 .. Len(s) - 1 : x = s[i + 1]
      BY <1>3
    <2>2. QED
      BY <2>1, <1>2, <1>4 DEF StepsOf, Ordered
  <1>6. ASSUME NEW x \in StepsOf(s), x # Head(s) PROVE x \in StepsOf(Tail(s))
    <2>1. PICK i \in 1 .. Len(s) : x = s[i]
      BY DEF StepsOf
    <2>2. i # 1 /\ i - 1 \in 1 .. Len(s) - 1 /\ Tail(s)[i - 1] = x
      BY <2>1, <1>2, <1>6
    <2>3. QED
      BY <2>2, <1>2 DEF StepsOf
  <1>7. Head(s) \in StepsOf(s)
    BY <1>2 DEF StepsOf
  <1>8. \A x : Slot(x) \in Nat
    BY DEF Slot
  <1>9. Head(s) \notin StepsOf(Tail(s))
    BY <1>5, <1>8
  <1>10. Ordered(Tail(s))
    <2>1. ASSUME NEW i \in 1 .. Len(Tail(s)), NEW j \in 1 .. Len(Tail(s)), i < j
          PROVE  Slot(Tail(s)[i]) < Slot(Tail(s)[j])
      <3>1. /\ i + 1 \in 1 .. Len(s) /\ j + 1 \in 1 .. Len(s) /\ i + 1 < j + 1
            /\ Tail(s)[i] = s[i + 1] /\ Tail(s)[j] = s[j + 1]
        BY <1>2, <2>1
      <3>2. QED
        BY <3>1 DEF Ordered
    <2>2. QED
      BY <1>2, <2>1 DEF Ordered
  <1>11. QED
    BY <1>5, <1>6, <1>7, <1>9, <1>10

(* Adding one step, later than all, or none.                                    *)
LEMMA AddStep ==
    ASSUME NEW s, NEW condition, NEW step, Ordered(s),
           \A x \in StepsOf(s) : Slot(x) < Slot(step)
    PROVE  /\ Ordered(s \o StepIf(condition, step))
           /\ StepsOf(s \o StepIf(condition, step)) = StepsOf(s) \cup (IF condition THEN {step} ELSE {})
  <1>1. /\ Ordered(StepIf(condition, step))
        /\ StepsOf(StepIf(condition, step)) = IF condition THEN {step} ELSE {}
    BY SingleOrdered
  <1>2. \A x \in StepsOf(s) : \A y \in StepsOf(StepIf(condition, step)) : Slot(x) < Slot(y)
    BY <1>1
  <1>3. QED
    BY <1>1, <1>2, ConcatOrdered

(* There is a first step exactly when there is a step.                          *)
LEMMA NoSteps ==
    ASSUME NEW s, Ordered(s)
    PROVE  s = <<>> <=> StepsOf(s) = {}
  <1>1. CASE s = <<>>
    BY <1>1 DEF StepsOf
  <1>2. CASE s # <<>>
    BY <1>2, TailOrdered
  <1>3. QED
    BY <1>1, <1>2

----------------------------------------------------------------------------
(* The two plans.                                                               *)

GrownTable(from, to) == IF Shrinks(from, to) THEN Union(from, to) ELSE to

(* The plan of an apply has a step for each endpoint that is to change, and for *)
(* the table one to grow it and one to shrink it, in the order of their slots.  *)
LEMMA WritesSteps ==
    ASSUME NEW from, NEW to
    PROVE  /\ Ordered(Writes(from, to))
           /\ \A step : step \in StepsOf(Writes(from, to)) <=>
                \/ GrownTable(from.vlan, to.vlan) # from.vlan
                   /\ step = Step("vlan", GrownTable(from.vlan, to.vlan), "grow")
                \/ from["fwd"] # to["fwd"] /\ step = Step("fwd", to["fwd"], "apply")
                \/ from["link"] # to["link"] /\ step = Step("link", to["link"], "apply")
                \/ from["snmp"] # to["snmp"] /\ step = Step("snmp", to["snmp"], "apply")
                \/ Shrinks(from.vlan, to.vlan) /\ step = Step("vlan", to.vlan, "shrink")
                \/ from["sys"] # to["sys"] /\ step = Step("sys", to["sys"], "apply")
  <1> DEFINE g == Step("vlan", GrownTable(from.vlan, to.vlan), "grow")
             f == Step("fwd", to["fwd"], "apply")
             l == Step("link", to["link"], "apply")
             n == Step("snmp", to["snmp"], "apply")
             h == Step("vlan", to.vlan, "shrink")
             y == Step("sys", to["sys"], "apply")
             gc == GrownTable(from.vlan, to.vlan) # from.vlan
             fc == from["fwd"] # to["fwd"]
             lc == from["link"] # to["link"]
             nc == from["snmp"] # to["snmp"]
             hc == Shrinks(from.vlan, to.vlan)
             yc == from["sys"] # to["sys"]
  <1>1. /\ Slot(g) = 1 /\ Slot(f) = 2 /\ Slot(l) = 3
        /\ Slot(n) = 5 /\ Slot(h) = 6 /\ Slot(y) = 7
    BY DEF Slot, Step
  <1>2. Writes(from, to) = StepIf(gc, g) \o StepIf(fc, f) \o StepIf(lc, l) \o StepIf(nc, n)
                             \o StepIf(hc, h) \o StepIf(yc, y)
    BY DEF Writes, GrownTable
  <1> HIDE DEF g, f, l, n, h, y, gc, fc, lc, nc, hc, yc
  <1> DEFINE s1 == StepIf(gc, g)
             s2 == s1 \o StepIf(fc, f)
             s3 == s2 \o StepIf(lc, l)
             s4 == s3 \o StepIf(nc, n)
             s5 == s4 \o StepIf(hc, h)
             s6 == s5 \o StepIf(yc, y)
  <1>3. Ordered(s1) /\ StepsOf(s1) = (IF gc THEN {g} ELSE {})
    BY SingleOrdered
  <1> HIDE DEF s1
  <1>4. Ordered(s2) /\ StepsOf(s2) = StepsOf(s1) \cup (IF fc THEN {f} ELSE {})
    BY <1>1, <1>3, AddStep
  <1> HIDE DEF s2
  <1>5. Ordered(s3) /\ StepsOf(s3) = StepsOf(s2) \cup (IF lc THEN {l} ELSE {})
    BY <1>1, <1>3, <1>4, AddStep
  <1> HIDE DEF s3
  <1>6. Ordered(s4) /\ StepsOf(s4) = StepsOf(s3) \cup (IF nc THEN {n} ELSE {})
    BY <1>1, <1>3, <1>4, <1>5, AddStep
  <1> HIDE DEF s4
  <1>7. Ordered(s5) /\ StepsOf(s5) = StepsOf(s4) \cup (IF hc THEN {h} ELSE {})
    BY <1>1, <1>3, <1>4, <1>5, <1>6, AddStep
  <1> HIDE DEF s5
  <1>8. Ordered(s6) /\ StepsOf(s6) = StepsOf(s5) \cup (IF yc THEN {y} ELSE {})
    BY <1>1, <1>3, <1>4, <1>5, <1>6, <1>7, AddStep
  <1>9. s6 = Writes(from, to)
    BY <1>2 DEF s1, s2, s3, s4, s5
  <1> HIDE DEF s6
  <1>10. /\ Ordered(Writes(from, to))
         /\ \A step : step \in StepsOf(Writes(from, to)) <=>
              \/ gc /\ step = g
              \/ fc /\ step = f
              \/ lc /\ step = l
              \/ nc /\ step = n
              \/ hc /\ step = h
              \/ yc /\ step = y
    BY <1>3, <1>4, <1>5, <1>6, <1>7, <1>8, <1>9
  <1>11. QED
    BY <1>10 DEF g, f, l, n, h, y, gc, fc, lc, nc, hc, yc

(* The restore writes every endpoint: the table with both first, then the ports *)
(* and the old table.                                                           *)
LEMMA RestoreSteps ==
    ASSUME NEW table, NEW snapshot
    PROVE  /\ Ordered(RestoreWrites(table, snapshot))
           /\ \A step : step \in StepsOf(RestoreWrites(table, snapshot)) <=>
                \/ step = Step("vlan", Union(table, snapshot.vlan), "grow")
                \/ \E ep \in Endpoints : step = Step(ep, snapshot[ep], "apply")
  <1> DEFINE eps == <<"fwd", "link", "vlan", "snmp", "sys">>
             t == [i \in 1 .. 5 |-> LET ep == eps[i] IN Step(ep, snapshot[ep], "apply")]
             g == Step("vlan", Union(table, snapshot.vlan), "grow")
  <1>1. RestoreWrites(table, snapshot) = <<g>> \o t
    BY DEF RestoreWrites
  <1>2. /\ eps[1] = "fwd" /\ eps[2] = "link" /\ eps[3] = "vlan" /\ eps[4] = "snmp" /\ eps[5] = "sys"
    OBVIOUS
  <1>3. Endpoints = {"vlan", "fwd", "link", "snmp", "sys"}
    BY DEF Endpoints, CONFIG_ENDPOINTS, ToSet
  <1>4. /\ t[1] = Step("fwd", snapshot["fwd"], "apply")
        /\ t[2] = Step("link", snapshot["link"], "apply")
        /\ t[3] = Step("vlan", snapshot["vlan"], "apply")
        /\ t[4] = Step("snmp", snapshot["snmp"], "apply")
        /\ t[5] = Step("sys", snapshot["sys"], "apply")
    BY <1>2
  <1> HIDE DEF eps
  <1>5. \E S : t \in Seq(S) /\ Len(t) = 5
    <2> DEFINE S == {t[i] : i \in 1 .. 5}
    <2>1. t \in [1 .. 5 -> S]
      OBVIOUS
    <2> HIDE DEF S, t
    <2>2. t \in Seq(S)
      BY <2>1, SeqDef
    <2>3. Len(t) \in Nat /\ DOMAIN t = 1 .. Len(t) /\ DOMAIN t = 1 .. 5
      BY <2>1, <2>2, LenProperties
    <2>4. Len(t) = 5
      <3>1. 5 \in 1 .. Len(t)
        BY <2>3
      <3>2. Len(t) \in 1 .. Len(t)
        BY <2>3, <3>1
      <3>3. Len(t) \in 1 .. 5
        BY <2>3, <3>2
      <3>4. QED
        BY <2>3, <3>1, <3>3
    <2>5. QED
      BY <2>2, <2>4
  <1> HIDE DEF t
  <1>6. 1 .. 5 = {1, 2, 3, 4, 5}
    OBVIOUS
  <1>7. \A step : step \in StepsOf(t) <=> \E ep \in Endpoints : step = Step(ep, snapshot[ep], "apply")
    BY <1>3, <1>4, <1>5, <1>6 DEF StepsOf
  <1>8. /\ Slot(t[1]) = 2 /\ Slot(t[2]) = 3 /\ Slot(t[3]) = 4 /\ Slot(t[4]) = 5 /\ Slot(t[5]) = 7
    BY <1>4 DEF Slot, Step
  <1>9. Ordered(t)
    BY <1>5, <1>6, <1>8 DEF Ordered
  <1>10. Ordered(<<g>>) /\ StepsOf(<<g>>) = {g}
    <2>1. <<g>> = StepIf(TRUE, g)
      BY DEF StepIf
    <2>2. QED
      BY <2>1, SingleOrdered
  <1>11. Slot(g) = 1
    BY DEF Slot, Step
  <1>12. \A y \in StepsOf(t) : 1 < Slot(y)
    <2>1. \A ep \in Endpoints : 1 < Slot(Step(ep, snapshot[ep], "apply"))
      BY <1>3 DEF Slot, Step
    <2>2. QED
      BY <2>1, <1>7
  <1> HIDE DEF g
  <1>13. /\ Ordered(<<g>> \o t)
         /\ StepsOf(<<g>> \o t) = {g} \cup StepsOf(t)
    BY <1>9, <1>10, <1>11, <1>12, ConcatOrdered
  <1>14. QED
    BY <1>1, <1>7, <1>13 DEF g

----------------------------------------------------------------------------
(* What is read, and what the plan makes of it.                                 *)

LEMMA EndpointNames == Endpoints = {"vlan", "fwd", "link", "snmp", "sys"}
  BY DEF Endpoints, CONFIG_ENDPOINTS, ToSet

LEMMA StepFields ==
    \A ep, value, phase : /\ Step(ep, value, phase).endpoint = ep
                          /\ Step(ep, value, phase).value = value
                          /\ Step(ep, value, phase).phase = phase
  BY DEF Step

(* Every call reads something; a document's system settings and links always,   *)
(* and what else it is about.                                                   *)
LEMMA ReadsOf ==
    ASSUME NEW req, req.kind \in {"apply", "blob", "restore"},
           req.kind = "blob" => req.endpoint \in Endpoints
    PROVE  /\ EndpointsToRead(req) \in Seq(Endpoints) /\ EndpointsToRead(req) # <<>>
           /\ StepsOf(EndpointsToRead(req)) = ToSet(EndpointsToRead(req))
           /\ req.kind = "restore" => ToSet(EndpointsToRead(req)) = {"vlan"}
           /\ req.kind = "blob" => ToSet(EndpointsToRead(req)) = {req.endpoint}
           /\ req.kind = "apply" => ToSet(EndpointsToRead(req)) =
                {"link", "sys"} \cup (IF req.vlans # None \/ DOMAIN req.ports # {} THEN {"vlan", "fwd"} ELSE {})
                  \cup (IF req.snmp # None THEN {"snmp"} ELSE {})
  <1> DEFINE s == EndpointsToRead(req)
  <1>1. ASSUME s \in Seq(Endpoints) PROVE StepsOf(s) = ToSet(s)
    BY <1>1, LenProperties DEF StepsOf, ToSet
  <1>2. CASE req.kind = "restore"
    <2>1. s = <<"vlan">>
      BY <1>2 DEF EndpointsToRead
    <2>2. s \in Seq(Endpoints) /\ s # <<>> /\ ToSet(s) = {"vlan"}
      BY <2>1, EndpointNames DEF ToSet
    <2>3. QED
      BY <1>1, <1>2, <2>2
  <1>3. CASE req.kind = "blob"
    <2>1. s = <<req.endpoint>>
      BY <1>3 DEF EndpointsToRead
    <2>2. s \in Seq(Endpoints) /\ s # <<>> /\ ToSet(s) = {req.endpoint}
      BY <1>3, <2>1 DEF ToSet
    <2>3. QED
      BY <1>1, <1>3, <2>2
  <1>4. CASE req.kind = "apply"
    <2> DEFINE vs == req.vlans # None \/ DOMAIN req.ports # {}
               ns == req.snmp # None
    <2> DEFINE v == IF vs THEN <<"vlan", "fwd">> ELSE <<>>
               n == IF ns THEN <<"snmp">> ELSE <<>>
               l == <<"link">>
               y == <<"sys">>
               vl == v \o l
               vln == vl \o n
    <2>1. s = vln \o y
      BY <1>4 DEF EndpointsToRead
    <2> HIDE DEF vs, ns
    <2>2. v \in Seq(Endpoints) /\ StepsOf(v) = IF vs THEN {"vlan", "fwd"} ELSE {}
      <3>1. <<"vlan", "fwd">> \in Seq(Endpoints) /\ <<>> \in Seq(Endpoints)
        BY EndpointNames
      <3>2. QED
        BY <3>1, ShortSteps
    <2>3. n \in Seq(Endpoints) /\ StepsOf(n) = IF ns THEN {"snmp"} ELSE {}
      <3>1. <<"snmp">> \in Seq(Endpoints) /\ <<>> \in Seq(Endpoints)
        BY EndpointNames
      <3>2. QED
        BY <3>1, ShortSteps
    <2>4. /\ l \in Seq(Endpoints) /\ StepsOf(l) = {"link"}
          /\ y \in Seq(Endpoints) /\ StepsOf(y) = {"sys"}
      BY EndpointNames, ShortSteps
    <2> HIDE DEF v, n, l, y
    <2>5. vl \in Seq(Endpoints) /\ StepsOf(vl) = StepsOf(v) \cup {"link"}
      BY <2>2, <2>4, ConcatIn
    <2> HIDE DEF vl
    <2>6. vln \in Seq(Endpoints) /\ StepsOf(vln) = StepsOf(vl) \cup StepsOf(n)
      BY <2>3, <2>5, ConcatIn
    <2> HIDE DEF vln
    <2>7. s \in Seq(Endpoints) /\ StepsOf(s) = StepsOf(vln) \cup {"sys"}
      BY <2>1, <2>4, <2>6, ConcatIn
    <2>8. StepsOf(<<>>) = {}
      BY ShortSteps
    <2>9. s # <<>> /\ StepsOf(s) = ToSet(s)
      BY <1>1, <2>7, <2>8
    <2>10. ToSet(s) = {"link", "sys"} \cup (IF vs THEN {"vlan", "fwd"} ELSE {})
                       \cup (IF ns THEN {"snmp"} ELSE {})
      BY <2>2, <2>3, <2>5, <2>6, <2>7, <2>9
    <2>11. QED
      BY <1>4, <2>7, <2>9, <2>10 DEF vs, ns
  <1>5. QED
    BY <1>2, <1>3, <1>4

(* What is planned for an endpoint depends on what was read of it alone.        *)
LEMMA PlannedAlone ==
    ASSUME NEW req, NEW r, NEW t, NEW ep \in Endpoints, r[ep] = t[ep]
    PROVE  Planned(req, r)[ep] = Planned(req, t)[ep]
  <1>1. CASE ep = "vlan"
    BY <1>1 DEF Planned
  <1>2. CASE ep = "fwd"
    BY <1>2 DEF Planned
  <1>3. CASE ep = "link"
    BY <1>3 DEF Planned
  <1>4. CASE ep = "snmp"
    BY <1>4 DEF Planned
  <1>5. CASE ep = "sys"
    BY <1>5 DEF Planned
  <1>6. QED
    BY <1>1, <1>2, <1>3, <1>4, <1>5, EndpointNames

(* A document plans no change for an endpoint it does not read.                 *)
LEMMA PlannedUnread ==
    ASSUME NEW req, NEW r, NEW ep \in Endpoints, req.kind = "apply",
           ep \notin ToSet(EndpointsToRead(req)), r[ep] = Unread[ep]
    PROVE  Planned(req, r)[ep] = r[ep]
  <1>1. ep \in {"vlan", "fwd", "snmp"}
    BY ReadsOf, EndpointNames
  <1>2. CASE ep = "vlan"
    <2>1. req.vlans = None
      BY <1>2, ReadsOf
    <2>2. QED
      BY <1>2, <2>1 DEF Planned, PlannedTable
  <1>3. CASE ep = "fwd"
    <2>1. DOMAIN req.ports = {}
      BY <1>3, ReadsOf
    <2>2. Planned(req, r).fwd = [p \in Ports |-> r.fwd[p]]
      BY <2>1 DEF Planned
    <2>3. r.fwd = [p \in Ports |-> r.fwd[p]]
      BY <1>3 DEF Unread
    <2>4. QED
      BY <1>3, <2>2, <2>3
  <1>4. CASE ep = "snmp"
    <2>1. req.snmp = None
      BY <1>4, ReadsOf
    <2>2. QED
      BY <1>4, <2>1 DEF Planned
  <1>5. QED
    BY <1>1, <1>2, <1>3, <1>4

----------------------------------------------------------------------------
(* A plan as it is made: nothing of it is written yet.                          *)

Fresh(cl, sw, D, b) ==
    /\ Ordered(cl.writes)
    /\ \A step \in StepsOf(cl.writes) : Proper(cl, step)
    /\ cl.req.kind = "restore" => cl.goal = b
    /\ cl.req.kind # "restore" => \A ep \in Endpoints \ D : cl.goal[ep] = Planned(cl.req, Seen(cl))[ep]
    /\ \A ep \in Endpoints \ D : Progress(cl, sw, ep)
    /\ "vlan" \notin D => TableInOrder(cl)

LEMMA ApplyPlan ==
    ASSUME NEW cl, NEW read, NEW D, NEW sw, NEW b,
           cl.req.kind = "apply",
           cl.goal = Planned(cl.req, read), cl.writes = Writes(read, cl.goal),
           \A ep \in Endpoints \ ToRead(cl) : read[ep] = Unread[ep],
           \A ep \in Endpoints \ D : read[ep] = Seen(cl)[ep] /\ sw[ep] = cl.from[ep]
    PROVE  Fresh(cl, sw, D, b)
  <1> DEFINE table == GrownTable(read.vlan, cl.goal.vlan)
  <1>1. /\ Ordered(cl.writes)
        /\ \A step : step \in StepsOf(cl.writes) <=>
             \/ table # read.vlan /\ step = Step("vlan", table, "grow")
             \/ \E ep \in {"fwd", "link", "snmp", "sys"} :
                  read[ep] # cl.goal[ep] /\ step = Step(ep, cl.goal[ep], "apply")
             \/ Shrinks(read.vlan, cl.goal.vlan) /\ step = Step("vlan", cl.goal.vlan, "shrink")
    BY WritesSteps
  <1> HIDE DEF table
  <1>2. \A ep \in Endpoints \ ToRead(cl) : cl.goal[ep] = read[ep]
    BY PlannedUnread DEF ToRead
  <1>3. "vlan" \notin ToRead(cl) => table = read.vlan /\ ~ Shrinks(read.vlan, cl.goal.vlan)
    <2>1. SUFFICES ASSUME cl.goal.vlan = read.vlan
                   PROVE  table = read.vlan /\ ~ Shrinks(read.vlan, cl.goal.vlan)
      BY <1>2, EndpointNames
    <2>2. ~ Shrinks(read.vlan, cl.goal.vlan)
      BY <2>1 DEF Shrinks
    <2>3. QED
      BY <2>1, <2>2 DEF table, GrownTable
  <1>4. ASSUME NEW step \in StepsOf(cl.writes) PROVE Proper(cl, step)
    BY <1>1, <1>2, <1>3, EndpointNames, StepFields DEF Proper, Grows
  <1>5. \A ep \in Endpoints \ D : cl.goal[ep] = Planned(cl.req, Seen(cl))[ep]
    BY PlannedAlone
  <1>6. \A ep \in (Endpoints \ D) \cap ToRead(cl) : read[ep] = cl.from[ep]
    BY DEF Seen
  <1>7. "vlan" \notin D /\ "vlan" \in ToRead(cl) => read.vlan = cl.from.vlan /\ table = Grown(cl)
    BY <1>6, EndpointNames DEF Grown, GrownTable, table
  <1>8. ~ Shrinks(read.vlan, cl.goal.vlan) => table = cl.goal.vlan
    BY DEF table, GrownTable
  <1>9. ASSUME "vlan" \notin D PROVE TableInOrder(cl)
    <2>1. ASSUME NEW step \in StepsOf(cl.writes), Grows(step)
          PROVE  (\E other \in StepsOf(cl.writes) : Ends(other)) \/ Grown(cl) = cl.goal.vlan
      <3>1. "vlan" \in ToRead(cl)
        BY <1>4, <2>1 DEF Proper, Grows
      <3>2. CASE Shrinks(read.vlan, cl.goal.vlan)
        <4>1. Step("vlan", cl.goal.vlan, "shrink") \in StepsOf(cl.writes)
          BY <1>1, <3>2
        <4>2. QED
          BY <4>1, StepFields DEF Ends
      <3>3. CASE ~ Shrinks(read.vlan, cl.goal.vlan)
        BY <1>7, <1>8, <1>9, <3>1, <3>3
      <3>4. QED
        BY <3>2, <3>3
    <2>2. ASSUME WillEnd(cl) PROVE \E step \in StepsOf(cl.writes) : Ends(step)
      <3>1. Shrinks(read.vlan, cl.goal.vlan)
        BY <1>7, <1>9, <2>2 DEF WillEnd
      <3>2. Step("vlan", cl.goal.vlan, "shrink") \in StepsOf(cl.writes)
        BY <1>1, <3>1
      <3>3. QED
        BY <3>2, StepFields DEF Ends
    <2>3. QED
      BY <2>1, <2>2 DEF TableInOrder
  <1>10. ASSUME NEW ep \in Endpoints \ D PROVE Progress(cl, sw, ep)
    <2>1. sw[ep] = cl.from[ep]
      OBVIOUS
    <2>2. ASSUME NEW step \in StepsOf(cl.writes), step.endpoint = ep
          PROVE  /\ step.value = After(cl, step)
                 /\ step.phase = "apply" => cl.from[ep] # cl.goal[ep]
                 /\ (\A other \in StepsOf(cl.writes) : other.endpoint = ep => Slot(step) <= Slot(other))
                      => sw[ep] = Before(cl, step)
      <3>1. ep \in ToRead(cl) /\ read[ep] = cl.from[ep]
        BY <1>4, <1>6, <2>2 DEF Proper
      <3>2. CASE table # read.vlan /\ step = Step("vlan", table, "grow")
        BY <1>7, <2>1, <2>2, <3>1, <3>2, StepFields DEF After, Before
      <3>3. CASE \E e \in {"fwd", "link", "snmp", "sys"} :
                   read[e] # cl.goal[e] /\ step = Step(e, cl.goal[e], "apply")
        BY <2>1, <2>2, <3>1, <3>3, StepFields DEF After, Before
      <3>4. CASE Shrinks(read.vlan, cl.goal.vlan) /\ step = Step("vlan", cl.goal.vlan, "shrink")
        <4>1. ep = "vlan" /\ step.phase = "shrink" /\ step.value = After(cl, step)
          BY <2>2, <3>4, StepFields DEF After
        <4>2. ASSUME \A other \in StepsOf(cl.writes) : other.endpoint = ep => Slot(step) <= Slot(other)
              PROVE  sw[ep] = Before(cl, step)
          <5>1. table = read.vlan
            <6>1. SUFFICES ASSUME table # read.vlan PROVE FALSE
              OBVIOUS
            <6> DEFINE g == Step("vlan", table, "grow")
            <6>2. g \in StepsOf(cl.writes)
              BY <1>1, <6>1
            <6>3. g.endpoint = "vlan" /\ g.phase = "grow"
              BY StepFields
            <6> HIDE DEF g
            <6>4. Slot(g) = 1 /\ Slot(step) = 6
              BY <2>2, <4>1, <6>3 DEF Slot
            <6>5. QED
              BY <4>1, <4>2, <6>2, <6>3, <6>4
          <5>2. QED
            BY <1>7, <2>1, <2>2, <3>1, <4>1, <5>1 DEF Before
        <4>3. QED
          BY <4>1, <4>2
      <3>5. QED
        BY <1>1, <3>2, <3>3, <3>4
    <2>3. ASSUME \A step \in StepsOf(cl.writes) : step.endpoint # ep PROVE sw[ep] = AimOf(cl)[ep]
      <3>1. read[ep] = cl.goal[ep]
        <4>1. CASE ep = "vlan"
          <5>1. ~ Shrinks(read.vlan, cl.goal.vlan)
            <6>1. Step("vlan", cl.goal.vlan, "shrink") \notin StepsOf(cl.writes)
              BY <2>3, <4>1, StepFields
            <6>2. QED
              BY <1>1, <6>1
          <5>2. table = read.vlan
            <6>1. Step("vlan", table, "grow") \notin StepsOf(cl.writes)
              BY <2>3, <4>1, StepFields
            <6>2. QED
              BY <1>1, <6>1
          <5>3. QED
            BY <1>8, <4>1, <5>1, <5>2
        <4>2. CASE ep # "vlan"
          <5>1. Step(ep, cl.goal[ep], "apply") \notin StepsOf(cl.writes)
            BY <2>3, StepFields
          <5>2. ep \in {"fwd", "link", "snmp", "sys"}
            BY <4>2, EndpointNames
          <5>3. QED
            BY <1>1, <5>1, <5>2
        <4>3. QED
          BY <4>1, <4>2
      <3>2. QED
        BY <1>6, <2>1, <3>1 DEF AimOf
    <2>4. QED
      BY <2>1, <2>2, <2>3 DEF Progress
  <1>11. QED
    BY <1>1, <1>4, <1>5, <1>9, <1>10 DEF Fresh

LEMMA BlobPlan ==
    ASSUME NEW cl, NEW read, NEW D, NEW sw, NEW b,
           cl.req.kind = "blob", cl.req.endpoint \in Endpoints,
           cl.goal = Planned(cl.req, read),
           cl.writes = StepIf(read # cl.goal, Step(cl.req.endpoint, cl.goal[cl.req.endpoint], "blob")),
           \A ep \in Endpoints \ D : read[ep] = Seen(cl)[ep] /\ sw[ep] = cl.from[ep]
    PROVE  Fresh(cl, sw, D, b)
  <1> DEFINE e == cl.req.endpoint
             w == Step(e, cl.goal[e], "blob")
  <1>1. Ordered(cl.writes) /\ StepsOf(cl.writes) = IF read # cl.goal THEN {w} ELSE {}
    BY SingleOrdered
  <1>2. ToRead(cl) = {e}
    BY ReadsOf DEF ToRead
  <1>3. w.endpoint = e /\ w.value = cl.goal[e] /\ w.phase = "blob"
    BY StepFields
  <1> HIDE DEF w
  <1>4. \A step \in StepsOf(cl.writes) : Proper(cl, step)
    BY <1>1, <1>2, <1>3 DEF Proper
  <1>5. \A ep \in Endpoints \ D : cl.goal[ep] = Planned(cl.req, Seen(cl))[ep]
    BY PlannedAlone
  <1>6. TableInOrder(cl)
    BY <1>1, <1>3 DEF TableInOrder, Grows, WillEnd
  <1>7. ASSUME NEW ep \in Endpoints \ D PROVE Progress(cl, sw, ep)
    <2>1. sw[ep] = cl.from[ep]
      OBVIOUS
    <2>2. ASSUME NEW step \in StepsOf(cl.writes), step.endpoint = ep
          PROVE  step.value = After(cl, step) /\ sw[ep] = Before(cl, step)
      BY <1>1, <1>3, <2>1, <2>2 DEF After, Before, Grown
    <2>3. ASSUME \A step \in StepsOf(cl.writes) : step.endpoint # ep PROVE sw[ep] = AimOf(cl)[ep]
      <3>1. CASE ep = e
        <4>1. cl.goal[e] = read[e]
          BY <1>1, <1>3, <2>3, <3>1
        <4>2. read[e] = cl.from[e]
          BY <1>2, <3>1 DEF Seen
        <4>3. QED
          BY <1>2, <2>1, <3>1, <4>1, <4>2 DEF AimOf
      <3>2. CASE ep # e
        BY <1>2, <2>1, <3>2 DEF AimOf
      <3>3. QED
        BY <3>1, <3>2
    <2>4. QED
      BY <2>1, <2>2, <2>3 DEF Progress
  <1>8. QED
    BY <1>1, <1>4, <1>5, <1>6, <1>7 DEF Fresh

LEMMA RestorePlan ==
    ASSUME NEW cl, NEW read, NEW D, NEW sw, NEW b,
           cl.req.kind = "restore",
           cl.goal = b, cl.writes = RestoreWrites(read.vlan, b),
           \A ep \in Endpoints \ D : read[ep] = Seen(cl)[ep] /\ sw[ep] = cl.from[ep]
    PROVE  Fresh(cl, sw, D, b)
  <1> DEFINE g == Step("vlan", Union(read.vlan, b.vlan), "grow")
  <1>1. /\ Ordered(cl.writes)
        /\ \A step : step \in StepsOf(cl.writes) <=>
             step = g \/ \E ep \in Endpoints : step = Step(ep, b[ep], "apply")
    BY RestoreSteps
  <1>2. g.endpoint = "vlan" /\ g.value = Union(read.vlan, b.vlan) /\ g.phase = "grow"
    BY StepFields
  <1> HIDE DEF g
  <1>3. \A step \in StepsOf(cl.writes) : Proper(cl, step)
    BY <1>1, <1>2, EndpointNames, StepFields DEF Proper, Grows
  <1>4. \A ep \in Endpoints : \E step \in StepsOf(cl.writes) : step = Step(ep, b[ep], "apply")
    BY <1>1
  <1>5. TableInOrder(cl)
    <2>1. \E step \in StepsOf(cl.writes) : Ends(step)
      BY <1>4, EndpointNames, StepFields DEF Ends
    <2>2. QED
      BY <2>1 DEF TableInOrder
  <1>6. "vlan" \notin D => read.vlan = cl.from.vlan
    <2>1. "vlan" \in ToRead(cl)
      BY ReadsOf DEF ToRead
    <2>2. QED
      BY <2>1, EndpointNames DEF Seen
  <1>7. ASSUME NEW ep \in Endpoints \ D PROVE Progress(cl, sw, ep)
    <2>1. sw[ep] = cl.from[ep]
      OBVIOUS
    <2>2. ASSUME NEW step \in StepsOf(cl.writes), step.endpoint = ep
          PROVE  /\ step.value = After(cl, step)
                 /\ (\A other \in StepsOf(cl.writes) : other.endpoint = ep => Slot(step) <= Slot(other))
                      => sw[ep] = Before(cl, step)
      <3>1. CASE step = g
        BY <1>2, <1>6, <2>1, <2>2, <3>1 DEF After, Before, Grown
      <3>2. CASE step = Step(ep, b[ep], "apply")
        <4>1. step.value = b[ep] /\ step.phase = "apply"
          BY <3>2, StepFields
        <4>2. ASSUME ep = "vlan", Slot(step) <= Slot(g) PROVE FALSE
          BY <1>2, <2>2, <4>1, <4>2 DEF Slot
        <4>3. g \in StepsOf(cl.writes)
          BY <1>1
        <4>4. QED
          BY <1>2, <2>1, <2>2, <4>1, <4>2, <4>3 DEF After, Before
      <3>3. QED
        BY <1>1, <2>2, <3>1, <3>2, StepFields
    <2>3. \E step \in StepsOf(cl.writes) : step.endpoint = ep
      BY <1>4, StepFields
    <2>4. QED
      BY <2>1, <2>2, <2>3 DEF Progress
  <1>8. QED
    BY <1>1, <1>3, <1>5, <1>7 DEF Fresh

(* What Decide makes of what was read, whichever call it is.                    *)
DecidedFrom(cl, read, b) ==
    /\ cl.goal = IF cl.req.kind = "restore" THEN b ELSE Planned(cl.req, read)
    /\ cl.writes = CASE cl.req.kind = "restore" -> RestoreWrites(read.vlan, b)
                     [] cl.req.kind = "apply" -> Writes(read, cl.goal)
                     [] cl.req.kind = "blob" ->
                          StepIf(read # cl.goal, Step(cl.req.endpoint, cl.goal[cl.req.endpoint], "blob"))

LEMMA DecidedIsFresh ==
    ASSUME NEW cl, NEW read, NEW D, NEW sw, NEW b,
           cl.req.kind \in {"apply", "blob", "restore"},
           cl.req.kind = "blob" => cl.req.endpoint \in Endpoints,
           DecidedFrom(cl, read, b),
           \A ep \in Endpoints \ ToRead(cl) : read[ep] = Unread[ep],
           \A ep \in (Endpoints \ D) \cap ToRead(cl) : read[ep] = sw[ep],
           \A ep \in Endpoints \ D : sw[ep] = cl.from[ep]
    PROVE  /\ Fresh(cl, sw, D, b)
           /\ cl.req.kind = "restore" => cl.writes # <<>>
  <1>1. \A ep \in Endpoints \ D : read[ep] = Seen(cl)[ep] /\ sw[ep] = cl.from[ep]
    BY DEF Seen
  <1>2. CASE cl.req.kind = "apply"
    <2>1. cl.goal = Planned(cl.req, read) /\ cl.writes = Writes(read, cl.goal)
      BY <1>2 DEF DecidedFrom
    <2>2. QED
      BY <1>1, <1>2, <2>1, ApplyPlan
  <1>3. CASE cl.req.kind = "blob"
    <2>1. /\ cl.goal = Planned(cl.req, read)
          /\ cl.writes = StepIf(read # cl.goal, Step(cl.req.endpoint, cl.goal[cl.req.endpoint], "blob"))
      BY <1>3 DEF DecidedFrom
    <2>2. QED
      BY <1>1, <1>3, <2>1, BlobPlan
  <1>4. CASE cl.req.kind = "restore"
    <2>1. cl.goal = b /\ cl.writes = RestoreWrites(read.vlan, b)
      BY <1>4 DEF DecidedFrom
    <2>2. Fresh(cl, sw, D, b)
      BY <1>1, <1>4, <2>1, RestorePlan
    <2>3. StepsOf(cl.writes) # {} /\ Ordered(cl.writes)
      BY <2>1, RestoreSteps
    <2>4. QED
      BY <2>2, <2>3, NoSteps
  <1>5. QED
    BY <1>2, <1>3, <1>4

(* The plan is refused, empty, shown, or to be written.                         *)
LEMMA DecideKeeps ==
    ASSUME NEW cl, NEW sw, NEW D, NEW b,
           Running(cl, b), cl.at = "read", Untouched(cl, sw, D),
           cl.read = [ep \in Endpoints |-> cl.read[ep]],
           \A ep \in Endpoints \ ToRead(cl) : cl.read[ep] = Unread[ep],
           \A ep \in (Endpoints \ D) \cap ToRead(cl) : cl.read[ep] = sw[ep]
    PROVE  CallInv(Decide(cl, b), sw, D, b)
  <1> DEFINE req == cl.req
             goal == IF req.kind = "restore" THEN b ELSE Planned(req, cl.read)
             writes == CASE req.kind = "restore" -> RestoreWrites(cl.read.vlan, b)
                         [] req.kind = "apply" -> Writes(cl.read, goal)
                         [] req.kind = "blob" ->
                              StepIf(cl.read # goal, Step(req.endpoint, goal[req.endpoint], "blob"))
             planned == [cl EXCEPT !.writes = writes, !.goal = goal, !.at = "write"]
             refusal == IF req.kind = "apply" THEN Refusal(req, cl.read, goal) ELSE "none"
  <1>1. Decide(cl, b) = IF refusal # "none" THEN Ended(cl, refusal)
                        ELSE IF writes = <<>> THEN Ended(planned, "noChange")
                        ELSE IF req.dryRun THEN Ended(cl, "dryRun")
                        ELSE planned
    BY DEF Decide
  <1>2. /\ DOMAIN cl = Fields /\ cl.told = "nothing" /\ cl.written = {}
        /\ req.kind \in {"apply", "blob", "restore"}
        /\ req.kind = "blob" => req.endpoint \in Endpoints
        /\ req.kind = "restore" => ~ req.dryRun
        /\ req.kind # "restore" => cl.from = b
    BY DEF Running
  <1>3. refusal \in {"unordered", "management", "lockout", "none"}
    BY DEF Refusal
  <1>4. refusal # "none" => req.kind = "apply"
    OBVIOUS
  <1>5. req.kind = "apply" => refusal = Refusal(req, cl.read, goal)
    OBVIOUS
  <1> HIDE DEF refusal
  <1>6. ASSUME NEW told \in {"unordered", "management", "lockout", "dryRun"}, req.kind # "restore"
        PROVE  CallInv(Ended(cl, told), sw, D, b)
    <2> DEFINE new == Ended(cl, told)
    <2>1. /\ DOMAIN new = Fields /\ new.at = "ended" /\ new.told = told
          /\ new.req = cl.req /\ new.from = cl.from
      BY <1>2 DEF Ended, Fields
    <2> HIDE DEF new
    <2>2. Running(new, b)
      BY <1>2, <2>1 DEF Running
    <2>3. Untouched(new, sw, D)
      BY <2>1 DEF Untouched
    <2>4. ~ HasPlan(new)
      BY <2>1 DEF HasPlan
    <2>5. CallInv(new, sw, D, b)
      BY <1>6, <2>1, <2>2, <2>3, <2>4 DEF CallInv
    <2>6. QED
      BY <2>5 DEF new
  <1>7. ASSUME NEW new, DOMAIN new = Fields, new.req = cl.req, new.from = cl.from,
               new.goal = goal, new.writes = writes, new.written = {}, refusal = "none",
               \/ new.at = "write" /\ writes # <<>> /\ ~ req.dryRun /\ new.told = "nothing"
               \/ new.at = "ended" /\ writes = <<>> /\ new.told = "noChange"
        PROVE  CallInv(new, sw, D, b)
    <2>1. DecidedFrom(new, cl.read, b)
      BY <1>7 DEF DecidedFrom
    <2> HIDE DEF goal, writes
    <2>2. ToRead(new) = ToRead(cl) /\ Seen(new) = Seen(cl)
      BY <1>7 DEF ToRead, Seen
    <2>3. \A ep \in Endpoints \ D : sw[ep] = new.from[ep]
      BY <1>7 DEF Untouched
    <2>4. Fresh(new, sw, D, b) /\ (req.kind = "restore" => writes # <<>>)
      BY <1>2, <1>7, <2>1, <2>2, <2>3, DecidedIsFresh
    <2>5. PlanShape(new)
      BY <1>7, <2>4 DEF PlanShape, Fresh
    <2>6. PlanSource(new, D, b)
      <3>1. ASSUME req.kind = "apply", D = {} PROVE Refusal(req, Seen(new), goal) = "none"
        <4>1. \A ep \in Endpoints : cl.read[ep] = Seen(cl)[ep]
          BY <3>1 DEF Untouched, Seen
        <4>2. cl.read = Seen(cl)
          BY <4>1 DEF Seen
        <4>3. QED
          BY <1>5, <1>7, <2>2, <3>1, <4>2
      <3>2. QED
        BY <1>2, <1>7, <2>4, <3>1 DEF PlanSource, Fresh
    <2>7. "sys" \notin D => SysLast(new, sw)
      BY <2>3, EndpointNames DEF SysLast
    <2>8. \A ep \in Endpoints \ D : Reported(new, sw, ep)
      BY <2>3 DEF Reported
    <2>9. PlanInv(new, sw, D, b)
      BY <2>4, <2>5, <2>6, <2>7, <2>8 DEF PlanInv, Fresh
    <2>10. Running(new, b)
      BY <1>2, <1>7 DEF Running
    <2>11. QED
      BY <1>7, <2>3, <2>4, <2>9, <2>10 DEF CallInv, Untouched
  <1>8. CASE refusal # "none"
    BY <1>1, <1>3, <1>4, <1>6, <1>8
  <1>9. CASE refusal = "none" /\ writes = <<>>
    <2> DEFINE new == Ended(planned, "noChange")
    <2>1. /\ DOMAIN new = Fields /\ new.req = cl.req /\ new.from = cl.from /\ new.goal = goal
          /\ new.writes = writes /\ new.written = {} /\ new.at = "ended" /\ new.told = "noChange"
      BY <1>2 DEF Ended, Fields
    <2> HIDE DEF new
    <2>2. CallInv(new, sw, D, b)
      BY <1>7, <1>9, <2>1
    <2>3. QED
      BY <1>1, <1>9, <2>2 DEF new
  <1>10. CASE refusal = "none" /\ writes # <<>> /\ req.dryRun
    BY <1>1, <1>2, <1>6, <1>10
  <1>11. CASE refusal = "none" /\ writes # <<>> /\ ~ req.dryRun
    <2>1. /\ DOMAIN planned = Fields /\ planned.req = cl.req /\ planned.from = cl.from
          /\ planned.goal = goal /\ planned.writes = writes /\ planned.written = {}
          /\ planned.at = "write" /\ planned.told = "nothing"
      BY <1>2 DEF Fields
    <2> HIDE DEF planned
    <2>2. CallInv(planned, sw, D, b)
      BY <1>7, <1>11, <2>1
    <2>3. QED
      BY <1>1, <1>11, <2>2
  <1>12. QED
    BY <1>8, <1>9, <1>10, <1>11

----------------------------------------------------------------------------
(* The steps of a call.                                                         *)

LEMMA IdleKeeps ==
    ASSUME NEW sw, NEW D, NEW b
    PROVE  CallInv(Idle, sw, D, b)
  <1>1. /\ DOMAIN Idle = Fields /\ Idle.at = "idle" /\ Idle.told = "nothing" /\ Idle.written = {}
    BY DEF Idle, Fields
  <1>2. ~ HasPlan(Idle)
    BY <1>1 DEF HasPlan
  <1>3. QED
    BY <1>1, <1>2 DEF CallInv, Running

(* A call, or the rollback of one, begins.                                      *)
Begun(req, sw) == [Idle EXCEPT !.at = "read", !.req = req, !.todo = EndpointsToRead(req), !.from = sw]

LEMMA BegunKeeps ==
    ASSUME NEW sw, NEW D, NEW b, NEW req,
           req.kind \in {"apply", "blob", "restore"},
           req.kind = "blob" => req.endpoint \in Endpoints,
           req.kind = "restore" => ~ req.dryRun,
           req.kind # "restore" => b = sw
    PROVE  CallInv(Begun(req, sw), sw, D, b)
  <1> DEFINE new == Begun(req, sw)
  <1>1. /\ DOMAIN new = Fields /\ new.at = "read" /\ new.req = req /\ new.todo = EndpointsToRead(req)
        /\ new.from = sw /\ new.told = "nothing" /\ new.written = {} /\ new.read = Unread
    BY DEF Begun, Idle, Fields
  <1> HIDE DEF new
  <1>2. Running(new, b)
    BY <1>1 DEF Running
  <1>3. Unread = [ep \in Endpoints |-> Unread[ep]]
    BY EndpointNames DEF Unread
  <1>4. /\ EndpointsToRead(req) \in Seq(Endpoints) /\ EndpointsToRead(req) # <<>>
        /\ StepsOf(EndpointsToRead(req)) = ToSet(EndpointsToRead(req))
    BY ReadsOf
  <1>5. Reading(new, sw, D)
    BY <1>1, <1>3, <1>4 DEF Reading, ToRead
  <1>6. Untouched(new, sw, D)
    BY <1>1 DEF Untouched
  <1>7. ~ HasPlan(new)
    BY <1>1 DEF HasPlan
  <1>8. CallInv(new, sw, D, b)
    BY <1>1, <1>2, <1>5, <1>6, <1>7 DEF CallInv
  <1>9. QED
    BY <1>8 DEF new

(* What another caller writes takes its endpoint out of what is claimed.        *)
LEMMA DisturbKeeps ==
    ASSUME NEW cl, NEW sw, NEW D, NEW b, NEW e \in Endpoints, NEW v,
           DOMAIN sw = Endpoints, CallInv(cl, sw, D, b)
    PROVE  CallInv(cl, [sw EXCEPT ![e] = v], D \cup {e}, b)
  <1> DEFINE new == [sw EXCEPT ![e] = v]
             E == D \cup {e}
  <1>1. \A ep \in Endpoints \ E : ep \in Endpoints \ D /\ new[ep] = sw[ep]
    OBVIOUS
  <1>2. "vlan" \notin E => "vlan" \notin D
    OBVIOUS
  <1>3. "sys" \notin E => "sys" \notin D /\ new.sys = sw.sys
    BY <1>1, EndpointNames
  <1>4. E # {}
    OBVIOUS
  <1> HIDE DEF new, E
  <1>5. Reading(cl, sw, D) => Reading(cl, new, E)
    BY <1>1 DEF Reading
  <1>6. Untouched(cl, sw, D) => Untouched(cl, new, E)
    BY <1>1 DEF Untouched
  <1>7. PlanSource(cl, D, b) => PlanSource(cl, E, b)
    BY <1>1, <1>4 DEF PlanSource
  <1>8. \A ep \in Endpoints \ E : /\ Progress(cl, sw, ep) => Progress(cl, new, ep)
                                  /\ Reported(cl, sw, ep) => Reported(cl, new, ep)
    BY <1>1 DEF Progress, Reported
  <1>9. "sys" \notin E /\ SysLast(cl, sw) => SysLast(cl, new)
    BY <1>3 DEF SysLast
  <1>10. PlanInv(cl, sw, D, b) => PlanInv(cl, new, E, b)
    BY <1>1, <1>2, <1>3, <1>7, <1>8, <1>9 DEF PlanInv
  <1>11. CallInv(cl, new, E, b)
    BY <1>5, <1>6, <1>10 DEF CallInv
  <1>12. QED
    BY <1>11 DEF new, E

(* The first step that is left, and the switch after its POST, taken or not.    *)
Posted(cl, old, sw) ==
    \/ sw = old
    \/ sw = [old EXCEPT ![Head(cl.writes).endpoint] = Head(cl.writes).value]

LEMMA FirstStep ==
    ASSUME NEW cl, PlanShape(cl), cl.writes # <<>>
    PROVE  LET head == Head(cl.writes)
               left == StepsOf(Tail(cl.writes)) IN
           /\ head \in StepsOf(cl.writes) /\ Proper(cl, head) /\ head.endpoint \in Endpoints
           /\ left = StepsOf(cl.writes) \ {head} /\ Ordered(Tail(cl.writes))
           /\ \A step \in left : Slot(head) < Slot(step)
           /\ \A step \in left : ~ Grows(step)
           /\ (\E step \in StepsOf(cl.writes) : Grows(step)) => Grows(head)
           /\ head.endpoint = "sys" => left = {}
           /\ \A step \in left : step.endpoint = head.endpoint => Grows(head) /\ Ends(step)
  <1> DEFINE head == Head(cl.writes)
             left == StepsOf(Tail(cl.writes))
  <1>1. /\ head \in StepsOf(cl.writes) /\ left = StepsOf(cl.writes) \ {head}
        /\ Ordered(Tail(cl.writes))
        /\ \A step \in left : Slot(head) < Slot(step)
    BY TailOrdered DEF PlanShape
  <1>2. \A step \in StepsOf(cl.writes) : Proper(cl, step)
    BY DEF PlanShape
  <1> HIDE DEF head, left
  <1>3. \A step : Slot(step) \in 1 .. 7
    BY DEF Slot
  <1>4. \A step : Grows(step) => Slot(step) = 1
    BY DEF Slot, Grows
  <1>5. \A step \in left : ~ Grows(step)
    BY <1>1, <1>3, <1>4
  <1>6. head.endpoint = "sys" => left = {}
    <2>1. head.endpoint = "sys" => Slot(head) = 7
      BY DEF Slot
    <2>2. QED
      BY <1>1, <1>3, <2>1
  <1>7. ASSUME NEW step \in left, step.endpoint = head.endpoint PROVE Grows(head) /\ Ends(step)
    <2>1. Slot(head) < Slot(step)
      BY <1>1
    <2>2. head.endpoint = "vlan"
      BY <1>7, <2>1, <1>3 DEF Slot
    <2>3. Ends(step)
      BY <1>5, <1>7, <2>2 DEF Grows, Ends
    <2>4. Proper(cl, head) /\ Proper(cl, step)
      BY <1>1, <1>2
    <2>5. Grows(head)
      <3>1. SUFFICES ASSUME head.phase # "grow" PROVE FALSE
        BY <2>2 DEF Grows
      <3>2. head.phase = step.phase
        BY <1>7, <2>2, <2>3, <2>4, <3>1 DEF Proper, Ends, Grows
      <3>3. Slot(head) = Slot(step)
        BY <1>7, <2>2, <3>2 DEF Slot
      <3>4. QED
        BY <1>3, <2>1, <3>3
    <2>6. QED
      BY <2>3, <2>5
  <1>8. QED
    BY <1>1, <1>2, <1>5, <1>6, <1>7 DEF head, left, Proper

(* What a plan means does not depend on how far it has come.                    *)
LEMMA SamePlan ==
    ASSUME NEW cl, NEW new, new.req = cl.req, new.from = cl.from, new.goal = cl.goal
    PROVE  /\ ToRead(new) = ToRead(cl) /\ Seen(new) = Seen(cl) /\ AimOf(new) = AimOf(cl)
           /\ Grown(new) = Grown(cl) /\ (WillEnd(new) <=> WillEnd(cl))
           /\ \A step : /\ Before(new, step) = Before(cl, step) /\ After(new, step) = After(cl, step)
                        /\ Proper(new, step) <=> Proper(cl, step)
  <1>1. ToRead(new) = ToRead(cl)
    BY DEF ToRead
  <1>2. Seen(new) = Seen(cl) /\ AimOf(new) = AimOf(cl)
    BY <1>1 DEF Seen, AimOf
  <1>3. Grown(new) = Grown(cl)
    BY DEF Grown
  <1>4. WillEnd(new) <=> WillEnd(cl)
    BY <1>1 DEF WillEnd
  <1>5. ASSUME NEW step
        PROVE  /\ Before(new, step) = Before(cl, step) /\ After(new, step) = After(cl, step)
               /\ Proper(new, step) <=> Proper(cl, step)
    BY <1>1, <1>3 DEF Before, After, Proper
  <1>6. QED
    BY <1>1, <1>2, <1>3, <1>4, <1>5

(* A POST that was not answered leaves its endpoint as it was or as the step    *)
(* has it, whether the call ends there or looks into it.                        *)
LEMMA DoubtKeeps ==
    ASSUME NEW cl, NEW new, NEW old, NEW sw, NEW D, NEW b,
           DOMAIN old = Endpoints, PlanInv(cl, old, D, b),
           cl.at \in {"write", "confirm"}, Posted(cl, old, sw),
           new.req = cl.req, new.from = cl.from, new.goal = cl.goal,
           new.writes = cl.writes, new.written = cl.written,
           new.at \in {"confirm", "ended"}
    PROVE  /\ \A ep \in Endpoints \ D : Progress(new, sw, ep) /\ Reported(new, sw, ep)
           /\ "vlan" \notin D => TableInOrder(new)
           /\ "sys" \notin D => SysLast(new, sw)
  <1> DEFINE head == Head(cl.writes)
             left == StepsOf(Tail(cl.writes))
  <1>1. PlanShape(cl) /\ cl.writes # <<>>
    BY DEF PlanInv, PlanShape
  <1>2. /\ head \in StepsOf(cl.writes) /\ head.endpoint \in Endpoints
        /\ left = StepsOf(cl.writes) \ {head}
        /\ \A step \in left : Slot(head) < Slot(step)
        /\ (\E step \in StepsOf(cl.writes) : Grows(step)) => Grows(head)
        /\ head.endpoint = "sys" => left = {}
    BY <1>1, FirstStep
  <1>3. sw = old \/ sw = [old EXCEPT ![head.endpoint] = head.value]
    BY DEF Posted
  <1>4. \A ep \in Endpoints : ep # head.endpoint => sw[ep] = old[ep]
    BY <1>2, <1>3
  <1>5. sw[head.endpoint] = old[head.endpoint] \/ sw[head.endpoint] = head.value
    BY <1>2, <1>3
  <1> HIDE DEF head, left
  <1>6. /\ AimOf(new) = AimOf(cl) /\ Grown(new) = Grown(cl) /\ (WillEnd(new) <=> WillEnd(cl))
        /\ \A step : Before(new, step) = Before(cl, step) /\ After(new, step) = After(cl, step)
    BY SamePlan
  <1>7. \A step : Slot(step) \in Nat
    BY DEF Slot
  <1>8. ASSUME NEW ep \in Endpoints \ D PROVE Progress(new, sw, ep)
    <2>1. Progress(cl, old, ep)
      BY DEF PlanInv
    <2>2. ASSUME NEW step \in StepsOf(cl.writes), step.endpoint = ep,
                 \A other \in StepsOf(cl.writes) : other.endpoint = ep => Slot(step) <= Slot(other)
          PROVE  sw[ep] = Before(cl, step) \/ (step = head /\ sw[ep] = After(cl, step))
      <3>1. step.value = After(cl, step)
        BY <2>1, <2>2 DEF Progress
      <3>2. old[ep] = Before(cl, step) \/ (step = head /\ old[ep] = After(cl, step))
        BY <2>1, <2>2 DEF Progress, head
      <3>3. head.endpoint = ep => step = head
        BY <1>2, <1>7, <2>2
      <3>4. CASE head.endpoint = ep
        BY <1>5, <3>1, <3>2, <3>3, <3>4
      <3>5. CASE head.endpoint # ep
        BY <1>4, <3>2, <3>5
      <3>6. QED
        BY <3>4, <3>5
    <2>3. ASSUME \A step \in StepsOf(cl.writes) : step.endpoint # ep
          PROVE  sw[ep] = AimOf(cl)[ep]
      BY <1>2, <1>4, <2>1, <2>3 DEF Progress
    <2>4. ASSUME ep # "vlan", \E step \in StepsOf(cl.writes) : Grows(step)
          PROVE  sw[ep] = cl.from[ep]
      BY <1>2, <1>4, <2>1, <2>4 DEF Progress, Grows
    <2>5. \A step \in StepsOf(cl.writes) : step.endpoint = ep =>
            /\ step.value = After(cl, step)
            /\ cl.req.kind = "apply" /\ step.phase = "apply" => cl.from[ep] # cl.goal[ep]
      BY <2>1 DEF Progress
    <2>6. new.at # "write" /\ Head(new.writes) = head
      BY DEF head
    <2>7. QED
      BY <1>6, <2>2, <2>3, <2>4, <2>5, <2>6 DEF Progress
  <1>9. ASSUME NEW ep \in Endpoints \ D PROVE Reported(new, sw, ep)
    <2>1. Reported(cl, old, ep)
      BY DEF PlanInv
    <2>2. QED
      BY <1>1, <1>4, <2>1 DEF Reported, head
  <1>10. "vlan" \notin D => TableInOrder(new)
    BY <1>6 DEF PlanInv, TableInOrder
  <1>11. ASSUME "sys" \notin D PROVE SysLast(new, sw)
    <2>1. SysLast(cl, old)
      BY <1>11 DEF PlanInv
    <2>2. CASE head.endpoint = "sys"
      BY <1>2, <2>2 DEF SysLast
    <2>3. CASE head.endpoint # "sys"
      BY <1>4, <2>1, <2>3, EndpointNames DEF SysLast
    <2>4. QED
      BY <2>2, <2>3
  <1>12. QED
    BY <1>8, <1>9, <1>10, <1>11

(* A POST that failed ends the call there.                                      *)
LEMMA FailedKeeps ==
    ASSUME NEW cl, NEW old, NEW sw, NEW D, NEW b,
           DOMAIN old = Endpoints, Running(cl, b), PlanInv(cl, old, D, b),
           cl.at \in {"write", "confirm"}, Posted(cl, old, sw)
    PROVE  CallInv(Failed(cl), sw, D, b)
  <1> DEFINE new == Failed(cl)
  <1>1. PlanInv(cl, old, D, b) /\ Running(cl, b)
    OBVIOUS
  <1>2. /\ DOMAIN new = Fields /\ new.req = cl.req /\ new.from = cl.from /\ new.goal = cl.goal
        /\ new.writes = cl.writes /\ new.written = cl.written
        /\ new.at = "ended" /\ new.told = "incomplete" /\ new.failedAt = Head(cl.writes).endpoint
    BY <1>1 DEF Failed, Ended, Running, Fields
  <1> HIDE DEF new
  <1>3. /\ \A ep \in Endpoints \ D : Progress(new, sw, ep) /\ Reported(new, sw, ep)
        /\ "vlan" \notin D => TableInOrder(new)
        /\ "sys" \notin D => SysLast(new, sw)
    BY <1>1, <1>2, DoubtKeeps
  <1>4. /\ ToRead(new) = ToRead(cl) /\ Seen(new) = Seen(cl)
        /\ \A step : Proper(new, step) <=> Proper(cl, step)
    BY <1>2, SamePlan
  <1>5. PlanShape(new)
    BY <1>1, <1>2, <1>4 DEF PlanInv, PlanShape
  <1>6. PlanSource(new, D, b)
    BY <1>1, <1>2, <1>4 DEF PlanInv, PlanSource, Running
  <1>7. Running(new, b)
    BY <1>1, <1>2 DEF Running
  <1>8. CallInv(new, sw, D, b)
    BY <1>2, <1>3, <1>5, <1>6, <1>7 DEF CallInv, PlanInv
  <1>9. QED
    BY <1>8 DEF new

(* A POST that timed out is looked into.                                        *)
LEMMA DoubtedKeeps ==
    ASSUME NEW cl, NEW old, NEW sw, NEW D, NEW b,
           DOMAIN old = Endpoints, CallInv(cl, old, D, b),
           cl.at = "write", Posted(cl, old, sw),
           cl.req.kind = "apply", Head(cl.writes).phase = "apply"
    PROVE  CallInv([cl EXCEPT !.at = "confirm", !.read = Unread, !.todo = EndpointsToRead(cl.req)],
                   sw, D, b)
  <1> DEFINE new == [cl EXCEPT !.at = "confirm", !.read = Unread, !.todo = EndpointsToRead(cl.req)]
  <1>1. PlanInv(cl, old, D, b) /\ Running(cl, b)
    BY DEF CallInv, HasPlan
  <1>2. /\ DOMAIN new = Fields /\ new.req = cl.req /\ new.from = cl.from /\ new.goal = cl.goal
        /\ new.writes = cl.writes /\ new.written = cl.written
        /\ new.at = "confirm" /\ new.told = cl.told
        /\ new.read = Unread /\ new.todo = EndpointsToRead(cl.req)
    BY <1>1 DEF Running, Fields
  <1> HIDE DEF new
  <1>3. /\ \A ep \in Endpoints \ D : Progress(new, sw, ep) /\ Reported(new, sw, ep)
        /\ "vlan" \notin D => TableInOrder(new)
        /\ "sys" \notin D => SysLast(new, sw)
    BY <1>1, <1>2, DoubtKeeps
  <1>4. /\ ToRead(new) = ToRead(cl) /\ Seen(new) = Seen(cl)
        /\ \A step : Proper(new, step) <=> Proper(cl, step)
    BY <1>2, SamePlan
  <1>5. PlanShape(new)
    BY <1>1, <1>2, <1>4 DEF PlanInv, PlanShape
  <1>6. PlanSource(new, D, b)
    BY <1>1, <1>2, <1>4 DEF PlanInv, PlanSource
  <1>7. Running(new, b)
    BY <1>1, <1>2 DEF Running
  <1>8. Reading(new, sw, D)
    <2>1. Unread = [ep \in Endpoints |-> Unread[ep]]
      BY EndpointNames DEF Unread
    <2>2. /\ EndpointsToRead(cl.req) \in Seq(Endpoints) /\ EndpointsToRead(cl.req) # <<>>
          /\ StepsOf(EndpointsToRead(cl.req)) = ToSet(EndpointsToRead(cl.req))
      BY ReadsOf
    <2>3. QED
      BY <1>2, <2>1, <2>2 DEF Reading, ToRead
  <1>9. CallInv(new, sw, D, b)
    BY <1>2, <1>3, <1>5, <1>6, <1>7, <1>8 DEF CallInv, PlanInv
  <1>10. QED
    BY <1>9 DEF new

(* A step that is taken, as far as is known, leaves the rest of the plan.       *)
LEMMA WrittenKeeps ==
    ASSUME NEW cl, NEW old, NEW sw, NEW D, NEW b,
           DOMAIN old = Endpoints, Running(cl, b), PlanInv(cl, old, D, b),
           cl.at \in {"write", "confirm"}, Posted(cl, old, sw),
           Head(cl.writes).endpoint \notin D =>
             sw[Head(cl.writes).endpoint] = After(cl, Head(cl.writes))
    PROVE  CallInv(Written(cl), sw, D, b)
  <1> DEFINE head == Head(cl.writes)
             rest == Tail(cl.writes)
             left == StepsOf(rest)
             next == [cl EXCEPT !.at = "write", !.writes = Tail(cl.writes),
                                !.written = cl.written \cup {Head(cl.writes).endpoint}]
             new == Written(cl)
  <1>1. PlanShape(cl) /\ cl.writes # <<>>
    BY DEF PlanInv, PlanShape
  <1>2. /\ head \in StepsOf(cl.writes) /\ Proper(cl, head) /\ head.endpoint \in Endpoints
        /\ left = StepsOf(cl.writes) \ {head} /\ Ordered(rest)
        /\ \A step \in left : Slot(head) < Slot(step)
        /\ \A step \in left : ~ Grows(step)
        /\ head.endpoint = "sys" => left = {}
        /\ \A step \in left : step.endpoint = head.endpoint => Grows(head) /\ Ends(step)
    BY <1>1, FirstStep
  <1>3. /\ DOMAIN next = Fields /\ next.req = cl.req /\ next.from = cl.from /\ next.goal = cl.goal
        /\ next.writes = rest /\ next.written = cl.written \cup {head.endpoint} /\ next.told = cl.told
        /\ next.at = "write"
    BY DEF Running, Fields
  <1>4. new = IF rest = <<>> THEN Ended(next, "done") ELSE next
    BY <1>3 DEF Written
  <1>5. /\ DOMAIN new = Fields /\ new.req = cl.req /\ new.from = cl.from /\ new.goal = cl.goal
        /\ new.writes = rest /\ new.written = cl.written \cup {head.endpoint}
        /\ new.at = (IF rest = <<>> THEN "ended" ELSE "write")
        /\ new.told = (IF rest = <<>> THEN "done" ELSE cl.told)
    <2> HIDE DEF next, rest, head, new
    <2>1. CASE rest = <<>>
      BY <1>3, <1>4, <2>1 DEF Ended, Fields
    <2>2. CASE rest # <<>>
      BY <1>3, <1>4, <2>2
    <2>3. QED
      BY <2>1, <2>2
  <1>6. \A ep \in Endpoints : ep # head.endpoint => sw[ep] = old[ep]
    BY <1>2 DEF Posted
  <1>7. head.endpoint \notin D => sw[head.endpoint] = After(cl, head)
    OBVIOUS
  <1>8. \A step \in StepsOf(cl.writes) : Proper(cl, step)
    BY <1>1 DEF PlanShape
  <1>9. \A ep \in Endpoints \ D : Progress(cl, old, ep) /\ Reported(cl, old, ep)
    BY DEF PlanInv
  <1>10. "vlan" \notin D => TableInOrder(cl)
    BY DEF PlanInv
  <1>11. cl.at = "write" \/ head = Head(cl.writes)
    OBVIOUS
  <1>12. \A ep \in Endpoints : Reported(cl, old, ep) =>
           \/ old[ep] = cl.from[ep]
           \/ ep \in cl.written
           \/ ep = head.endpoint
    BY DEF Reported
  <1>13. ASSUME NEW ep \in Endpoints \ D, NEW step \in left, step.endpoint = ep, ep # head.endpoint,
                \A other \in left : other.endpoint = ep => Slot(step) <= Slot(other)
         PROVE  old[ep] = Before(cl, step)
    <2>1. step \in StepsOf(cl.writes) /\ step # head
      BY <1>2, <1>13
    <2>2. \A other \in StepsOf(cl.writes) : other.endpoint = ep => Slot(step) <= Slot(other)
      BY <1>2, <1>13
    <2>3. QED
      BY <1>9, <1>13, <2>1, <2>2 DEF Progress
  <1> HIDE DEF head, left, next, new, rest
  <1>14. /\ ToRead(new) = ToRead(cl) /\ Seen(new) = Seen(cl) /\ AimOf(new) = AimOf(cl)
         /\ Grown(new) = Grown(cl) /\ (WillEnd(new) <=> WillEnd(cl))
         /\ \A step : /\ Before(new, step) = Before(cl, step) /\ After(new, step) = After(cl, step)
                      /\ Proper(new, step) <=> Proper(cl, step)
    BY <1>5, SamePlan
  <1>15. left = StepsOf(new.writes)
    BY <1>5 DEF left
  <1>16. ASSUME NEW ep \in Endpoints \ D PROVE Progress(new, sw, ep)
    <2>1. ASSUME NEW step \in left, step.endpoint = ep
          PROVE  /\ step.value = After(cl, step)
                 /\ cl.req.kind = "apply" /\ step.phase = "apply" => cl.from[ep] # cl.goal[ep]
      BY <1>2, <1>9, <2>1 DEF Progress
    <2>2. ASSUME NEW step \in left, step.endpoint = ep,
                 \A other \in left : other.endpoint = ep => Slot(step) <= Slot(other)
          PROVE  sw[ep] = Before(cl, step)
      <3>1. CASE ep = head.endpoint
        <4>1. Grows(head) /\ Ends(step)
          BY <1>2, <2>2, <3>1
        <4>2. QED
          BY <1>7, <3>1, <4>1 DEF Grows, Ends, Before, After
      <3>2. CASE ep # head.endpoint
        BY <1>6, <1>13, <2>2, <3>2
      <3>3. QED
        BY <3>1, <3>2
    <2>3. ASSUME \A step \in left : step.endpoint # ep PROVE sw[ep] = AimOf(cl)[ep]
      <3>1. CASE ep = head.endpoint
        <4>1. AimOf(cl)[ep] = cl.goal[ep]
          BY <1>2, <3>1 DEF AimOf, Proper
        <4>2. CASE Grows(head)
          <5>1. ep = "vlan" /\ TableInOrder(cl)
            BY <1>10, <3>1, <4>2 DEF Grows
          <5>2. ~ \E step \in StepsOf(cl.writes) : Ends(step)
            BY <1>2, <2>3, <4>2, <5>1 DEF Grows, Ends
          <5>3. Grown(cl) = cl.goal.vlan
            BY <1>2, <4>2, <5>1, <5>2 DEF TableInOrder
          <5>4. QED
            BY <1>7, <3>1, <4>1, <4>2, <5>1, <5>3 DEF After, Grows
        <4>3. CASE ~ Grows(head)
          <5>1. head.phase # "grow"
            BY <1>2, <4>3 DEF Proper, Grows
          <5>2. QED
            BY <1>7, <3>1, <4>1, <5>1 DEF After
        <4>4. QED
          BY <4>2, <4>3
      <3>2. CASE ep # head.endpoint
        <4>1. \A step \in StepsOf(cl.writes) : step.endpoint # ep
          BY <1>2, <2>3, <3>2
        <4>2. old[ep] = AimOf(cl)[ep]
          BY <1>9, <4>1 DEF Progress
        <4>3. QED
          BY <1>6, <3>2, <4>2
      <3>3. QED
        BY <3>1, <3>2
    <2>4. QED
      BY <1>2, <1>5, <1>14, <1>15, <2>1, <2>2, <2>3 DEF Progress
  <1>17. ASSUME NEW ep \in Endpoints \ D PROVE Reported(new, sw, ep)
    BY <1>5, <1>6, <1>9, <1>12 DEF Reported
  <1>18. ASSUME "vlan" \notin D PROVE TableInOrder(new)
    <2>1. ASSUME WillEnd(cl)
          PROVE  \/ \E step \in left : Ends(step)
                 \/ \A step \in left : step.endpoint \notin {"vlan", "fwd", "link"}
      <3>1. CASE Ends(head)
        <4>1. Slot(head) = IF head.phase = "shrink" THEN 6 ELSE 4
          BY <3>1 DEF Ends, Slot
        <4>2. ASSUME NEW step \in left PROVE step.endpoint \notin {"vlan", "fwd", "link"}
          <5>1. Slot(head) < Slot(step) /\ ~ Grows(step)
            BY <1>2
          <5>2. step.endpoint # "vlan"
            BY <1>2, <3>1 DEF Grows, Ends
          <5>3. step.endpoint = "fwd" => Slot(step) = 2
            BY DEF Slot
          <5>4. step.endpoint = "link" => Slot(step) = 3
            BY DEF Slot
          <5>5. QED
            BY <4>1, <5>1, <5>2, <5>3, <5>4
        <4>3. QED
          BY <4>2
      <3>2. CASE ~ Ends(head)
        BY <1>2, <1>10, <1>18, <2>1, <3>2 DEF TableInOrder
      <3>3. QED
        BY <3>1, <3>2
    <2>2. QED
      BY <1>2, <1>14, <1>15, <2>1 DEF TableInOrder
  <1>19. ASSUME "sys" \notin D PROVE SysLast(new, sw)
    <2>1. SysLast(cl, old)
      BY <1>19 DEF PlanInv
    <2>2. CASE head.endpoint = "sys"
      BY <1>2, <1>15, <2>2 DEF SysLast
    <2>3. CASE head.endpoint # "sys"
      <3>1. sw.sys = old.sys
        BY <1>6, <2>3, EndpointNames
      <3>2. QED
        BY <1>2, <1>5, <1>15, <2>1, <3>1 DEF SysLast
    <2>4. QED
      BY <2>2, <2>3
  <1>20. PlanShape(new)
    <2>1. new.written \subseteq Endpoints /\ (new.req.kind # "restore" => new.written \subseteq ToRead(new))
      BY <1>1, <1>2, <1>5, <1>14 DEF PlanShape, Proper
    <2>2. QED
      BY <1>2, <1>5, <1>8, <1>14, <1>15, <2>1 DEF PlanShape
  <1>21. PlanSource(new, D, b)
    <2>1. cl.told = "nothing"
      BY DEF Running
    <2>2. QED
      BY <1>5, <1>14, <2>1 DEF PlanInv, PlanSource
  <1>22. Running(new, b)
    BY <1>5 DEF Running
  <1>23. CallInv(new, sw, D, b)
    BY <1>5, <1>16, <1>17, <1>18, <1>19, <1>20, <1>21, <1>22 DEF CallInv, PlanInv
  <1>24. QED
    BY <1>23 DEF new

(* A second plan that no longer has the write tells that the switch has it: the *)
(* endpoint is as it was or as the step had it, and the step was to change it.  *)
LEMMA ConfirmedIsSo ==
    ASSUME NEW cl, NEW read, NEW sw, NEW D, NEW b,
           PlanInv(cl, sw, D, b), cl.at = "confirm",
           \A ep \in (Endpoints \ D) \cap ToRead(cl) : read[ep] = sw[ep],
           LET left == Writes(read, Planned(cl.req, read)) IN
             ~ \E i \in DOMAIN left : left[i].endpoint = Head(cl.writes).endpoint /\ left[i].phase = "apply",
           Head(cl.writes).endpoint \notin D
    PROVE  sw[Head(cl.writes).endpoint] = After(cl, Head(cl.writes))
  <1> DEFINE head == Head(cl.writes)
             e == head.endpoint
             goal == Planned(cl.req, read)
             left == Writes(read, goal)
  <1>1. PlanShape(cl) /\ cl.writes # <<>> /\ cl.req.kind = "apply" /\ head.phase = "apply"
    BY DEF PlanInv, PlanShape
  <1>2. /\ head \in StepsOf(cl.writes) /\ Proper(cl, head) /\ e \in Endpoints
        /\ StepsOf(Tail(cl.writes)) = StepsOf(cl.writes) \ {head}
        /\ \A step \in StepsOf(Tail(cl.writes)) : Slot(head) < Slot(step)
    BY <1>1, FirstStep
  <1>3. e \in ToRead(cl) /\ e \in {"fwd", "link", "snmp", "sys"}
    BY <1>1, <1>2, EndpointNames DEF Proper
  <1>4. e \notin D /\ read[e] = sw[e]
    BY <1>2, <1>3
  <1>5. ~ \E step \in StepsOf(left) : step.endpoint = e /\ step.phase = "apply"
    <2>1. Ordered(left)
      BY WritesSteps
    <2>2. DOMAIN left = 1 .. Len(left)
      BY <2>1, LenProperties DEF Ordered
    <2>3. ~ \E i \in DOMAIN left : left[i].endpoint = e /\ left[i].phase = "apply"
      OBVIOUS
    <2> HIDE DEF left, e
    <2>4. QED
      BY <2>2, <2>3 DEF StepsOf
  <1>6. Progress(cl, sw, e)
    BY <1>2, <1>4 DEF PlanInv
  <1>7. \A step : Slot(step) \in Nat
    BY DEF Slot
  <1>8. cl.goal[e] = Planned(cl.req, Seen(cl))[e]
    BY <1>1, <1>2, <1>4 DEF PlanInv, PlanSource
  <1> HIDE DEF head
  <1>9. \A other \in StepsOf(cl.writes) : Slot(head) <= Slot(other)
    BY <1>2, <1>7
  <1>10. sw[e] = Before(cl, head) \/ sw[e] = After(cl, head)
    BY <1>2, <1>6, <1>9 DEF Progress
  <1>11. cl.from[e] # cl.goal[e]
    BY <1>1, <1>2, <1>6 DEF Progress
  <1>12. Before(cl, head) = cl.from[e]
    BY <1>3 DEF Before
  <1>13. read[e] = goal[e]
    <2>1. Step(e, goal[e], "apply") \notin StepsOf(left)
      BY <1>5, StepFields
    <2> HIDE DEF goal
    <2>2. e # "vlan" /\ (read[e] # goal[e] => Step(e, goal[e], "apply") \in StepsOf(left))
      BY <1>3, WritesSteps
    <2>3. QED
      BY <2>1, <2>2
  <1>14. sw[e] # cl.from[e]
    <2>1. SUFFICES ASSUME sw[e] = cl.from[e] PROVE FALSE
      OBVIOUS
    <2>2. read[e] = Seen(cl)[e]
      BY <1>2, <1>3, <1>4, <2>1 DEF Seen
    <2>3. goal[e] = cl.goal[e]
      BY <1>2, <1>8, <2>2, PlannedAlone
    <2>4. QED
      BY <1>4, <1>11, <1>13, <2>1, <2>3
  <1>15. QED
    BY <1>10, <1>12, <1>14 DEF head

(* An endpoint is read; the last one leads to the plan, or settles a doubt.     *)
LEMMA ReadKeeps ==
    ASSUME NEW cl, NEW sw, NEW D, NEW b,
           DOMAIN sw = Endpoints, CallInv(cl, sw, D, b), cl.at \in {"read", "confirm"}
    PROVE  CallInv(AfterReads([cl EXCEPT !.read[Head(cl.todo)] = sw[Head(cl.todo)], !.todo = Tail(cl.todo)], b),
                   sw, D, b)
  <1> DEFINE e == Head(cl.todo)
             mid == [cl EXCEPT !.read[Head(cl.todo)] = sw[Head(cl.todo)], !.todo = Tail(cl.todo)]
  <1>1. Running(cl, b) /\ Reading(cl, sw, D)
    BY DEF CallInv
  <1>2. /\ e \in StepsOf(cl.todo) /\ StepsOf(cl.todo) = {e} \cup StepsOf(Tail(cl.todo))
        /\ \E S : Tail(cl.todo) \in Seq(S)
    BY <1>1, TailSteps DEF Reading
  <1>3. ToRead(cl) \subseteq Endpoints
    BY <1>1, ReadsOf, EndpointNames DEF ToRead, Running
  <1>4. e \in ToRead(cl) /\ e \in Endpoints
    BY <1>1, <1>2, <1>3 DEF Reading
  <1>5. /\ DOMAIN mid = Fields /\ mid.at = cl.at /\ mid.req = cl.req /\ mid.todo = Tail(cl.todo)
        /\ mid.writes = cl.writes /\ mid.goal = cl.goal /\ mid.written = cl.written
        /\ mid.failedAt = cl.failedAt /\ mid.told = cl.told /\ mid.from = cl.from
        /\ mid.read = [cl.read EXCEPT ![e] = sw[e]]
    BY <1>1 DEF Running, Fields
  <1> HIDE DEF mid, e
  <1>6. cl.read = [ep \in Endpoints |-> cl.read[ep]]
    BY <1>1 DEF Reading
  <1>7. /\ mid.read = [ep \in Endpoints |-> mid.read[ep]]
        /\ mid.read[e] = sw[e]
        /\ \A ep \in Endpoints \ {e} : mid.read[ep] = cl.read[ep]
    BY <1>4, <1>5, <1>6
  <1>8. /\ ToRead(mid) = ToRead(cl) /\ Seen(mid) = Seen(cl) /\ AimOf(mid) = AimOf(cl)
        /\ Grown(mid) = Grown(cl) /\ (WillEnd(mid) <=> WillEnd(cl))
        /\ \A step : /\ Before(mid, step) = Before(cl, step) /\ After(mid, step) = After(cl, step)
                     /\ Proper(mid, step) <=> Proper(cl, step)
    BY <1>5, SamePlan
  <1>9. \A ep \in Endpoints \ ToRead(mid) : mid.read[ep] = Unread[ep]
    BY <1>1, <1>4, <1>7, <1>8 DEF Reading
  <1>10. \A ep \in (Endpoints \ D) \cap (ToRead(mid) \ StepsOf(mid.todo)) : mid.read[ep] = sw[ep]
    <2> SUFFICES ASSUME NEW ep \in (Endpoints \ D) \cap (ToRead(mid) \ StepsOf(mid.todo))
                 PROVE  mid.read[ep] = sw[ep]
      OBVIOUS
    <2>1. CASE ep = e
      BY <1>7, <2>1
    <2>2. CASE ep # e
      BY <1>1, <1>2, <1>5, <1>7, <1>8, <2>2 DEF Reading
    <2>3. QED
      BY <2>1, <2>2
  <1>11. Running(mid, b)
    BY <1>1, <1>5 DEF Running
  <1>12. mid.at = "read" => Untouched(mid, sw, D)
    BY <1>5 DEF CallInv, Untouched
  <1>13. mid.at = "confirm" => PlanInv(mid, sw, D, b)
    <2>1. SUFFICES ASSUME mid.at = "confirm", PlanInv(cl, sw, D, b) PROVE PlanInv(mid, sw, D, b)
      BY <1>5 DEF CallInv, HasPlan
    <2>2. PlanShape(mid)
      BY <1>5, <1>8, <2>1 DEF PlanInv, PlanShape
    <2>3. PlanSource(mid, D, b)
      BY <1>5, <1>8, <2>1 DEF PlanInv, PlanSource
    <2>4. \A ep \in Endpoints \ D : Progress(mid, sw, ep)
      BY <1>5, <1>8, <2>1 DEF PlanInv, Progress
    <2>5. \A ep \in Endpoints \ D : Reported(mid, sw, ep)
      BY <1>5, <2>1 DEF PlanInv, Reported
    <2>6. /\ "vlan" \notin D => TableInOrder(mid)
          /\ "sys" \notin D => SysLast(mid, sw)
      BY <1>5, <1>8, <2>1 DEF PlanInv, TableInOrder, SysLast
    <2>7. QED
      BY <2>2, <2>3, <2>4, <2>5, <2>6 DEF PlanInv
  <1>14. CASE mid.todo # <<>>
    <2>1. StepsOf(mid.todo) \subseteq ToRead(mid)
      BY <1>1, <1>2, <1>5, <1>8 DEF Reading
    <2>2. Reading(mid, sw, D)
      BY <1>2, <1>5, <1>7, <1>9, <1>10, <1>14, <2>1 DEF Reading
    <2>3. CallInv(mid, sw, D, b)
      BY <1>5, <1>11, <1>12, <1>13, <2>2 DEF CallInv, HasPlan
    <2>4. QED
      BY <1>14, <2>3 DEF AfterReads, mid
  <1>15. CASE mid.todo = <<>>
    <2>1. \A ep \in (Endpoints \ D) \cap ToRead(mid) : mid.read[ep] = sw[ep]
      BY <1>10, <1>15 DEF StepsOf
    <2>2. CASE mid.at = "read"
      <3>1. CallInv(Decide(mid, b), sw, D, b)
        BY <1>7, <1>9, <1>11, <1>12, <2>1, <2>2, DecideKeeps
      <3>2. QED
        BY <1>15, <2>2, <3>1 DEF AfterReads, mid
    <2>3. CASE mid.at = "confirm" /\ Confirmed(mid)
      <3>1. Head(mid.writes).endpoint \notin D =>
              sw[Head(mid.writes).endpoint] = After(mid, Head(mid.writes))
        BY <1>13, <2>1, <2>3, ConfirmedIsSo DEF Confirmed
      <3>2. CallInv(Written(mid), sw, D, b)
        BY <1>11, <1>13, <2>3, <3>1, WrittenKeeps DEF Posted
      <3>3. QED
        BY <1>15, <2>3, <3>2 DEF AfterReads, mid
    <2>4. CASE mid.at = "confirm" /\ ~ Confirmed(mid)
      <3>1. CallInv(Failed(mid), sw, D, b)
        <4>1. Failed(mid) = Ended([mid EXCEPT !.failedAt = Head(mid.writes).endpoint], "incomplete")
          BY DEF Failed
        <4>2. QED
          BY <1>11, <1>13, <2>4, FailedKeeps DEF Posted
      <3>2. QED
        BY <1>15, <2>4, <3>1 DEF AfterReads, mid
    <2>5. QED
      BY <1>5, <2>2, <2>3, <2>4
  <1>16. QED
    BY <1>14, <1>15

----------------------------------------------------------------------------
(* The invariant.                                                               *)

LEMMA InitEstablishes == Init => ConfigInv
  <1> SUFFICES ASSUME Init PROVE ConfigInv
    OBVIOUS
  <1>1. DOMAIN switch = Endpoints
    BY StartsAssumption DEF Init
  <1>2. ASSUME NEW c \in Callers
        PROVE  /\ disturbed[c] \subseteq Endpoints
               /\ CallInv(call[c], switch, disturbed[c], base[c])
    BY IdleKeeps DEF Init
  <1>3. QED
    BY <1>1, <1>2 DEF ConfigInv, Init

LEMMA BeginKeeps ==
    ASSUME ConfigInv, NEW c \in Callers, Begin(c)
    PROVE  ConfigInv'
  <1>1. PICK req \in Asks[scene][c] : call' = [call EXCEPT ![c] = Begun(req, switch)]
    BY DEF Begin, Begun
  <1>2. /\ req.kind \in {"apply", "blob", "restore"}
        /\ req.kind = "blob" => req.endpoint \in Endpoints
        /\ req.kind = "restore" => ~ req.dryRun
    BY <1>1, AsksAssumption DEF ConfigInv
  <1>3. CallInv(Begun(req, switch), switch, {}, switch)
    BY <1>2, BegunKeeps
  <1>4. /\ base' = [base EXCEPT ![c] = switch] /\ disturbed' = [disturbed EXCEPT ![c] = {}]
        /\ switch' = switch /\ scene' = scene
    BY DEF Begin
  <1>5. ASSUME NEW d \in Callers
        PROVE  disturbed'[d] \subseteq Endpoints /\ CallInv(call'[d], switch, disturbed'[d], base'[d])
    <2>1. CASE d = c
      BY <1>1, <1>3, <1>4, <2>1 DEF ConfigInv
    <2>2. CASE d # c
      BY <1>1, <1>4, <2>2 DEF ConfigInv
    <2>3. QED
      BY <2>1, <2>2
  <1>6. /\ DOMAIN call' = Callers /\ DOMAIN base' = Callers /\ DOMAIN disturbed' = Callers
    BY <1>1, <1>4 DEF ConfigInv
  <1>7. QED
    BY <1>4, <1>5, <1>6 DEF ConfigInv

(* A step that changes the call of c alone keeps the invariant if c's call does.*)
LEMMA OwnCallKeeps ==
    ASSUME ConfigInv, NEW c \in Callers, NEW new,
           call' = [call EXCEPT ![c] = new], UNCHANGED <<scene, switch, base, disturbed>>,
           CallInv(new, switch, disturbed[c], base[c])
    PROVE  ConfigInv'
  <1>1. ASSUME NEW d \in Callers
        PROVE  disturbed'[d] \subseteq Endpoints /\ CallInv(call'[d], switch, disturbed[d], base[d])
    <2>1. CASE d = c
      BY <2>1 DEF ConfigInv
    <2>2. CASE d # c
      BY <2>2 DEF ConfigInv
    <2>3. QED
      BY <2>1, <2>2
  <1>2. QED
    BY <1>1 DEF ConfigInv

LEMMA RollbackKeeps ==
    ASSUME ConfigInv, NEW c \in Callers, Rollback(c)
    PROVE  ConfigInv'
  <1> DEFINE req == [kind |-> "restore", dryRun |-> FALSE]
  <1>1. CallInv(Begun(req, switch), switch, disturbed[c], base[c])
    <2>1. req.kind = "restore" /\ ~ req.dryRun
      OBVIOUS
    <2> HIDE DEF req
    <2>2. QED
      BY <2>1, BegunKeeps
  <1>2. call' = [call EXCEPT ![c] = Begun(req, switch)] /\ UNCHANGED <<scene, switch, base, disturbed>>
    BY DEF Rollback, Begun
  <1>3. QED
    BY <1>1, <1>2, OwnCallKeeps

LEMMA ReadStepKeeps ==
    ASSUME ConfigInv, NEW c \in Callers, Read(c)
    PROVE  ConfigInv'
  <1> DEFINE cl == call[c]
             new == AfterReads([cl EXCEPT !.read[Head(cl.todo)] = switch[Head(cl.todo)],
                                          !.todo = Tail(cl.todo)], base[c])
  <1>1. CallInv(cl, switch, disturbed[c], base[c]) /\ DOMAIN switch = Endpoints
    BY DEF ConfigInv
  <1>2. CallInv(new, switch, disturbed[c], base[c])
    BY <1>1, ReadKeeps DEF Read
  <1>3. call' = [call EXCEPT ![c] = new]
    BY DEF Read
  <1>4. UNCHANGED <<scene, switch, base, disturbed>>
    BY DEF Read
  <1>5. QED
    BY <1>2, <1>3, <1>4, OwnCallKeeps

LEMMA ReadFailsKeeps ==
    ASSUME ConfigInv, NEW c \in Callers, ReadFails(c)
    PROVE  ConfigInv'
  <1> DEFINE cl == call[c]
             new == IF cl.at = "read" THEN Ended(cl, "failed") ELSE Failed(cl)
  <1>1. CallInv(cl, switch, disturbed[c], base[c]) /\ DOMAIN switch = Endpoints
    BY DEF ConfigInv
  <1>2. ASSUME cl.at = "read" PROVE CallInv(new, switch, disturbed[c], base[c])
    <2>1. /\ DOMAIN Ended(cl, "failed") = Fields
          /\ Ended(cl, "failed").at = "ended" /\ Ended(cl, "failed").told = "failed"
          /\ Ended(cl, "failed").req = cl.req /\ Ended(cl, "failed").from = cl.from
      BY <1>1 DEF CallInv, Running, Ended, Fields
    <2>2. ~ HasPlan(Ended(cl, "failed"))
      BY <2>1 DEF HasPlan
    <2>3. Untouched(Ended(cl, "failed"), switch, disturbed[c])
      BY <1>1, <1>2, <2>1 DEF CallInv, Untouched
    <2>4. Running(Ended(cl, "failed"), base[c])
      BY <1>1, <1>2, <2>1 DEF CallInv, Running
    <2>5. CallInv(Ended(cl, "failed"), switch, disturbed[c], base[c])
      BY <2>1, <2>2, <2>3, <2>4 DEF CallInv
    <2>6. new = Ended(cl, "failed")
      BY <1>2
    <2> HIDE DEF new
    <2>7. QED
      BY <2>5, <2>6
  <1>3. ASSUME cl.at = "confirm" PROVE CallInv(new, switch, disturbed[c], base[c])
    <2>1. Running(cl, base[c]) /\ PlanInv(cl, switch, disturbed[c], base[c])
      BY <1>1, <1>3 DEF CallInv, HasPlan
    <2>2. CallInv(Failed(cl), switch, disturbed[c], base[c])
      BY <1>1, <1>3, <2>1, FailedKeeps DEF Posted
    <2>3. new = Failed(cl)
      BY <1>3
    <2> HIDE DEF new
    <2>4. QED
      BY <2>2, <2>3
  <1>4. call' = [call EXCEPT ![c] = new] /\ UNCHANGED <<scene, switch, base, disturbed>>
    BY DEF ReadFails
  <1> HIDE DEF new
  <1>5. CallInv(new, switch, disturbed[c], base[c])
    BY <1>2, <1>3 DEF ReadFails
  <1>6. QED
    BY <1>4, <1>5, OwnCallKeeps

(* A POST, whatever comes of it.                                                *)
LEMMA PostKeeps ==
    ASSUME ConfigInv, NEW c \in Callers, Post(c)
    PROVE  ConfigInv'
  <1> DEFINE cl == call[c]
             step == Head(cl.writes)
             e == step.endpoint
  <1>1. /\ CallInv(cl, switch, disturbed[c], base[c]) /\ DOMAIN switch = Endpoints
        /\ DOMAIN call = Callers /\ DOMAIN disturbed = Callers
    BY DEF ConfigInv
  <1>2. /\ cl.at = "write" /\ Running(cl, base[c])
        /\ PlanInv(cl, switch, disturbed[c], base[c]) /\ PlanShape(cl) /\ cl.writes # <<>>
    BY <1>1 DEF Post, CallInv, HasPlan, PlanInv, PlanShape
  <1>3. PICK outcome \in {"answered", "timeout", "reset", "refused"} :
          /\ call' = [call EXCEPT ![c] = AfterPost(cl, outcome)]
          /\ \/ outcome # "refused" /\ Landed(e, step.value, c)
             \/ outcome # "answered" /\ UNCHANGED <<switch, disturbed>>
    BY DEF Post
  <1>4. scene' = scene /\ base' = base
    BY DEF Post
  <1>5. e \in Endpoints
    BY <1>2, FirstStep
  <1>6. \/ Landed(e, step.value, c)
        \/ outcome # "answered" /\ UNCHANGED <<switch, disturbed>>
    BY <1>3
  <1>7. DOMAIN switch' = Endpoints /\ DOMAIN disturbed' = Callers /\ DOMAIN call' = Callers
    BY <1>1, <1>3, <1>6 DEF Landed
  <1>8. Posted(cl, switch, switch')
    BY <1>6 DEF Landed, Posted
  <1>9. e \notin disturbed[c] => step.value = After(cl, step)
    BY <1>2, <1>5, FirstStep DEF PlanInv, Progress
  <1>10. disturbed'[c] = disturbed[c]
    BY <1>6 DEF Landed
  <1>11. CallInv(AfterPost(cl, outcome), switch', disturbed[c], base[c])
    <2>1. CASE outcome = "answered"
      <3>1. switch'[e] = step.value
        BY <1>1, <1>5, <1>6, <2>1 DEF Landed
      <3>2. CallInv(Written(cl), switch', disturbed[c], base[c])
        BY <1>1, <1>2, <1>8, <1>9, <3>1, WrittenKeeps
      <3>3. QED
        BY <2>1, <3>2 DEF AfterPost
    <2>2. CASE outcome = "timeout" /\ cl.req.kind = "apply" /\ step.phase = "apply"
      <3>1. CallInv([cl EXCEPT !.at = "confirm", !.read = Unread, !.todo = EndpointsToRead(cl.req)],
                    switch', disturbed[c], base[c])
        BY <1>1, <1>2, <1>8, <2>2, DoubtedKeeps
      <3>2. QED
        BY <2>2, <3>1 DEF AfterPost
    <2>3. CASE outcome # "answered" /\ ~ (outcome = "timeout" /\ cl.req.kind = "apply" /\ step.phase = "apply")
      <3>1. CallInv(Failed(cl), switch', disturbed[c], base[c])
        BY <1>1, <1>2, <1>8, FailedKeeps
      <3>2. AfterPost(cl, outcome) = Failed(cl)
        BY <2>3 DEF AfterPost
      <3>3. QED
        BY <3>1, <3>2
    <2>4. QED
      BY <2>1, <2>2, <2>3
  <1>12. ASSUME NEW d \in Callers, d # c
         PROVE  disturbed'[d] \subseteq Endpoints /\ CallInv(call[d], switch', disturbed'[d], base[d])
    <2>1. disturbed[d] \subseteq Endpoints /\ CallInv(call[d], switch, disturbed[d], base[d])
      BY DEF ConfigInv
    <2>2. CASE Landed(e, step.value, c)
      <3>1. disturbed'[d] = disturbed[d] \cup {e} /\ switch' = [switch EXCEPT ![e] = step.value]
        BY <1>12, <2>2 DEF Landed
      <3>2. CallInv(call[d], [switch EXCEPT ![e] = step.value], disturbed[d] \cup {e}, base[d])
        BY <1>1, <1>5, <2>1, DisturbKeeps
      <3>3. QED
        BY <1>5, <2>1, <3>1, <3>2
    <2>3. CASE UNCHANGED <<switch, disturbed>>
      BY <2>1, <2>3
    <2>4. QED
      BY <1>6, <2>2, <2>3
  <1>13. \A d \in Callers : /\ disturbed'[d] \subseteq Endpoints
                            /\ CallInv(call'[d], switch', disturbed'[d], base'[d])
    <2> TAKE d \in Callers
    <2>1. CASE d = c
      <3>1. call'[c] = AfterPost(cl, outcome)
        BY <1>1, <1>3
      <3>2. disturbed[c] \subseteq Endpoints
        BY DEF ConfigInv
      <3>3. QED
        BY <1>4, <1>10, <1>11, <2>1, <3>1, <3>2
    <2>2. CASE d # c
      <3>1. call'[d] = call[d]
        BY <1>1, <1>3, <2>2
      <3>2. QED
        BY <1>4, <1>12, <2>2, <3>1
    <2>3. QED
      BY <2>1, <2>2
  <1>14. QED
    BY <1>4, <1>7, <1>13 DEF ConfigInv

(* Every plan that is being written is an ordered rest of the one the call made,*)
(* from what it read: the table grows before the ports' settings and shrinks    *)
(* after them, the system settings come last, and each endpoint that nobody     *)
(* else writes is as it was, as a step of the plan has it, or as it is to be.   *)
THEOREM ConfigInvariant == Spec => []ConfigInv
  <1>1. ConfigInv /\ [Next]_vars => ConfigInv'
    <2> SUFFICES ASSUME ConfigInv, [Next]_vars PROVE ConfigInv'
      OBVIOUS
    <2>1. ASSUME NEW c \in Callers, Begin(c) \/ Rollback(c) \/ Read(c) \/ ReadFails(c) \/ Post(c)
          PROVE  ConfigInv'
      BY <2>1, BeginKeeps, RollbackKeeps, ReadStepKeeps, ReadFailsKeeps, PostKeeps
    <2>2. CASE UNCHANGED vars
      BY <2>2 DEF vars, ConfigInv
    <2>3. QED
      BY <2>1, <2>2 DEF Next
  <1>2. QED
    BY <1>1, InitEstablishes, PTL DEF Spec

(* What a call reports is so, wherever no other caller wrote.                   *)
THEOREM ReportTrue == Spec => []ReportIsTrue
  <1>1. ConfigInv => ReportIsTrue
    <2> SUFFICES ASSUME ConfigInv, NEW c \in Callers, call[c].at = "ended"
                 PROVE  LET cl == call[c] IN
                        /\ cl.told = "done" => \A ep \in cl.written \cap Mine(c) : switch[ep] = cl.goal[ep]
                        /\ cl.told \notin {"done", "incomplete", "failed"} =>
                             \A ep \in Mine(c) : switch[ep] = base[c][ep]
                        /\ cl.told = "incomplete" /\ cl.req.kind # "restore" =>
                             \A ep \in Mine(c) : switch[ep] = base[c][ep] \/ ep \in cl.written \cup {cl.failedAt}
      BY DEF ReportIsTrue
    <2> DEFINE cl == call[c]
               D == disturbed[c]
               b == base[c]
    <2>1. CallInv(cl, switch, D, b) /\ Mine(c) = Endpoints \ D
      BY DEF ConfigInv, Mine
    <2>2. /\ cl.at = "ended" /\ cl.req.kind \in {"apply", "blob", "restore"}
          /\ cl.req.kind # "restore" => cl.from = b
      BY <2>1 DEF CallInv, Running
    <2> HIDE DEF cl, D, b
    <2>3. CASE cl.told = "done"
      <3>1. PlanInv(cl, switch, D, b) /\ PlanShape(cl)
        BY <2>1, <2>2, <2>3 DEF CallInv, HasPlan, PlanInv
      <3>2. cl.writes = <<>>
        BY <2>2, <2>3, <3>1 DEF PlanShape
      <3>3. StepsOf(cl.writes) = {}
        BY <3>2, ShortSteps
      <3>4. \A ep \in Endpoints \ D : switch[ep] = AimOf(cl)[ep]
        BY <3>1, <3>3 DEF PlanInv, Progress
      <3>5. \A ep \in cl.written \cap Endpoints : AimOf(cl)[ep] = cl.goal[ep]
        BY <3>1 DEF PlanShape, AimOf
      <3>6. QED
        BY <2>1, <2>3, <3>4, <3>5 DEF cl
    <2>4. CASE cl.told \notin {"done", "incomplete"}
      <3>1. Untouched(cl, switch, D) /\ (cl.req.kind = "restore" => cl.told = "failed")
        BY <2>1, <2>2, <2>4 DEF CallInv
      <3>2. cl.told # "failed" => \A ep \in Endpoints \ D : switch[ep] = b[ep]
        BY <2>2, <3>1 DEF Untouched
      <3>3. QED
        BY <2>1, <2>4, <3>2 DEF cl, b
    <2>5. CASE cl.told = "incomplete"
      <3>1. PlanInv(cl, switch, D, b) /\ PlanShape(cl)
        BY <2>1, <2>2, <2>5 DEF CallInv, HasPlan, PlanInv
      <3>2. cl.failedAt = Head(cl.writes).endpoint
        BY <2>2, <2>5, <3>1 DEF PlanShape
      <3>3. \A ep \in Endpoints \ D : switch[ep] = cl.from[ep] \/ ep \in cl.written \cup {cl.failedAt}
        BY <3>1, <3>2 DEF PlanInv, Reported
      <3>4. QED
        BY <2>1, <2>2, <2>5, <3>3 DEF cl, b
    <2>6. QED
      BY <2>3, <2>4, <2>5 DEF cl
  <1>2. QED
    BY <1>1, ConfigInvariant, PTL

----------------------------------------------------------------------------
(* What the switch is while a plan is being written.                            *)

Covers(t, u) == \A v \in DOMAIN u : v \in DOMAIN t /\ u[v] \subseteq t[v]

(* A table that holds both, and one that the other's is not a shrinking of.     *)
LEMMA TablesCover ==
    ASSUME NEW t, NEW u
    PROVE  /\ Covers(t, t)
           /\ Covers(Union(t, u), t) /\ Covers(Union(t, u), u)
           /\ ~ Shrinks(t, u) => Covers(u, t)
  <1>1. \A v \in DOMAIN t \cup DOMAIN u : Union(t, u)[v] = Members(t, v) \cup Members(u, v)
    BY DEF Union
  <1>2. DOMAIN Union(t, u) = DOMAIN t \cup DOMAIN u
    BY DEF Union
  <1> HIDE DEF Union
  <1>3. \A v \in DOMAIN t : Members(t, v) = t[v]
    BY DEF Members
  <1>4. \A v \in DOMAIN u : Members(u, v) = u[v]
    BY DEF Members
  <1>5. Covers(Union(t, u), t)
    BY <1>1, <1>2, <1>3 DEF Covers
  <1>6. Covers(Union(t, u), u)
    BY <1>1, <1>2, <1>4 DEF Covers
  <1>7. ~ Shrinks(t, u) => Covers(u, t)
    BY DEF Shrinks, Covers
  <1>8. QED
    BY <1>5, <1>6, <1>7 DEF Covers

(* The settings of the ports are the old ones or the new; while they are mixed, *)
(* the table holds the VLANs of both.  The system settings come after the rest. *)
LEMMA Stages ==
    ASSUME NEW cl, NEW sw, NEW b, Running(cl, b), PlanInv(cl, sw, {}, b),
           cl.req.kind \in {"apply", "restore"}
    PROVE  LET F == cl.from  A == AimOf(cl) IN
           /\ sw.fwd \in {F.fwd, A.fwd} /\ sw.link \in {F.link, A.link} /\ sw.sys \in {F.sys, A.sys}
           /\ \/ sw.vlan = F.vlan /\ sw.fwd = F.fwd /\ sw.link = F.link
              \/ sw.vlan = A.vlan /\ sw.fwd = A.fwd /\ sw.link = A.link
              \/ Covers(sw.vlan, F.vlan) /\ Covers(sw.vlan, A.vlan)
           /\ \/ sw.sys = F.sys
              \/ sw.vlan = A.vlan /\ sw.fwd = A.fwd /\ sw.link = A.link
  <1> DEFINE F == cl.from
             A == AimOf(cl)
             R == StepsOf(cl.writes)
  <1>1. /\ PlanShape(cl) /\ TableInOrder(cl) /\ SysLast(cl, sw)
        /\ \A ep \in Endpoints : Progress(cl, sw, ep)
    BY DEF PlanInv
  <1>2. \A step \in R : Proper(cl, step)
    BY <1>1 DEF PlanShape
  <1>3. /\ "vlan" \in Endpoints /\ "fwd" \in Endpoints /\ "link" \in Endpoints /\ "sys" \in Endpoints
    BY EndpointNames
  <1>4. \A step \in R : A[step.endpoint] = cl.goal[step.endpoint]
    BY <1>2 DEF AimOf, Proper
  <1>5. ASSUME NEW ep \in Endpoints, ep # "vlan"
        PROVE  /\ sw[ep] = F[ep] \/ sw[ep] = A[ep]
               /\ (\A step \in R : step.endpoint # ep) => sw[ep] = A[ep]
    <2>1. CASE \A step \in R : step.endpoint # ep
      BY <1>1, <2>1 DEF Progress
    <2>2. CASE \E step \in R : step.endpoint = ep
      <3>1. PICK step \in R : step.endpoint = ep
        BY <2>2
      <3>2. \A other \in R : other.endpoint = ep => Slot(other) = Slot(step)
        BY <1>5, <3>1 DEF Slot
      <3>3. Slot(step) \in Nat
        BY DEF Slot
      <3>4. sw[ep] = Before(cl, step) \/ sw[ep] = After(cl, step)
        BY <1>1, <3>1, <3>2, <3>3 DEF Progress
      <3>5. Before(cl, step) = F[ep]
        BY <1>5, <3>1 DEF Before
      <3>6. step.phase # "grow"
        BY <1>2, <1>5, <3>1 DEF Proper, Grows
      <3>7. After(cl, step) = A[ep]
        BY <1>4, <3>1, <3>6 DEF After
      <3>8. QED
        BY <2>2, <3>4, <3>5, <3>7
    <2>3. QED
      BY <2>1, <2>2
  <1>6. Covers(Grown(cl), F.vlan) /\ Covers(Grown(cl), cl.goal.vlan)
    BY TablesCover DEF Grown
  <1>7. ASSUME NEW step \in R, step.endpoint = "vlan"
        PROVE  Grows(step) \/ Ends(step)
    BY <1>7 DEF Grows, Ends
  <1>8. A.vlan = cl.goal.vlan \/ A.vlan = F.vlan
    BY <1>3 DEF AimOf
  <1>9. Covers(Grown(cl), A.vlan)
    BY <1>6, <1>8
  <1> DEFINE Staged ==
               \/ sw.vlan = F.vlan /\ sw.fwd = F.fwd /\ sw.link = F.link
               \/ sw.vlan = A.vlan /\ sw.fwd = A.fwd /\ sw.link = A.link
               \/ Covers(sw.vlan, F.vlan) /\ Covers(sw.vlan, A.vlan)
  <1>10. ASSUME NEW step \in R, Grows(step) PROVE Staged
    <2>1. sw.fwd = F.fwd /\ sw.link = F.link
      BY <1>1, <1>3, <1>10 DEF Progress
    <2>2. \A other \in R : Slot(step) <= Slot(other)
      BY <1>10 DEF Grows, Slot
    <2>3. sw.vlan = Before(cl, step) \/ sw.vlan = After(cl, step)
      BY <1>1, <1>3, <1>10, <2>2 DEF Progress, Grows
    <2>4. sw.vlan = F.vlan \/ sw.vlan = Grown(cl)
      BY <1>10, <2>3 DEF Before, After, Grows
    <2>5. QED
      BY <1>6, <1>9, <2>1, <2>4
  <1>11. ASSUME NEW step \in R, Ends(step), \A other \in R : ~ Grows(other) PROVE Staged
    <2>1. \A other \in R : other.endpoint = "vlan" => Slot(step) <= Slot(other)
      <3>1. \A other \in R : other.endpoint = "vlan" => Ends(other)
        BY <1>7, <1>11
      <3>2. \A other \in R : other.endpoint = "vlan" => other.phase = step.phase
        BY <1>2, <1>11, <3>1 DEF Proper, Grows, Ends
      <3>3. \A other \in R : other.endpoint = "vlan" => Slot(other) = Slot(step)
        BY <1>11, <3>2 DEF Slot, Ends
      <3>4. Slot(step) \in Nat
        BY DEF Slot
      <3>5. QED
        BY <3>3, <3>4
    <2>2. \/ sw.vlan = Before(cl, step)
          \/ step = Head(cl.writes) /\ sw.vlan = After(cl, step)
      BY <1>1, <1>3, <1>11, <2>1 DEF Progress, Ends
    <2>3. CASE sw.vlan = Before(cl, step)
      BY <1>6, <1>9, <1>11, <2>3 DEF Before, Ends
    <2>4. CASE step = Head(cl.writes) /\ sw.vlan = After(cl, step)
      <3>1. sw.vlan = A.vlan
        BY <1>4, <1>11, <2>4 DEF After, Ends
      <3>2. cl.writes # <<>>
        BY <1>11, ShortSteps
      <3>3. \A other \in R : other = step \/ Slot(step) < Slot(other)
        BY <1>1, <2>4, <3>2, FirstStep
      <3>4. Slot(step) = IF step.phase = "shrink" THEN 6 ELSE 4
        BY <1>11 DEF Slot, Ends
      <3>5. ASSUME NEW other \in R PROVE other.endpoint # "fwd" /\ other.endpoint # "link"
        <4>1. other.endpoint = "fwd" => Slot(other) = 2
          BY DEF Slot
        <4>2. other.endpoint = "link" => Slot(other) = 3
          BY DEF Slot
        <4>3. QED
          BY <1>11, <3>3, <3>4, <4>1, <4>2 DEF Ends
      <3>6. sw.fwd = A.fwd /\ sw.link = A.link
        BY <1>3, <1>5, <3>5
      <3>7. QED
        BY <3>1, <3>6
    <2>5. QED
      BY <2>2, <2>3, <2>4
  <1>12. ASSUME \A step \in R : step.endpoint # "vlan" PROVE Staged
    <2>1. sw.vlan = A.vlan
      BY <1>1, <1>3, <1>12 DEF Progress
    <2>2. CASE WillEnd(cl)
      <3>1. \A step \in R : step.endpoint \notin {"vlan", "fwd", "link"}
        BY <1>1, <1>12, <2>2 DEF TableInOrder, Ends
      <3>2. sw.fwd = A.fwd /\ sw.link = A.link
        BY <1>3, <1>5, <3>1
      <3>3. QED
        BY <2>1, <3>2
    <2>3. CASE ~ WillEnd(cl)
      <3>1. cl.req.kind = "apply" /\ ("vlan" \in ToRead(cl) => ~ Shrinks(F.vlan, cl.goal.vlan))
        BY <2>3 DEF WillEnd
      <3>2. "vlan" \in ToRead(cl) => Covers(A.vlan, F.vlan)
        BY <1>3, <3>1, TablesCover DEF AimOf
      <3>3. "vlan" \notin ToRead(cl) => A.vlan = F.vlan
        BY <1>3, <3>1 DEF AimOf
      <3>4. Covers(A.vlan, F.vlan)
        BY <3>2, <3>3, TablesCover
      <3>5. QED
        BY <2>1, <3>4, TablesCover
    <2>4. QED
      BY <2>2, <2>3
  <1>13. Staged
    BY <1>7, <1>10, <1>11, <1>12
  <1>14. \/ sw.sys = F.sys
         \/ sw.vlan = A.vlan /\ sw.fwd = A.fwd /\ sw.link = A.link
    <2>1. CASE \A step \in R : step.endpoint = "sys"
      <3>1. \A step \in R : step.endpoint # "vlan" /\ step.endpoint # "fwd" /\ step.endpoint # "link"
        BY <2>1
      <3>2. sw.vlan = A.vlan
        BY <1>1, <1>3, <3>1 DEF Progress
      <3>3. QED
        BY <1>3, <1>5, <3>1, <3>2
    <2>2. QED
      BY <1>1, <2>1 DEF SysLast
  <1>15. /\ sw.fwd \in {F.fwd, A.fwd} /\ sw.link \in {F.link, A.link} /\ sw.sys \in {F.sys, A.sys}
    BY <1>3, <1>5
  <1>16. QED
    BY <1>13, <1>14, <1>15

(* A port that takes untagged frames before and after takes them throughout.    *)
LEMMA UntaggedThroughout ==
    ASSUME NEW cl, NEW sw, NEW b, NEW p, Running(cl, b), PlanInv(cl, sw, {}, b),
           cl.req.kind \in {"apply", "restore"},
           Untagged(cl.from, p), Untagged(AimOf(cl), p)
    PROVE  Untagged(sw, p)
  <1> DEFINE F == cl.from
             A == AimOf(cl)
  <1>1. /\ sw.fwd \in {F.fwd, A.fwd} /\ sw.link \in {F.link, A.link}
        /\ \/ sw.vlan = F.vlan /\ sw.fwd = F.fwd /\ sw.link = F.link
           \/ sw.vlan = A.vlan /\ sw.fwd = A.fwd /\ sw.link = A.link
           \/ Covers(sw.vlan, F.vlan) /\ Covers(sw.vlan, A.vlan)
    BY Stages
  <1> HIDE DEF F, A
  <1>2. Untagged(F, p) /\ Untagged(A, p)
    BY DEF F, A
  <1>3. CASE sw.vlan = F.vlan /\ sw.fwd = F.fwd /\ sw.link = F.link
    BY <1>2, <1>3 DEF Untagged, UntaggedRisk
  <1>4. CASE sw.vlan = A.vlan /\ sw.fwd = A.fwd /\ sw.link = A.link
    BY <1>2, <1>4 DEF Untagged, UntaggedRisk
  <1>5. CASE Covers(sw.vlan, F.vlan) /\ Covers(sw.vlan, A.vlan)
    <2>1. sw.link[p] /\ sw.fwd[p].recv # "only_tagged"
      BY <1>1, <1>2 DEF Untagged
    <2>2. \A v : p \in Members(F.vlan, v) \/ p \in Members(A.vlan, v) => p \in Members(sw.vlan, v)
      BY <1>5 DEF Covers, Members
    <2>3. \A v : v \in DOMAIN F.vlan \/ v \in DOMAIN A.vlan => v \in DOMAIN sw.vlan
      BY <1>5 DEF Covers
    <2>4. CASE sw.fwd = F.fwd
      BY <1>2, <2>1, <2>2, <2>3, <2>4 DEF Untagged, UntaggedRisk
    <2>5. CASE sw.fwd = A.fwd
      BY <1>2, <2>1, <2>2, <2>3, <2>5 DEF Untagged, UntaggedRisk
    <2>6. QED
      BY <1>1, <2>4, <2>5
  <1>6. QED
    BY <1>1, <1>3, <1>4, <1>5

(* No port is stranded on the way: the theorem of the order of the writes.      *)
THEOREM NoneStranded == Spec => []NoPortIsStranded
  <1>1. ConfigInv => NoPortIsStranded
    <2> SUFFICES ASSUME ConfigInv, NEW c \in Callers, HasPlan(call[c]), Quiet(c),
                        call[c].req.kind # "blob", NEW p \in Linked,
                        Untagged(call[c].from, p), Untagged(Aim(c), p)
                 PROVE  Untagged(switch, p)
      BY DEF NoPortIsStranded
    <2>1. CallInv(call[c], switch, {}, base[c])
      BY DEF ConfigInv, Quiet
    <2>2. /\ Running(call[c], base[c]) /\ PlanInv(call[c], switch, {}, base[c])
          /\ call[c].req.kind \in {"apply", "restore"}
      BY <2>1 DEF CallInv, Running, HasPlan
    <2>3. Aim(c) = AimOf(call[c])
      BY DEF Aim, AimOf, ToRead
    <2>4. QED
      BY <2>2, <2>3, UntaggedThroughout
  <1>2. QED
    BY <1>1, ConfigInvariant, PTL

----------------------------------------------------------------------------
(* What the judgement of the risks is worth.                                    *)

(* What an apply that is written, with no risk accepted, was judged on.         *)
LEMMA Judged ==
    ASSUME NEW cl, NEW sw, NEW b, Running(cl, b), PlanInv(cl, sw, {}, b),
           cl.req.kind = "apply", ~ cl.req.accept, cl.told # "noChange"
    PROVE  Risks(Seen(cl), cl.goal) = {}
  <1>1. /\ ~ cl.req.dryRun
        /\ Refusal(cl.req, Seen(cl), cl.goal) = "none"
    BY DEF PlanInv, PlanSource
  <1>2. QED
    BY <1>1 DEF Refusal

(* What is read of a document's system settings and links, and of the rest of   *)
(* the VLANs only with the ports.                                               *)
LEMMA SeenAndAimed ==
    ASSUME NEW cl, NEW sw, NEW b, Running(cl, b), PlanInv(cl, sw, {}, b), cl.req.kind = "apply"
    PROVE  LET F == cl.from  A == AimOf(cl)  S == Seen(cl)  G == cl.goal IN
           /\ S.sys = F.sys /\ G.sys = A.sys /\ S.link = F.link /\ G.link = A.link
           /\ \/ S.vlan = F.vlan /\ G.vlan = A.vlan /\ S.fwd = F.fwd /\ G.fwd = A.fwd
              \/ /\ A.vlan = F.vlan /\ A.fwd = F.fwd
                 /\ S.vlan = <<>> /\ G.vlan = <<>>
  <1>1. ToRead(cl) =
          {"link", "sys"} \cup (IF cl.req.vlans # None \/ DOMAIN cl.req.ports # {} THEN {"vlan", "fwd"} ELSE {})
            \cup (IF cl.req.snmp # None THEN {"snmp"} ELSE {})
    BY ReadsOf DEF ToRead
  <1>2. /\ "vlan" \in Endpoints /\ "fwd" \in Endpoints /\ "link" \in Endpoints /\ "sys" \in Endpoints
    BY EndpointNames
  <1>3. "link" \in ToRead(cl) /\ "sys" \in ToRead(cl) /\ ("vlan" \in ToRead(cl) <=> "fwd" \in ToRead(cl))
    BY <1>1
  <1>4. \A ep \in Endpoints :
          IF ep \in ToRead(cl) THEN Seen(cl)[ep] = cl.from[ep] /\ AimOf(cl)[ep] = cl.goal[ep]
          ELSE Seen(cl)[ep] = Unread[ep] /\ AimOf(cl)[ep] = cl.from[ep]
    BY DEF Seen, AimOf
  <1>5. ASSUME "vlan" \notin ToRead(cl)
        PROVE  Seen(cl).vlan = <<>> /\ cl.goal.vlan = <<>>
    <2>1. Seen(cl).vlan = Unread.vlan /\ Unread["vlan"] = <<>>
      BY <1>2, <1>4, <1>5 DEF Unread
    <2>2. cl.goal["vlan"] = Planned(cl.req, Seen(cl))["vlan"]
      BY <1>2 DEF PlanInv, PlanSource
    <2>3. Planned(cl.req, Seen(cl))["vlan"] = Seen(cl)["vlan"]
      BY <1>2, <1>5, <2>1, PlannedUnread DEF ToRead
    <2>4. QED
      BY <2>1, <2>2, <2>3
  <1>6. QED
    BY <1>2, <1>3, <1>4, <1>5

(* No linked port is at risk in what the plan leads to, the settings it did not *)
(* look at included.                                                            *)
LEMMA PortsSafe ==
    ASSUME NEW cl, NEW sw, NEW b, NEW p \in Linked, Running(cl, b), PlanInv(cl, sw, {}, b),
           cl.req.kind = "apply", ~ cl.req.accept, cl.told # "noChange"
    PROVE  LET F == cl.from  A == AimOf(cl) IN
           /\ ~ PortRisk(F, A, p)
           /\ F.link[p] /\ UntaggedRisk(A, p) => UntaggedRisk(F, p)
  <1> DEFINE F == cl.from
             A == AimOf(cl)
             S == Seen(cl)
             G == cl.goal
  <1>1. /\ S.link = F.link /\ G.link = A.link
        /\ \/ S.vlan = F.vlan /\ G.vlan = A.vlan /\ S.fwd = F.fwd /\ G.fwd = A.fwd
           \/ A.vlan = F.vlan /\ A.fwd = F.fwd
    BY SeenAndAimed
  <1>2. Risks(S, G) = {}
    BY Judged
  <1> HIDE DEF F, A, S, G
  <1>3. ~ PortRisk(S, G, p)
    <2>1. {<<"port", q>> : q \in {r \in Linked : PortRisk(S, G, r)}} = {}
      BY <1>2 DEF Risks
    <2>2. QED
      BY <2>1
  <1>4. UntaggedRisk(G, p) => UntaggedRisk(S, p)
    <2>1. SUFFICES ASSUME UntaggedRisk(G, p) PROVE UntaggedRisk(S, p)
      OBVIOUS
    <2>2. UntaggedRisks(G) \subseteq UntaggedRisks(S)
      BY <1>2 DEF Risks
    <2>3. <<"untagged", p, G.fwd[p].dvid, G.fwd[p].mode>> \in UntaggedRisks(G)
      BY <2>1 DEF UntaggedRisks
    <2>4. <<"untagged", p, G.fwd[p].dvid, G.fwd[p].mode>> \in UntaggedRisks(S)
      BY <2>2, <2>3
    <2>5. PICK q \in Linked : /\ UntaggedRisk(S, q)
                              /\ <<"untagged", p, G.fwd[p].dvid, G.fwd[p].mode>>
                                   = <<"untagged", q, S.fwd[q].dvid, S.fwd[q].mode>>
      BY <2>4 DEF UntaggedRisks
    <2>6. p = q
      BY <2>5
    <2>7. QED
      BY <2>5, <2>6
  <1>5. CASE S.vlan = F.vlan /\ G.vlan = A.vlan /\ S.fwd = F.fwd /\ G.fwd = A.fwd
    <2>1. ~ PortRisk(F, A, p)
      BY <1>1, <1>3, <1>5 DEF PortRisk, LostVlans, TaggedVlans
    <2>2. UntaggedRisk(A, p) => UntaggedRisk(F, p)
      BY <1>1, <1>4, <1>5 DEF UntaggedRisk
    <2>3. QED
      BY <2>1, <2>2 DEF F, A
  <1>6. CASE A.vlan = F.vlan /\ A.fwd = F.fwd
    <2>1. ~ (F.link[p] /\ ~ A.link[p])
      BY <1>1, <1>3 DEF PortRisk
    <2>2. F.fwd[p].recv # "only_untagged" => LostVlans(F, A, p) = {}
      BY <1>6 DEF LostVlans, TaggedVlans
    <2>3. ~ PortRisk(F, A, p)
      BY <1>6, <2>1, <2>2 DEF PortRisk
    <2>4. F.link[p] /\ UntaggedRisk(A, p) => UntaggedRisk(F, p)
      BY <1>6 DEF UntaggedRisk
    <2>5. QED
      BY <2>3, <2>4 DEF F, A
  <1>7. QED
    BY <1>1, <1>5, <1>6

(* So a linked port passes throughout what it passed before.                    *)
LEMMA PortKept ==
    ASSUME NEW cl, NEW sw, NEW b, NEW p \in Linked, Running(cl, b), PlanInv(cl, sw, {}, b),
           cl.req.kind = "apply", ~ cl.req.accept, cl.told # "noChange"
    PROVE  Keeps(cl.from, sw, p)
  <1> DEFINE F == cl.from
             A == AimOf(cl)
             was == F.fwd[p]
             new == A.fwd[p]
             now == sw.fwd[p]
  <1>1. ~ PortRisk(F, A, p) /\ (F.link[p] /\ UntaggedRisk(A, p) => UntaggedRisk(F, p))
    BY PortsSafe
  <1>2. /\ sw.fwd \in {F.fwd, A.fwd} /\ sw.link \in {F.link, A.link}
        /\ \/ sw.vlan = F.vlan /\ sw.fwd = F.fwd /\ sw.link = F.link
           \/ sw.vlan = A.vlan /\ sw.fwd = A.fwd /\ sw.link = A.link
           \/ Covers(sw.vlan, F.vlan) /\ Covers(sw.vlan, A.vlan)
    BY Stages
  <1>3. Untagged(F, p) /\ Untagged(A, p) => Untagged(sw, p)
    BY UntaggedThroughout
  <1> HIDE DEF F, A
  <1>4. /\ was.recv # "only_tagged" => new.recv # "only_tagged"
        /\ F.link[p] => A.link[p]
    BY <1>1 DEF PortRisk
  <1>5. ASSUME F.link[p], new.mode # "disabled"
        PROVE  /\ was.mode # "disabled"
               /\ new.recv # "only_tagged" => was.dvid = new.dvid
               /\ new.force => was.force
               /\ was.recv # "only_untagged" => LostVlans(F, A, p) = {}
    BY <1>1, <1>4, <1>5 DEF PortRisk
  <1>6. ASSUME Untagged(F, p)
        PROVE  Untagged(sw, p) /\ (now.mode = "disabled" \/ now.dvid = was.dvid)
    <2>1. F.link[p] /\ was.recv # "only_tagged" /\ ~ UntaggedRisk(F, p)
      BY <1>6 DEF Untagged
    <2>2. Untagged(A, p)
      BY <1>1, <1>4, <2>1 DEF Untagged
    <2>3. now = was \/ now = new
      BY <1>2
    <2>4. now.mode = "disabled" \/ now.dvid = was.dvid
      BY <1>4, <1>5, <2>1, <2>3
    <2>5. QED
      BY <1>3, <1>6, <2>2, <2>4
  <1>7. ASSUME now.mode # "disabled",
               NEW v \in Tagged(F, p), v \notin UntaggedVid(was), v \notin UntaggedVid(now)
        PROVE  v \in Tagged(sw, p)
    <2>1. /\ F.link[p] /\ was.mode # "disabled" /\ was.recv # "only_untagged" /\ ~ was.force
          /\ v \in TaggedVlans(F, p)
      BY <1>7 DEF Tagged
    <2>2. sw.link[p]
      BY <1>2, <1>4, <2>1
    <2>3. v \in DOMAIN F.vlan /\ p \in F.vlan[v]
      BY <2>1 DEF TaggedVlans
    <2>4. CASE sw.fwd = F.fwd
      <3>1. v \in TaggedVlans(sw, p)
        <4>1. CASE sw.vlan = A.vlan /\ sw.fwd = A.fwd
          <5>1. new = was
            BY <2>4, <4>1
          <5>2. LostVlans(F, A, p) = {} /\ new.recv # "only_untagged"
            BY <1>5, <2>1, <5>1
          <5>3. v \in TaggedVlans(A, p)
            BY <1>7, <2>1, <2>4, <5>1, <5>2 DEF LostVlans
          <5>4. QED
            BY <4>1, <5>3 DEF TaggedVlans
        <4>2. CASE sw.vlan = F.vlan
          BY <2>3, <4>2 DEF TaggedVlans
        <4>3. CASE Covers(sw.vlan, F.vlan)
          BY <2>3, <4>3 DEF TaggedVlans, Covers
        <4>4. QED
          BY <1>2, <4>1, <4>2, <4>3
      <3>2. QED
        BY <1>7, <2>1, <2>2, <2>4, <3>1 DEF Tagged
    <2>5. CASE sw.fwd = A.fwd
      <3>1. new.mode # "disabled" /\ v \notin UntaggedVid(new)
        BY <1>7, <2>5
      <3>2. LostVlans(F, A, p) = {} /\ ~ new.force
        BY <1>5, <2>1, <3>1
      <3>3. v \in TaggedVlans(F, p) \ (UntaggedVid(was) \cup UntaggedVid(new))
        BY <1>7, <2>1, <3>1
      <3>4. new.recv # "only_untagged" /\ v \in TaggedVlans(A, p)
        BY <3>2, <3>3 DEF LostVlans
      <3>5. v \in TaggedVlans(sw, p)
        <4>1. CASE sw.vlan = F.vlan
          BY <2>3, <4>1 DEF TaggedVlans
        <4>2. CASE sw.vlan = A.vlan
          BY <3>4, <4>2 DEF TaggedVlans
        <4>3. CASE Covers(sw.vlan, F.vlan)
          BY <2>3, <4>3 DEF TaggedVlans, Covers
        <4>4. QED
          BY <1>2, <4>1, <4>2, <4>3
      <3>6. QED
        BY <2>2, <2>5, <3>1, <3>2, <3>4, <3>5 DEF Tagged
    <2>6. QED
      BY <1>2, <2>4, <2>5
  <1>8. Keeps(F, sw, p)
    BY <1>6, <1>7 DEF Keeps
  <1>9. QED
    BY <1>8 DEF F

(* A management VLAN that passes the judgement holds the ports management comes *)
(* from, but where it was judged no worse than before.                          *)
LEMMA ManagementJudged ==
    ASSUME NEW x, NEW t, NEW y, NEW u,
           ManagementRisks(y, u) \ ManagementRisks(x, t) = {}, y.vlan # 0
    PROVE  /\ y.vlan # x.vlan => y.vlan \in DOMAIN u /\ (y.ports \cap Linked) \subseteq u[y.vlan]
           /\ y.vlan = x.vlan /\ y.ports = x.ports /\ y.vlan \in DOMAIN t =>
                /\ y.vlan \in DOMAIN u
                /\ \A p \in y.ports \cap Linked : p \in t[y.vlan] => p \in u[y.vlan]
  <1> DEFINE lost(s, w) == (s.ports \cap Linked) \ w[s.vlan]
  <1>1. \A k \in ManagementRisks(y, u) : k \in ManagementRisks(x, t)
    OBVIOUS
  <1>2. \A k \in ManagementRisks(x, t) :
          \/ x.vlan \notin DOMAIN t /\ k = <<"management VLAN not in the table", x.vlan>>
          \/ x.vlan \in DOMAIN t /\ k = <<"management ports not in its VLAN", x.vlan, lost(x, t)>>
    BY DEF ManagementRisks
  <1>3. y.vlan \notin DOMAIN u => <<"management VLAN not in the table", y.vlan>> \in ManagementRisks(y, u)
    BY DEF ManagementRisks
  <1>4. y.vlan \in DOMAIN u /\ lost(y, u) # {} =>
          <<"management ports not in its VLAN", y.vlan, lost(y, u)>> \in ManagementRisks(y, u)
    BY DEF ManagementRisks
  <1>5. y.vlan \notin DOMAIN u => y.vlan = x.vlan /\ x.vlan \notin DOMAIN t
    <2>1. SUFFICES ASSUME y.vlan \notin DOMAIN u PROVE y.vlan = x.vlan /\ x.vlan \notin DOMAIN t
      OBVIOUS
    <2>2. <<"management VLAN not in the table", y.vlan>> \in ManagementRisks(x, t)
      BY <1>1, <1>3, <2>1
    <2> HIDE DEF lost
    <2>3. \/ /\ x.vlan \notin DOMAIN t
             /\ <<"management VLAN not in the table", y.vlan>> = <<"management VLAN not in the table", x.vlan>>
          \/ <<"management VLAN not in the table", y.vlan>>
               = <<"management ports not in its VLAN", x.vlan, lost(x, t)>>
      BY <1>2, <2>2
    <2>4. QED
      BY <2>3
  <1>6. y.vlan \in DOMAIN u /\ lost(y, u) # {} =>
          y.vlan = x.vlan /\ x.vlan \in DOMAIN t /\ lost(y, u) = lost(x, t)
    <2>1. SUFFICES ASSUME y.vlan \in DOMAIN u, lost(y, u) # {}
                   PROVE  y.vlan = x.vlan /\ x.vlan \in DOMAIN t /\ lost(y, u) = lost(x, t)
      OBVIOUS
    <2>2. <<"management ports not in its VLAN", y.vlan, lost(y, u)>> \in ManagementRisks(x, t)
      BY <1>1, <1>4, <2>1
    <2> HIDE DEF lost
    <2>3. \/ <<"management ports not in its VLAN", y.vlan, lost(y, u)>>
               = <<"management VLAN not in the table", x.vlan>>
          \/ /\ x.vlan \in DOMAIN t
             /\ <<"management ports not in its VLAN", y.vlan, lost(y, u)>>
                  = <<"management ports not in its VLAN", x.vlan, lost(x, t)>>
      BY <1>2, <2>2
    <2>4. QED
      BY <2>3
  <1>7. QED
    BY <1>5, <1>6

LEMMA ReachedFrom ==
    ASSUME NEW x, NEW y, AllowFromPortRisks(y) \ AllowFromPortRisks(x) = {}, x.ports \cap Linked # {}
    PROVE  y.ports \cap Linked # {}
  BY DEF AllowFromPortRisks

(* The switch can be reached all the way, where the judgement sees it.          *)
LEMMA Reachable ==
    ASSUME NEW cl, NEW sw, NEW b, Running(cl, b), PlanInv(cl, sw, {}, b),
           cl.req.kind = "apply", ~ cl.req.accept, cl.told # "noChange",
           ~ MovesManagement(cl.from, AimOf(cl)), ~ MovesPorts(cl.from, AimOf(cl)),
           Manageable(cl.from)
    PROVE  Manageable(sw)
  <1> DEFINE F == cl.from
             A == AimOf(cl)
             S == Seen(cl)
             G == cl.goal
  <1>1. /\ S.sys = F.sys /\ G.sys = A.sys
        /\ \/ S.vlan = F.vlan /\ G.vlan = A.vlan
           \/ A.vlan = F.vlan /\ S.vlan = <<>> /\ G.vlan = <<>>
    BY SeenAndAimed
  <1>2. Risks(S, G) = {}
    BY Judged
  <1>3. /\ sw.sys \in {F.sys, A.sys}
        /\ \/ sw.vlan = F.vlan
           \/ sw.vlan = A.vlan
           \/ Covers(sw.vlan, F.vlan)
        /\ sw.sys = F.sys \/ sw.vlan = A.vlan
    BY Stages
  <1>4. /\ A.sys # F.sys => ~ ChangesVlans(F, A)
        /\ A.sys # F.sys => A.sys.vlan # F.sys.vlan \/ A.sys.vlan = 0
    BY DEF MovesManagement, MovesPorts
  <1>5. Manageable(F)
    OBVIOUS
  <1> HIDE DEF F, A, S, G
  <1>6. /\ ManagementRisks(A.sys, G.vlan) \ ManagementRisks(F.sys, S.vlan) = {}
        /\ AllowFromPortRisks(A.sys) \ AllowFromPortRisks(F.sys) = {}
    BY <1>1, <1>2 DEF Risks
  <1>7. PICK p \in Linked \cap F.sys.ports : F.sys.vlan = 0 \/ p \in Members(F.vlan, F.sys.vlan)
    BY <1>5 DEF Manageable
  <1>8. CASE sw.sys = F.sys /\ F.sys.vlan = 0
    BY <1>7, <1>8 DEF Manageable
  <1>9. CASE sw.sys = F.sys /\ F.sys.vlan # 0
    <2>1. F.sys.vlan \in DOMAIN F.vlan /\ p \in F.vlan[F.sys.vlan]
      BY <1>7, <1>9 DEF Members
    <2>2. p \in Members(sw.vlan, F.sys.vlan)
      <3>1. CASE sw.vlan = F.vlan
        BY <2>1, <3>1 DEF Members
      <3>2. CASE Covers(sw.vlan, F.vlan)
        BY <2>1, <3>2 DEF Covers, Members
      <3>3. CASE A.vlan = F.vlan /\ sw.vlan = A.vlan
        BY <2>1, <3>3 DEF Members
      <3>4. CASE A.vlan # F.vlan /\ sw.vlan = A.vlan
        <4>1. CASE A.sys = F.sys
          <5>1. S.vlan = F.vlan /\ G.vlan = A.vlan
            BY <1>1, <3>4
          <5>2. /\ F.sys.vlan \in DOMAIN A.vlan
                /\ \A q \in F.sys.ports \cap Linked : q \in F.vlan[F.sys.vlan] => q \in A.vlan[F.sys.vlan]
            BY <1>6, <1>9, <2>1, <4>1, <5>1, ManagementJudged
          <5>3. QED
            BY <1>7, <2>1, <3>4, <5>2 DEF Members
        <4>2. CASE A.sys # F.sys
          <5>1. F.sys.vlan \in DOMAIN A.vlan /\ Members(A.vlan, F.sys.vlan) = Members(F.vlan, F.sys.vlan)
            BY <1>4, <2>1, <4>2 DEF ChangesVlans
          <5>2. QED
            BY <1>7, <1>9, <3>4, <5>1
        <4>3. QED
          BY <4>1, <4>2
      <3>5. QED
        BY <1>3, <3>1, <3>2, <3>3, <3>4
    <2>3. QED
      BY <1>7, <1>9, <2>2 DEF Manageable
  <1>10. CASE sw.sys # F.sys
    <2>1. sw.sys = A.sys /\ A.sys # F.sys /\ sw.vlan = A.vlan
      BY <1>3, <1>10
    <2>2. A.sys.ports \cap Linked # {}
      BY <1>6, <1>7, ReachedFrom
    <2>3. CASE A.sys.vlan = 0
      BY <2>1, <2>2, <2>3 DEF Manageable
    <2>4. CASE A.sys.vlan # 0
      <3>1. A.sys.vlan \in DOMAIN G.vlan /\ (A.sys.ports \cap Linked) \subseteq G.vlan[A.sys.vlan]
        BY <1>4, <1>6, <2>1, <2>4, ManagementJudged
      <3>2. G.vlan = A.vlan
        <4>1. G.vlan # <<>>
          <5>1. DOMAIN <<>> = {}
            OBVIOUS
          <5>2. QED
            BY <3>1, <5>1
        <4>2. QED
          BY <1>1, <4>1
      <3>3. QED
        BY <2>1, <2>2, <3>1, <3>2 DEF Manageable, Members
    <2>5. QED
      BY <2>3, <2>4
  <1>11. QED
    BY <1>8, <1>9, <1>10

(* Nothing is cut off by a plan that was judged to cut nothing off, at any point*)
(* of it and wherever it ends.                                                  *)
THEOREM NothingCutOff == Spec => []NothingIsCutOff
  <1>1. ConfigInv => NothingIsCutOff
    <2> SUFFICES ASSUME ConfigInv, NEW c \in Callers, call[c].at # "idle", Quiet(c),
                        call[c].req.kind = "apply", ~ call[c].req.accept
                 PROVE  /\ \A p \in Linked : Keeps(base[c], switch, p)
                        /\ \/ /\ HasPlan(call[c])
                              /\ MovesManagement(base[c], Aim(c)) \/ MovesPorts(base[c], Aim(c))
                           \/ Manageable(base[c]) => Manageable(switch)
      BY DEF NothingIsCutOff
    <2> DEFINE cl == call[c]
    <2>1. CallInv(cl, switch, {}, base[c])
      BY DEF ConfigInv, Quiet
    <2>2. Running(cl, base[c]) /\ cl.from = base[c]
      BY <2>1 DEF CallInv, Running
    <2>3. Aim(c) = AimOf(cl)
      BY DEF Aim, AimOf, ToRead
    <2>4. CASE Untouched(cl, switch, {})
      <3>1. /\ switch.vlan = base[c].vlan /\ switch.fwd = base[c].fwd
            /\ switch.link = base[c].link /\ switch.sys = base[c].sys
        BY <2>2, <2>4, EndpointNames DEF Untouched
      <3>2. \A p \in Linked : Keeps(base[c], switch, p)
        <4> SUFFICES ASSUME NEW p \in Linked PROVE Keeps(base[c], switch, p)
          OBVIOUS
        <4>1. Untagged(base[c], p) => Untagged(switch, p)
          BY <3>1 DEF Untagged, UntaggedRisk
        <4>2. Tagged(switch, p) = Tagged(base[c], p)
          BY <3>1 DEF Tagged, TaggedVlans
        <4>3. QED
          BY <3>1, <4>1, <4>2 DEF Keeps
      <3>3. Manageable(base[c]) => Manageable(switch)
        BY <3>1 DEF Manageable
      <3>4. QED
        BY <3>2, <3>3
    <2>5. CASE ~ Untouched(cl, switch, {})
      <3>1. HasPlan(cl) /\ PlanInv(cl, switch, {}, base[c]) /\ cl.told # "noChange"
        BY <2>1, <2>2, <2>5 DEF CallInv, Running, HasPlan
      <3>2. \A p \in Linked : Keeps(base[c], switch, p)
        BY <2>2, <3>1, PortKept
      <3>3. ~ MovesManagement(base[c], Aim(c)) /\ ~ MovesPorts(base[c], Aim(c))
              => (Manageable(base[c]) => Manageable(switch))
        BY <2>2, <2>3, <3>1, Reachable
      <3>4. QED
        BY <3>1, <3>2, <3>3
    <2>6. QED
      BY <2>4, <2>5
  <1>2. QED
    BY <1>1, ConfigInvariant, PTL
=============================================================================
