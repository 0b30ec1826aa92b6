--------------------------- MODULE FecPower_proofs ---------------------------
(***************************************************************************)
(* Power and the MDIO bus of the FEC driver, for any set of failing steps  *)
(* and any number of timeouts and restarts.  The inductive invariant IInv  *)
(* relates the counts to who uses the device, and says of a transaction    *)
(* that nothing disturbed that exactly one of its frame, its event, its    *)
(* interrupt and its completion exists.                                    *)
(***************************************************************************)
EXTENDS FecPower, TLAPS

Powers == [usage : Int, active : BOOLEAN, ipg : Int, ahb : Int, clk : Int, reg : Int]
Ops == [by : {"nobody", "own", "peer"}, phase : {"idle", "addr", "data"},
        write : BOOLEAN, excused : BOOLEAN]

Types ==
  /\ net \in {"unbound", "down", "opening", "up", "lost"}
  /\ peer \in {"none", "up", "asleep"}
  /\ asleep \in BOOLEAN /\ share \in BOOLEAN /\ pins \in BOOLEAN
  /\ power \in Powers
  /\ imask \in BOOLEAN /\ event \in BOOLEAN /\ irq \in BOOLEAN /\ mmfr \in BOOLEAN
  /\ wire \in {"none", "old", "addr", "data"}
  /\ done \in Nat /\ restarts \in Nat /\ timeouts \in Nat /\ leaks \in Nat
  /\ op \in Ops
  /\ hist \subseteq {"hung", "wrong", "dormant_bus"}

InUse == net \in {"opening", "up"}

\* Who may be doing what: sleep comes with no transaction and no probing of the
\* PHY, a caller is there while it calls, and a second FEC has claimed the bus.
Callers ==
  /\ op = Idle \/ op.phase \in {"addr", "data"}
  /\ asleep => op = Idle /\ net \in {"down", "up"}
  /\ op # Idle => (op.by = "own" /\ InUse) \/ (op.by = "peer" /\ peer = "up")
  /\ peer # "none" => share /\ net \in {"down", "opening", "up"}
  /\ net = "unbound" => ~power.active

\* The bus clocks run once while the device is active, it is active for whoever
\* uses it, and nothing is pending on a device that is not.
Clocked ==
  /\ power.ipg = (IF power.active THEN 1 ELSE 0)
  /\ power.ahb = (IF power.active THEN 1 ELSE 0)
Counted ==
  power.usage >= (IF InUse THEN 1 ELSE 0) + (IF op # Idle THEN 1 ELSE 0)
Active ==
  /\ ~asleep /\ (InUse \/ op # Idle) => power.active
  /\ asleep /\ net = "up" => ~power.active
  /\ event \/ irq \/ wire # "none" => power.active
  /\ "hung" \notin hist
Referenced == Clocked /\ Counted /\ Active

\* The bus answers whoever may call: the pins are not asleep, the interrupt is
\* not masked.
BusAwake ==
  ~asleep /\ "dormant_bus" \notin hist /\ (InUse \/ peer # "none") => pins /\ imask

\* A transaction nothing disturbed has exactly one of its frame on the wire, the
\* event, the interrupt and the completion, and then the PHY's answer.
Excused == op.excused \/ "dormant_bus" \in hist
Undisturbed ==
  op # Idle /\ ~Excused =>
    /\ \/ wire = op.phase /\ ~event /\ ~irq /\ done = 0
       \/ wire = "none" /\ event /\ ~irq /\ done = 0
       \/ wire = "none" /\ ~event /\ irq /\ done = 0
       \/ wire = "none" /\ ~event /\ ~irq /\ done = 1
    /\ op.phase = "data" /\ wire = "none" => mmfr

IInv ==
  /\ Types
  /\ "wrong" \notin hist
  /\ net # "lost" => Callers /\ Referenced /\ BusAwake /\ Undisturbed
-----------------------------------------------------------------------------
(* Counting *)

LEMMA AddUsage ==
  ASSUME NEW p \in Powers, NEW n \in Int
  PROVE  LET q == Add(p, {"usage"}, n)
         IN  /\ q \in Powers /\ q.usage = p.usage + n /\ q.active = p.active
             /\ q.ipg = p.ipg /\ q.ahb = p.ahb /\ q.clk = p.clk /\ q.reg = p.reg
  BY DEF Add, Powers

LEMMA AddBus ==
  ASSUME NEW p \in Powers, NEW n \in Int
  PROVE  LET q == Add(p, {"ipg", "ahb"}, n)
         IN  /\ q \in Powers /\ q.usage = p.usage /\ q.active = p.active
             /\ q.ipg = p.ipg + n /\ q.ahb = p.ahb + n /\ q.clk = p.clk /\ q.reg = p.reg
  BY DEF Add, Powers

LEMMA AddClk ==
  ASSUME NEW p \in Powers, NEW n \in Int
  PROVE  LET q == Add(p, {"clk"}, n)
         IN  /\ q \in Powers /\ q.usage = p.usage /\ q.active = p.active
             /\ q.ipg = p.ipg /\ q.ahb = p.ahb /\ q.clk = p.clk + n /\ q.reg = p.reg
  BY DEF Add, Powers

LEMMA AddReg ==
  ASSUME NEW p \in Powers, NEW n \in Int
  PROVE  LET q == Add(p, {"reg"}, n)
         IN  /\ q \in Powers /\ q.usage = p.usage /\ q.active = p.active
             /\ q.ipg = p.ipg /\ q.ahb = p.ahb /\ q.clk = p.clk /\ q.reg = p.reg + n
  BY DEF Add, Powers

LEMMA AddClocks ==
  ASSUME NEW p \in Powers, NEW n \in Int
  PROVE  LET q == Add(p, {"clk", "ipg", "ahb"}, n)
         IN  /\ q \in Powers /\ q.usage = p.usage /\ q.active = p.active
             /\ q.ipg = p.ipg + n /\ q.ahb = p.ahb + n /\ q.clk = p.clk + n /\ q.reg = p.reg
  BY DEF Add, Powers

LEMMA AddBusReg ==
  ASSUME NEW p \in Powers, NEW n \in Int
  PROVE  LET q == Add(p, {"ahb", "ipg", "reg"}, n)
         IN  /\ q \in Powers /\ q.usage = p.usage /\ q.active = p.active
             /\ q.ipg = p.ipg + n /\ q.ahb = p.ahb + n /\ q.clk = p.clk /\ q.reg = p.reg + n
  BY DEF Add, Powers

LEMMA Activated ==
  ASSUME NEW p \in Powers, NEW b \in BOOLEAN
  PROVE  LET q == [p EXCEPT !.active = b]
         IN  /\ q \in Powers /\ q.usage = p.usage /\ q.active = b
             /\ q.ipg = p.ipg /\ q.ahb = p.ahb /\ q.clk = p.clk /\ q.reg = p.reg
  BY DEF Powers

LEMMA NoneFields ==
  /\ None \in Powers /\ None.usage = 0 /\ None.active = FALSE
  /\ None.ipg = 0 /\ None.ahb = 0 /\ None.clk = 0 /\ None.reg = 0
  BY DEF None, Powers

LEMMA UnboundFields ==
  ASSUME leaks \in Nat
  PROVE  /\ Unbound \in Powers /\ Unbound.usage = leaks /\ Unbound.active = FALSE
         /\ Unbound.ipg = 0 /\ Unbound.ahb = 0 /\ Unbound.clk = 0 /\ Unbound.reg = 0
  BY NoneFields DEF Unbound, Powers

LEMMA AddUsageReg ==
  ASSUME NEW p \in Powers
  PROVE  LET q == Add(p, {"usage", "reg"}, 1)
         IN  /\ q \in Powers /\ q.usage = p.usage + 1 /\ q.active = p.active
             /\ q.ipg = p.ipg /\ q.ahb = p.ahb /\ q.clk = p.clk /\ q.reg = p.reg + 1
  BY DEF Add, Powers

LEMMA AddClkReg ==
  ASSUME NEW p \in Powers
  PROVE  Add(p, {"clk", "reg"}, 1) \in Powers
  BY DEF Add, Powers

LEMMA GetFields ==
  ASSUME NEW p \in Powers
  PROVE  LET q == Get(p)
         IN  /\ q \in Powers /\ q.usage = p.usage + 1 /\ q.active
             /\ q.ipg = (IF p.active THEN p.ipg ELSE p.ipg + 1)
             /\ q.ahb = (IF p.active THEN p.ahb ELSE p.ahb + 1)
             /\ q.clk = p.clk /\ q.reg = p.reg
<1> DEFINE u == Add(p, {"usage"}, 1)
           b == Add(u, {"ipg", "ahb"}, 1)
           a == [b EXCEPT !.active = TRUE]
<1>1. Get(p) = IF p.active THEN u ELSE a
  BY DEF Get
<1>2. /\ u \in Powers /\ u.usage = p.usage + 1 /\ u.active = p.active
      /\ u.ipg = p.ipg /\ u.ahb = p.ahb /\ u.clk = p.clk /\ u.reg = p.reg
  BY AddUsage
<1> HIDE DEF u
<1>3. /\ b \in Powers /\ b.usage = u.usage /\ b.active = u.active
      /\ b.ipg = u.ipg + 1 /\ b.ahb = u.ahb + 1 /\ b.clk = u.clk /\ b.reg = u.reg
  BY <1>2, AddBus
<1> HIDE DEF b
<1>4. /\ a \in Powers /\ a.usage = b.usage /\ a.active
      /\ a.ipg = b.ipg /\ a.ahb = b.ahb /\ a.clk = b.clk /\ a.reg = b.reg
  BY <1>3, Activated
<1> HIDE DEF a
<1> QED
  BY <1>1, <1>2, <1>3, <1>4

LEMMA PutFields ==
  ASSUME NEW p \in Powers
  PROVE  LET q == Put(p)
         IN  /\ q \in Powers /\ q.usage = p.usage - 1 /\ q.active = p.active
             /\ q.ipg = p.ipg /\ q.ahb = p.ahb /\ q.clk = p.clk /\ q.reg = p.reg
  BY DEF Put, Add, Powers

LEMMA ReleaseFields ==
  ASSUME NEW p \in Powers
  PROVE  LET q == Release(p)
         IN  /\ q \in Powers /\ q.usage = p.usage - 1 /\ q.active = p.active
             /\ q.ipg = p.ipg /\ q.ahb = p.ahb /\ q.clk = p.clk - 1 /\ q.reg = p.reg
<1> DEFINE c == Add(p, {"clk"}, -1)
<1>1. /\ c \in Powers /\ c.usage = p.usage /\ c.active = p.active
      /\ c.ipg = p.ipg /\ c.ahb = p.ahb /\ c.clk = p.clk - 1 /\ c.reg = p.reg
  BY AddClk, -1 \in Int
<1>2. Release(p) = Put(c)
  BY DEF Release
<1> HIDE DEF c
<1> QED
  BY <1>1, <1>2, PutFields
-----------------------------------------------------------------------------
(* What each action does to the counts *)

LEMMA ProbeFailsPower ==
  ASSUME leaks \in Nat, NEW step \in Steps, ProbeFails(step)
  PROVE  /\ power' \in Powers /\ power'.usage = leaks /\ ~power'.active
         /\ power'.ipg = 0 /\ power'.ahb = 0
         /\ step \notin {"reset", "register"} => power'.clk = 0 /\ power'.reg = 0
<1> DEFINE h == Add(Unbound, Held(step), 1)
<1>1. power' = Add(h, GivenBack(step), -1)
  BY DEF ProbeFails
<1>2. /\ h \in Powers /\ h.usage = leaks /\ h.active = FALSE
      /\ h.ipg = (IF "ipg" \in Held(step) THEN 1 ELSE 0)
      /\ h.ahb = (IF "ahb" \in Held(step) THEN 1 ELSE 0)
      /\ h.clk = (IF "clk" \in Held(step) THEN 1 ELSE 0)
      /\ h.reg = (IF "reg" \in Held(step) THEN 1 ELSE 0)
  <2>1. /\ Unbound \in Powers /\ Unbound.usage = leaks /\ Unbound.active = FALSE
        /\ Unbound.ipg = 0 /\ Unbound.ahb = 0 /\ Unbound.clk = 0 /\ Unbound.reg = 0
    BY UnboundFields
  <2>2. DOMAIN Unbound = {"usage", "active", "ipg", "ahb", "clk", "reg"}
    BY <2>1 DEF Powers
  <2>3. "active" \notin Held(step) /\ "usage" \notin Held(step)
    BY DEF Steps, Held
  <2> QED
    BY <2>1, <2>2, <2>3 DEF Add, Powers
<1> HIDE DEF h
<1>3. /\ power' \in Powers /\ power'.usage = h.usage /\ power'.active = h.active
      /\ power'.ipg = (IF "ipg" \in GivenBack(step) THEN h.ipg - 1 ELSE h.ipg)
      /\ power'.ahb = (IF "ahb" \in GivenBack(step) THEN h.ahb - 1 ELSE h.ahb)
      /\ power'.clk = (IF "clk" \in GivenBack(step) THEN h.clk - 1 ELSE h.clk)
      /\ power'.reg = (IF "reg" \in GivenBack(step) THEN h.reg - 1 ELSE h.reg)
  BY <1>1, <1>2 DEF Steps, GivenBack, Add, Powers
<1> QED
  BY <1>2, <1>3 DEF Steps, Held, GivenBack

LEMMA ProbePower ==
  ASSUME leaks \in Nat, Probe
  PROVE  /\ power' \in Powers /\ power'.usage = leaks /\ power'.active
         /\ power'.ipg = 1 /\ power'.ahb = 1 /\ power'.clk = 0 /\ power'.reg = 1
<1> DEFINE o == Add(Unbound, {"ahb", "ipg", "reg"}, 1)
<1>1. {"ipg", "ahb", "reg"} = {"ahb", "ipg", "reg"}
  OBVIOUS
<1>2. power' = [o EXCEPT !.active = TRUE]
  BY <1>1 DEF Probe
<1>3. /\ o \in Powers /\ o.usage = Unbound.usage /\ o.ipg = Unbound.ipg + 1
      /\ o.ahb = Unbound.ahb + 1 /\ o.clk = Unbound.clk /\ o.reg = Unbound.reg + 1
  BY UnboundFields, AddBusReg, 1 \in Int
<1> HIDE DEF o
<1>4. /\ power' \in Powers /\ power'.usage = o.usage /\ power'.active /\ power'.ipg = o.ipg
      /\ power'.ahb = o.ahb /\ power'.clk = o.clk /\ power'.reg = o.reg
  BY <1>2, <1>3, Activated
<1> QED
  BY <1>3, <1>4, UnboundFields

LEMMA RemovePower ==
  ASSUME power \in Powers, Remove
  PROVE  /\ power' \in Powers /\ ~power'.active
         /\ power'.usage = (IF net = "up" THEN power.usage - 1 ELSE power.usage)
         /\ power'.ipg = (IF power.active THEN power.ipg - 1 ELSE power.ipg)
         /\ power'.ahb = (IF power.active THEN power.ahb - 1 ELSE power.ahb)
         /\ power'.clk = (IF net = "up" THEN power.clk - 1 ELSE power.clk)
         /\ power'.reg = power.reg - 1
<1> DEFINE closed == IF net = "up" THEN Release(power) ELSE power
           g == Get(closed)
           p == Put(g)
           o == Add(p, {"ahb", "ipg", "reg"}, -1)
<1>1. power' = [o EXCEPT !.active = FALSE]
  BY DEF Remove
<1>2. /\ closed \in Powers /\ closed.active = power.active
      /\ closed.usage = (IF net = "up" THEN power.usage - 1 ELSE power.usage)
      /\ closed.ipg = power.ipg /\ closed.ahb = power.ahb
      /\ closed.clk = (IF net = "up" THEN power.clk - 1 ELSE power.clk)
      /\ closed.reg = power.reg
  BY ReleaseFields
<1> HIDE DEF closed
<1>3. /\ g \in Powers /\ g.usage = closed.usage + 1
      /\ g.ipg = (IF closed.active THEN closed.ipg ELSE closed.ipg + 1)
      /\ g.ahb = (IF closed.active THEN closed.ahb ELSE closed.ahb + 1)
      /\ g.clk = closed.clk /\ g.reg = closed.reg
  BY <1>2, GetFields
<1> HIDE DEF g
<1>4. /\ p \in Powers /\ p.usage = g.usage - 1 /\ p.ipg = g.ipg /\ p.ahb = g.ahb
      /\ p.clk = g.clk /\ p.reg = g.reg
  BY <1>3, PutFields
<1> HIDE DEF p
<1>5. /\ o \in Powers /\ o.usage = p.usage /\ o.ipg = p.ipg - 1 /\ o.ahb = p.ahb - 1
      /\ o.clk = p.clk /\ o.reg = p.reg - 1
  BY <1>4, AddBusReg, -1 \in Int
<1> HIDE DEF o
<1>6. /\ power' \in Powers /\ ~power'.active /\ power'.usage = o.usage /\ power'.ipg = o.ipg
      /\ power'.ahb = o.ahb /\ power'.clk = o.clk /\ power'.reg = o.reg
  BY <1>1, <1>5, Activated
<1> QED
  BY <1>2, <1>3, <1>4, <1>5, <1>6 DEF Powers

LEMMA GetFailsPower ==
  ASSUME power \in Powers, GetFails
  PROVE  /\ power' \in Powers /\ power'.usage = power.usage + 1
         /\ ~power.active /\ ~power'.active
         /\ power'.ipg = power.ipg /\ power'.ahb = power.ahb
         /\ power'.clk = power.clk /\ power'.reg = power.reg
  BY AddUsage DEF GetFails

LEMMA OpenFailsPower ==
  ASSUME power \in Powers, NEW step, OpenFails(step)
  PROVE  /\ power' \in Powers
         /\ power'.usage = (IF step = "get" THEN power.usage + 1 ELSE power.usage)
         /\ (power'.active <=> power.active \/ step # "get")
         /\ power'.ipg = (IF power'.active /\ ~power.active THEN power.ipg + 1 ELSE power.ipg)
         /\ power'.ahb = (IF power'.active /\ ~power.active THEN power.ahb + 1 ELSE power.ahb)
         /\ power'.clk = power.clk /\ power'.reg = power.reg
<1>1. CASE step = "get"
  <2> DEFINE u == Add(power, {"usage"}, 1)
  <2>1. power' = u /\ ~power.active
    BY <1>1 DEF OpenFails, GetFails
  <2>2. /\ u \in Powers /\ u.usage = power.usage + 1 /\ u.active = power.active
        /\ u.ipg = power.ipg /\ u.ahb = power.ahb /\ u.clk = power.clk /\ u.reg = power.reg
    BY AddUsage
  <2> HIDE DEF u
  <2> QED
    BY <1>1, <2>1, <2>2
<1>2. CASE step # "get"
  <2> DEFINE g == Get(power)
  <2>1. power' = Put(g)
    BY <1>2 DEF OpenFails
  <2>2. /\ g \in Powers /\ g.usage = power.usage + 1 /\ g.active
        /\ g.ipg = (IF power.active THEN power.ipg ELSE power.ipg + 1)
        /\ g.ahb = (IF power.active THEN power.ahb ELSE power.ahb + 1)
        /\ g.clk = power.clk /\ g.reg = power.reg
    BY GetFields
  <2> HIDE DEF g
  <2> QED
    BY <1>2, <2>1, <2>2, PutFields DEF Powers
<1> QED
  BY <1>1, <1>2

LEMMA OpenPower ==
  ASSUME power \in Powers, Open
  PROVE  /\ power' \in Powers /\ power'.usage = power.usage + 1 /\ power'.active
         /\ power'.ipg = (IF power.active THEN power.ipg ELSE power.ipg + 1)
         /\ power'.ahb = (IF power.active THEN power.ahb ELSE power.ahb + 1)
         /\ power'.clk = power.clk + 1 /\ power'.reg = power.reg
<1> DEFINE g == Get(power)
<1>1. power' = Add(g, {"clk"}, 1)
  BY DEF Open
<1>2. /\ g \in Powers /\ g.usage = power.usage + 1 /\ g.active
      /\ g.ipg = (IF power.active THEN power.ipg ELSE power.ipg + 1)
      /\ g.ahb = (IF power.active THEN power.ahb ELSE power.ahb + 1)
      /\ g.clk = power.clk /\ g.reg = power.reg
  BY GetFields
<1> HIDE DEF g
<1> QED
  BY <1>1, <1>2, AddClk

LEMMA SuspendPower ==
  ASSUME power \in Powers, Suspend
  PROVE  /\ power' \in Powers /\ power'.usage = power.usage /\ power'.reg = power.reg - 1
         /\ net = "up" => /\ ~power'.active /\ power'.ipg = power.ipg - 1
                          /\ power'.ahb = power.ahb - 1 /\ power'.clk = power.clk - 1
         /\ net # "up" => /\ power'.active = power.active /\ power'.ipg = power.ipg
                          /\ power'.ahb = power.ahb /\ power'.clk = power.clk
<1> DEFINE c == Add(power, {"clk", "ipg", "ahb"}, -1)
           off == [c EXCEPT !.active = FALSE]
           s == IF net = "up" THEN off ELSE power
<1>1. power' = Add(s, {"reg"}, -1)
  BY DEF Suspend
<1>2. /\ c \in Powers /\ c.usage = power.usage /\ c.ipg = power.ipg - 1
      /\ c.ahb = power.ahb - 1 /\ c.clk = power.clk - 1 /\ c.reg = power.reg
  BY AddClocks, -1 \in Int
<1> HIDE DEF c
<1>3. /\ off \in Powers /\ off.usage = c.usage /\ ~off.active /\ off.ipg = c.ipg
      /\ off.ahb = c.ahb /\ off.clk = c.clk /\ off.reg = c.reg
  BY <1>2, Activated
<1> HIDE DEF off
<1>4. s \in Powers
  BY <1>3
<1>5. /\ power' \in Powers /\ power'.usage = s.usage /\ power'.active = s.active
      /\ power'.ipg = s.ipg /\ power'.ahb = s.ahb /\ power'.clk = s.clk
      /\ power'.reg = s.reg - 1
  <2> HIDE DEF s
  <2> QED
    BY <1>1, <1>4, AddReg, -1 \in Int
<1> QED
  BY <1>2, <1>3, <1>5 DEF Powers

LEMMA ResumePower ==
  ASSUME power \in Powers, Resume
  PROVE  /\ power' \in Powers /\ power'.usage = power.usage /\ power'.reg = power.reg + 1
         /\ net = "up" => /\ power'.active /\ power'.ipg = power.ipg + 1
                          /\ power'.ahb = power.ahb + 1 /\ power'.clk = power.clk + 1
         /\ net # "up" /\ share =>
              /\ power'.active /\ power'.clk = power.clk
              /\ power'.ipg = (IF power.active THEN power.ipg ELSE power.ipg + 1)
              /\ power'.ahb = (IF power.active THEN power.ahb ELSE power.ahb + 1)
         /\ net # "up" /\ ~share =>
              /\ power'.active = power.active /\ power'.ipg = power.ipg
              /\ power'.ahb = power.ahb /\ power'.clk = power.clk
<1> DEFINE c == Add(power, {"clk", "ipg", "ahb"}, 1)
           on == [c EXCEPT !.active = TRUE]
           g == Get(power)
           p == Put(g)
           s == IF net = "up" THEN on ELSE IF share THEN p ELSE power
<1>1. power' = Add(s, {"reg"}, 1)
  BY DEF Resume
<1>2. /\ c \in Powers /\ c.usage = power.usage /\ c.ipg = power.ipg + 1
      /\ c.ahb = power.ahb + 1 /\ c.clk = power.clk + 1 /\ c.reg = power.reg
  BY AddClocks
<1> HIDE DEF c
<1>3. /\ on \in Powers /\ on.usage = c.usage /\ on.active /\ on.ipg = c.ipg
      /\ on.ahb = c.ahb /\ on.clk = c.clk /\ on.reg = c.reg
  BY <1>2, Activated
<1> HIDE DEF on
<1>4. /\ g \in Powers /\ g.usage = power.usage + 1 /\ g.active
      /\ g.ipg = (IF power.active THEN power.ipg ELSE power.ipg + 1)
      /\ g.ahb = (IF power.active THEN power.ahb ELSE power.ahb + 1)
      /\ g.clk = power.clk /\ g.reg = power.reg
  BY GetFields
<1> HIDE DEF g
<1>5. /\ p \in Powers /\ p.usage = g.usage - 1 /\ p.active = g.active /\ p.ipg = g.ipg
      /\ p.ahb = g.ahb /\ p.clk = g.clk /\ p.reg = g.reg
  BY <1>4, PutFields
<1> HIDE DEF p
<1>6. s \in Powers
  BY <1>3, <1>5
<1>7. /\ power' \in Powers /\ power'.usage = s.usage /\ power'.active = s.active
      /\ power'.ipg = s.ipg /\ power'.ahb = s.ahb /\ power'.clk = s.clk
      /\ power'.reg = s.reg + 1
  <2> HIDE DEF s
  <2> QED
    BY <1>1, <1>6, AddReg
<1>8. CASE net = "up"
  BY <1>2, <1>3, <1>7, <1>8 DEF Powers
<1>9. CASE net # "up" /\ share
  <2>1. s = p
    BY <1>9
  <2> HIDE DEF s
  <2>2. /\ p.usage = power.usage /\ p.active /\ p.clk = power.clk /\ p.reg = power.reg
        /\ p.ipg = (IF power.active THEN power.ipg ELSE power.ipg + 1)
        /\ p.ahb = (IF power.active THEN power.ahb ELSE power.ahb + 1)
    BY <1>4, <1>5 DEF Powers
  <2> QED
    BY <1>7, <1>9, <2>1, <2>2 DEF Powers
<1>10. CASE net # "up" /\ ~share
  BY <1>7, <1>10 DEF Powers
<1> QED
  BY <1>8, <1>9, <1>10

LEMMA RestoreFailsPower ==
  ASSUME power \in Powers, RestoreFails
  PROVE  /\ power' \in Powers /\ power'.usage = power.usage + 1
         /\ ~power.active /\ ~power'.active
         /\ power'.ipg = power.ipg /\ power'.ahb = power.ahb
         /\ power'.clk = power.clk /\ power'.reg = power.reg + 1
  BY AddUsageReg DEF RestoreFails, Powers

LEMMA ResumeFailsPower ==
  ASSUME power \in Powers, NEW step, ResumeFails(step)
  PROVE  power' \in Powers
<1> DEFINE b == Add(power, {"ipg", "ahb"}, 1)
<1>1. b \in Powers /\ Add(power, {"clk", "reg"}, 1) \in Powers
  BY AddBus, AddClkReg
<1>2. [b EXCEPT !.active = TRUE] \in Powers
  BY <1>1, Activated
<1>3. power' \in {power, [b EXCEPT !.active = TRUE], Add(power, {"clk", "reg"}, 1)}
  BY DEF ResumeFails
<1> HIDE DEF b
<1> QED
  BY <1>1, <1>2, <1>3

LEMMA AutosuspendPower ==
  ASSUME power \in Powers, Autosuspend
  PROVE  /\ power' \in Powers /\ power'.usage = power.usage /\ ~power'.active
         /\ power'.ipg = power.ipg - 1 /\ power'.ahb = power.ahb - 1
         /\ power'.clk = power.clk /\ power'.reg = power.reg
<1> DEFINE b == Add(power, {"ipg", "ahb"}, -1)
<1>1. power' = [b EXCEPT !.active = FALSE]
  BY DEF Autosuspend
<1>2. /\ b \in Powers /\ b.usage = power.usage /\ b.ipg = power.ipg - 1
      /\ b.ahb = power.ahb - 1 /\ b.clk = power.clk /\ b.reg = power.reg
  BY AddBus, -1 \in Int
<1> HIDE DEF b
<1> QED
  BY <1>1, <1>2, Activated
-----------------------------------------------------------------------------
(* Each action keeps the invariant *)

LEMMA IdleFields ==
  Idle \in Ops /\ Idle.by = "nobody" /\ Idle.phase = "idle" /\ Idle.excused = FALSE
  BY DEF Idle, Ops

LEMMA ExcuseFields ==
  ASSUME op \in Ops, Excuse
  PROVE  /\ op' \in Ops /\ op'.by = op.by /\ op'.phase = op.phase
         /\ op'.excused <=> op.excused \/ op # Idle
         /\ op' = Idle <=> op = Idle
<1>1. op' \in Ops /\ op'.by = op.by /\ op'.phase = op.phase /\ op'.write = op.write
  BY DEF Excuse, Ops
<1>2. op'.excused <=> op.excused \/ op # Idle
  BY DEF Excuse, Ops
<1>3. op = Idle => op' = Idle
  BY <1>1, <1>2, IdleFields DEF Excuse, Ops
<1>4. op' = Idle => op = Idle
  BY <1>1, <1>2, IdleFields DEF Excuse, Ops
<1> QED
  BY <1>1, <1>2, <1>3, <1>4

LEMMA InitIInv ==
  Init => IInv
<1> SUFFICES ASSUME Init PROVE IInv
  OBVIOUS
<1>1. Types
  BY NoneFields, IdleFields DEF Init, Types
<1>2. Callers /\ Referenced /\ BusAwake
  BY NoneFields, IdleFields DEF Init, Callers, Referenced, Clocked, Counted, Active,
     BusAwake, InUse
<1>3. Undisturbed /\ "wrong" \notin hist
  BY DEF Init, Undisturbed
<1> QED
  BY <1>1, <1>2, <1>3 DEF IInv

LEMMA ProbeFailsIInv ==
  ASSUME IInv, NEW step \in Steps, ProbeFails(step)
  PROVE  IInv'
<1>1. Types'
  BY ProbeFailsPower, IdleFields DEF IInv, Types, ProbeFails, macVars, bound
<1>2. "wrong" \notin hist'
  BY DEF IInv, Types, ProbeFails, macVars, bound
<1>3. CASE net # "lost"
  <2>1. Callers'
    BY <1>1, <1>3, ProbeFailsPower, IdleFields
       DEF IInv, Types, Callers, Referenced, Active, InUse, ProbeFails, macVars, bound
  <2>2. Clocked'
    BY ProbeFailsPower DEF Clocked, IInv, Types
  <2>3. Counted'
    BY <1>1, <1>3, ProbeFailsPower, IdleFields
       DEF IInv, Types, Powers, Callers, Referenced, Counted, InUse, ProbeFails, macVars,
       bound
  <2>4. Active'
    BY <1>1, <1>3, ProbeFailsPower, IdleFields
       DEF IInv, Types, Callers, Referenced, Clocked, Active, InUse, ProbeFails, macVars,
       bound
  <2>5. BusAwake'
    BY <1>1, <1>3, ProbeFailsPower, IdleFields
       DEF IInv, Types, Callers, BusAwake, InUse, ProbeFails, macVars, bound
  <2>6. Undisturbed'
    BY <1>1, <1>3, ProbeFailsPower, IdleFields
       DEF IInv, Types, Callers, BusAwake, Undisturbed, Excused, InUse, ProbeFails,
       macVars, bound
  <2> QED
    BY <1>1, <1>2, <2>1, <2>2, <2>3, <2>4, <2>5, <2>6 DEF IInv, Referenced
<1>4. CASE net = "lost"
  BY <1>1, <1>2, <1>4 DEF IInv, ProbeFails, macVars, bound
<1> QED
  BY <1>3, <1>4

LEMMA ProbeIInv ==
  ASSUME IInv, Probe
  PROVE  IInv'
<1>1. Types'
  BY ProbePower, IdleFields DEF IInv, Types, Probe, ResetMac, bound
<1>2. "wrong" \notin hist'
  BY DEF IInv, Types, Probe, ResetMac, bound
<1>3. CASE net # "lost"
  <2>1. Callers'
    BY <1>1, <1>3, ProbePower, IdleFields
       DEF IInv, Types, Callers, Referenced, Active, InUse, Probe, ResetMac, bound
  <2>2. Clocked'
    BY ProbePower DEF Clocked, IInv, Types
  <2>3. Counted'
    <3>1. op' = Idle /\ net' = "down"
      BY <1>3, IdleFields DEF IInv, Callers, InUse, Probe
    <3> QED
      BY <3>1, ProbePower DEF Counted, InUse, IInv, Types
  <2>4. Active'
    BY <1>1, <1>3, ProbePower, IdleFields
       DEF IInv, Types, Callers, Referenced, Clocked, Active, InUse, Probe, ResetMac, bound
  <2>5. BusAwake'
    BY <1>1, <1>3, ProbePower, IdleFields
       DEF IInv, Types, Callers, BusAwake, InUse, Probe, ResetMac, bound
  <2>6. Undisturbed'
    BY <1>1, <1>3, ProbePower, IdleFields
       DEF IInv, Types, Callers, BusAwake, Undisturbed, Excused, InUse, Probe, ResetMac,
       bound
  <2> QED
    BY <1>1, <1>2, <2>1, <2>2, <2>3, <2>4, <2>5, <2>6 DEF IInv, Referenced
<1>4. CASE net = "lost"
  BY <1>1, <1>2, <1>4 DEF IInv, Probe, ResetMac, bound
<1> QED
  BY <1>3, <1>4

LEMMA RemoveIInv ==
  ASSUME IInv, Remove
  PROVE  IInv'
<1>1. Types'
  BY RemovePower, IdleFields DEF IInv, Types, Remove, bound
<1>2. "wrong" \notin hist'
  BY DEF IInv, Types, Remove, bound
<1>3. CASE net # "lost"
  <2>1. Callers'
    BY <1>1, <1>3, RemovePower, IdleFields
       DEF IInv, Types, Callers, Referenced, Active, InUse, Remove, bound
  <2>2. Clocked'
    BY <1>3, RemovePower DEF IInv, Types, Powers, Referenced, Clocked
  <2>3. Counted'
    <3>1. op' = Idle /\ net' = "unbound" /\ power.usage >= (IF net = "up" THEN 1 ELSE 0)
      BY <1>3 DEF IInv, Types, Powers, Referenced, Counted, InUse, Remove
    <3>2. power'.usage >= 0
      BY <3>1, RemovePower DEF IInv, Types, Powers
    <3> QED
      BY <3>1, <3>2 DEF Counted, InUse
  <2>4. Active'
    BY <1>1, <1>3, RemovePower, IdleFields
       DEF IInv, Types, Callers, Referenced, Clocked, Active, InUse, Remove, bound
  <2>5. BusAwake'
    BY <1>1, <1>3, RemovePower, IdleFields
       DEF IInv, Types, Callers, BusAwake, InUse, Remove, bound
  <2>6. Undisturbed'
    BY <1>1, <1>3, RemovePower, IdleFields
       DEF IInv, Types, Callers, BusAwake, Undisturbed, Excused, InUse, Remove, bound
  <2> QED
    BY <1>1, <1>2, <2>1, <2>2, <2>3, <2>4, <2>5, <2>6 DEF IInv, Referenced
<1>4. CASE net = "lost"
  BY <1>1, <1>2, <1>4 DEF IInv, Remove, bound
<1> QED
  BY <1>3, <1>4

LEMMA PeerProbeIInv ==
  ASSUME IInv, PeerProbe
  PROVE  IInv'
<1>1. Types'
  BY IdleFields DEF IInv, Types, PeerProbe, macVars, bound
<1>2. "wrong" \notin hist'
  BY DEF IInv, Types, PeerProbe, macVars, bound
<1>3. CASE net # "lost"
  <2>1. Callers'
    BY <1>1, <1>3, IdleFields DEF IInv, Types, Callers, Referenced, Active, InUse,
       PeerProbe, macVars, bound
  <2>2. Clocked'
    BY <1>1, <1>3, IdleFields DEF IInv, Types, Powers, Callers, Referenced, Clocked,
       Active, InUse, PeerProbe, macVars, bound
  <2>3. Counted'
    BY <1>1, <1>3, IdleFields DEF IInv, Types, Powers, Callers, Referenced, Counted, InUse,
       PeerProbe, macVars, bound
  <2>4. Active'
    BY <1>1, <1>3, IdleFields DEF IInv, Types, Callers, Referenced, Clocked, Active, InUse,
       PeerProbe, macVars, bound
  <2>5. BusAwake'
    BY <1>1, <1>3, IdleFields DEF IInv, Types, Callers, BusAwake, InUse, PeerProbe,
       macVars, bound
  <2>6. Undisturbed'
    BY <1>1, <1>3, IdleFields DEF IInv, Types, Callers, BusAwake, Undisturbed, Excused,
       InUse, PeerProbe, macVars, bound
  <2> QED
    BY <1>1, <1>2, <2>1, <2>2, <2>3, <2>4, <2>5, <2>6 DEF IInv, Referenced
<1>4. CASE net = "lost"
  BY <1>1, <1>2, <1>4 DEF IInv, PeerProbe, macVars, bound
<1> QED
  BY <1>3, <1>4

LEMMA PeerRemoveIInv ==
  ASSUME IInv, PeerRemove
  PROVE  IInv'
<1>1. Types'
  BY IdleFields DEF IInv, Types, PeerRemove, macVars, bound
<1>2. "wrong" \notin hist'
  BY DEF IInv, Types, PeerRemove, macVars, bound
<1>3. CASE net # "lost"
  <2>1. Callers'
    BY <1>1, <1>3, IdleFields DEF IInv, Types, Callers, Referenced, Active, InUse,
       PeerRemove, macVars, bound
  <2>2. Clocked'
    BY <1>1, <1>3, IdleFields DEF IInv, Types, Powers, Callers, Referenced, Clocked,
       Active, InUse, PeerRemove, macVars, bound
  <2>3. Counted'
    BY <1>1, <1>3, IdleFields DEF IInv, Types, Powers, Callers, Referenced, Counted, InUse,
       PeerRemove, macVars, bound
  <2>4. Active'
    BY <1>1, <1>3, IdleFields DEF IInv, Types, Callers, Referenced, Clocked, Active, InUse,
       PeerRemove, macVars, bound
  <2>5. BusAwake'
    BY <1>1, <1>3, IdleFields DEF IInv, Types, Callers, BusAwake, InUse, PeerRemove,
       macVars, bound
  <2>6. Undisturbed'
    BY <1>1, <1>3, IdleFields DEF IInv, Types, Callers, BusAwake, Undisturbed, Excused,
       InUse, PeerRemove, macVars, bound
  <2> QED
    BY <1>1, <1>2, <2>1, <2>2, <2>3, <2>4, <2>5, <2>6 DEF IInv, Referenced
<1>4. CASE net = "lost"
  BY <1>1, <1>2, <1>4 DEF IInv, PeerRemove, macVars, bound
<1> QED
  BY <1>3, <1>4

LEMMA OpenFailsIInv ==
  ASSUME IInv, NEW step \in Failures, OpenFails(step)
  PROVE  IInv'
<1>1. Types'
  BY OpenFailsPower, IdleFields DEF IInv, Types, OpenFails, GetFails, CanOpen, macVars, bound
<1>2. "wrong" \notin hist'
  BY DEF IInv, Types, OpenFails, GetFails, CanOpen, macVars, bound
<1>3. CASE net # "lost"
  <2>1. Callers'
    BY <1>1, <1>3, OpenFailsPower, IdleFields
       DEF IInv, Types, Callers, Referenced, Active, InUse, OpenFails, GetFails, CanOpen, macVars,
       bound
  <2>2. Clocked'
    BY <1>3, OpenFailsPower DEF IInv, Types, Powers, Referenced, Clocked
  <2>3. Counted'
    BY <1>1, <1>3, OpenFailsPower, IdleFields
       DEF IInv, Types, Powers, Callers, Referenced, Counted, InUse, OpenFails, GetFails, CanOpen,
       macVars, bound
  <2>4. Active'
    BY <1>1, <1>3, OpenFailsPower, IdleFields
       DEF IInv, Types, Callers, Referenced, Clocked, Active, InUse, OpenFails, GetFails, CanOpen,
       macVars, bound
  <2>5. BusAwake'
    <3>1. /\ asleep' = asleep /\ hist' = hist /\ net' = net /\ peer' = peer /\ imask' = imask
          /\ pins' = pins \/ pins' = share
      BY DEF OpenFails, macVars
    <3>2. peer # "none" => share
      BY <1>3 DEF IInv, Callers
    <3>3. ~InUse
      BY DEF OpenFails, CanOpen, InUse
    <3> QED
      BY <1>1, <1>3, <3>1, <3>2, <3>3 DEF IInv, BusAwake, InUse, Types
  <2>6. Undisturbed'
    BY <1>1, <1>3, OpenFailsPower, IdleFields
       DEF IInv, Types, Callers, BusAwake, Undisturbed, Excused, InUse, OpenFails, GetFails, CanOpen,
       macVars, bound
  <2> QED
    BY <1>1, <1>2, <2>1, <2>2, <2>3, <2>4, <2>5, <2>6 DEF IInv, Referenced
<1>4. CASE net = "lost"
  BY <1>1, <1>2, <1>4 DEF IInv, OpenFails, GetFails, CanOpen, macVars, bound
<1> QED
  BY <1>3, <1>4

LEMMA RemoveFailsIInv ==
  ASSUME IInv, RemoveFails
  PROVE  IInv'
<1>1. Types'
  BY GetFailsPower, IdleFields DEF IInv, Types, RemoveFails, GetFails, macVars, bound
<1>2. "wrong" \notin hist'
  BY DEF IInv, Types, RemoveFails, GetFails, macVars, bound
<1>3. CASE net # "lost"
  <2>1. Callers'
    BY <1>1, <1>3, GetFailsPower, IdleFields
       DEF IInv, Types, Callers, Referenced, Active, InUse, RemoveFails, GetFails, macVars,
       bound
  <2>2. Clocked'
    BY <1>3, GetFailsPower DEF IInv, Types, Powers, Referenced, Clocked, RemoveFails
  <2>3. Counted'
    BY <1>1, <1>3, GetFailsPower, IdleFields
       DEF IInv, Types, Powers, Callers, Referenced, Counted, InUse, RemoveFails, GetFails,
       macVars, bound
  <2>4. Active'
    BY <1>1, <1>3, GetFailsPower, IdleFields
       DEF IInv, Types, Callers, Referenced, Clocked, Active, InUse, RemoveFails, GetFails,
       macVars, bound
  <2>5. BusAwake'
    BY <1>1, <1>3, GetFailsPower, IdleFields
       DEF IInv, Types, Callers, BusAwake, InUse, RemoveFails, GetFails, macVars, bound
  <2>6. Undisturbed'
    BY <1>1, <1>3, GetFailsPower, IdleFields
       DEF IInv, Types, Callers, BusAwake, Undisturbed, Excused, InUse, RemoveFails, GetFails,
       macVars, bound
  <2> QED
    BY <1>1, <1>2, <2>1, <2>2, <2>3, <2>4, <2>5, <2>6 DEF IInv, Referenced
<1>4. CASE net = "lost"
  BY <1>1, <1>2, <1>4 DEF IInv, RemoveFails, GetFails, macVars, bound
<1> QED
  BY <1>3, <1>4

LEMMA OpenIInv ==
  ASSUME IInv, Open
  PROVE  IInv'
<1>1. Types'
  BY OpenPower, ExcuseFields DEF IInv, Types, Open, CanOpen, ResetMac, Touch, bound
<1>2. "wrong" \notin hist'
  BY DEF IInv, Types, Open, CanOpen, ResetMac, Touch, bound
<1>3. CASE net # "lost"
  <2>1. Callers'
    BY <1>1, <1>3, OpenPower, ExcuseFields
       DEF IInv, Types, Callers, Referenced, Active, InUse, Open, CanOpen, ResetMac, Touch,
       bound
  <2>2. Clocked'
    BY <1>3, OpenPower DEF IInv, Types, Powers, Referenced, Clocked
  <2>3. Counted'
    <3>1. power.usage \in Int /\ power.usage >= (IF InUse THEN 1 ELSE 0) + (IF op # Idle THEN 1 ELSE 0)
      BY <1>3 DEF IInv, Types, Powers, Referenced, Counted
    <3> QED
      BY <3>1, OpenPower, ExcuseFields DEF IInv, Types, Counted, InUse, Open, CanOpen
  <2>4. Active'
    <3>1. power'.active /\ power'.ipg = 1 /\ power'.ahb = 1
      BY <2>2, OpenPower DEF IInv, Types, Clocked
    <3>2. net' = "opening" /\ "hung" \notin hist'
      BY <1>3, <3>1 DEF IInv, Referenced, Active, Open, Touch
    <3> QED
      BY <3>1, <3>2 DEF Active
  <2>5. BusAwake'
    BY <1>1, <1>3, OpenPower, ExcuseFields
       DEF IInv, Types, Callers, BusAwake, InUse, Open, CanOpen, ResetMac, Touch, bound
  <2>6. Undisturbed'
    BY <1>1, <1>3, OpenPower, ExcuseFields
       DEF IInv, Types, Callers, BusAwake, Undisturbed, Excused, InUse, Open, CanOpen,
       ResetMac, Touch, bound
  <2> QED
    BY <1>1, <1>2, <2>1, <2>2, <2>3, <2>4, <2>5, <2>6 DEF IInv, Referenced
<1>4. CASE net = "lost"
  BY <1>1, <1>2, <1>4 DEF IInv, Open, CanOpen, ResetMac, Touch, bound
<1> QED
  BY <1>3, <1>4

LEMMA OpenedIInv ==
  ASSUME IInv, Opened
  PROVE  IInv'
<1>1. Types'
  BY IdleFields DEF IInv, Types, Opened, macVars, bound
<1>2. "wrong" \notin hist'
  BY DEF IInv, Types, Opened, macVars, bound
<1>3. CASE net # "lost"
  <2>1. Callers'
    BY <1>1, <1>3, IdleFields DEF IInv, Types, Callers, Referenced, Active, InUse, Opened,
       macVars, bound
  <2>2. Clocked'
    BY <1>1, <1>3, IdleFields DEF IInv, Types, Powers, Callers, Referenced, Clocked,
       Active, InUse, Opened, macVars, bound
  <2>3. Counted'
    BY <1>1, <1>3, IdleFields DEF IInv, Types, Powers, Callers, Referenced, Counted, InUse,
       Opened, macVars, bound
  <2>4. Active'
    BY <1>1, <1>3, IdleFields DEF IInv, Types, Callers, Referenced, Clocked, Active, InUse,
       Opened, macVars, bound
  <2>5. BusAwake'
    BY <1>1, <1>3, IdleFields DEF IInv, Types, Callers, BusAwake, InUse, Opened, macVars, bound
  <2>6. Undisturbed'
    BY <1>1, <1>3, IdleFields DEF IInv, Types, Callers, BusAwake, Undisturbed, Excused,
       InUse, Opened, macVars, bound
  <2> QED
    BY <1>1, <1>2, <2>1, <2>2, <2>3, <2>4, <2>5, <2>6 DEF IInv, Referenced
<1>4. CASE net = "lost"
  BY <1>1, <1>2, <1>4 DEF IInv, Opened, macVars, bound
<1> QED
  BY <1>3, <1>4

LEMMA PhyMissingIInv ==
  ASSUME IInv, PhyMissing
  PROVE  IInv'
<1>1. Types'
  BY ReleaseFields, IdleFields DEF IInv, Types, PhyMissing, macVars, bound
<1>2. "wrong" \notin hist'
  BY DEF IInv, Types, PhyMissing, macVars, bound
<1>3. CASE net # "lost"
  <2>1. Callers'
    BY <1>1, <1>3, ReleaseFields, IdleFields
       DEF IInv, Types, Callers, Referenced, Active, InUse, PhyMissing, macVars, bound
  <2>2. Clocked'
    BY <1>1, <1>3, ReleaseFields, IdleFields
       DEF IInv, Types, Powers, Callers, Referenced, Clocked, Active, InUse, PhyMissing,
       macVars, bound
  <2>3. Counted'
    BY <1>1, <1>3, ReleaseFields, IdleFields
       DEF IInv, Types, Powers, Callers, Referenced, Counted, InUse, PhyMissing, macVars,
       bound
  <2>4. Active'
    BY <1>1, <1>3, ReleaseFields, IdleFields
       DEF IInv, Types, Callers, Referenced, Clocked, Active, InUse, PhyMissing, macVars,
       bound
  <2>5. BusAwake'
    BY <1>1, <1>3, ReleaseFields, IdleFields
       DEF IInv, Types, Callers, BusAwake, InUse, PhyMissing, macVars, bound
  <2>6. Undisturbed'
    BY <1>1, <1>3, ReleaseFields, IdleFields
       DEF IInv, Types, Callers, BusAwake, Undisturbed, Excused, InUse, PhyMissing,
       macVars, bound
  <2> QED
    BY <1>1, <1>2, <2>1, <2>2, <2>3, <2>4, <2>5, <2>6 DEF IInv, Referenced
<1>4. CASE net = "lost"
  BY <1>1, <1>2, <1>4 DEF IInv, PhyMissing, macVars, bound
<1> QED
  BY <1>3, <1>4

LEMMA CloseIInv ==
  ASSUME IInv, Close
  PROVE  IInv'
<1>1. Types'
  BY ReleaseFields, ExcuseFields DEF IInv, Types, Close, ResetMac, Touch, bound
<1>2. "wrong" \notin hist'
  BY DEF IInv, Types, Close, ResetMac, Touch, bound
<1>3. CASE net # "lost"
  <2>1. Callers'
    BY <1>1, <1>3, ReleaseFields, ExcuseFields
       DEF IInv, Types, Callers, Referenced, Active, InUse, Close, ResetMac, Touch, bound
  <2>2. Clocked'
    BY <1>1, <1>3, ReleaseFields, ExcuseFields
       DEF IInv, Types, Powers, Callers, Referenced, Clocked, Active, InUse, Close,
       ResetMac, Touch, bound
  <2>3. Counted'
    BY <1>1, <1>3, ReleaseFields, ExcuseFields
       DEF IInv, Types, Powers, Callers, Referenced, Counted, InUse, Close, ResetMac,
       Touch, bound
  <2>4. Active'
    BY <1>1, <1>3, ReleaseFields, ExcuseFields
       DEF IInv, Types, Callers, Referenced, Clocked, Active, InUse, Close, ResetMac,
       Touch, bound
  <2>5. BusAwake'
    BY <1>1, <1>3, ReleaseFields, ExcuseFields
       DEF IInv, Types, Callers, BusAwake, InUse, Close, ResetMac, Touch, bound
  <2>6. Undisturbed'
    BY <1>1, <1>3, ReleaseFields, ExcuseFields
       DEF IInv, Types, Callers, BusAwake, Undisturbed, Excused, InUse, Close, ResetMac,
       Touch, bound
  <2> QED
    BY <1>1, <1>2, <2>1, <2>2, <2>3, <2>4, <2>5, <2>6 DEF IInv, Referenced
<1>4. CASE net = "lost"
  BY <1>1, <1>2, <1>4 DEF IInv, Close, ResetMac, Touch, bound
<1> QED
  BY <1>3, <1>4

LEMMA RestartIInv ==
  ASSUME IInv, Restart
  PROVE  IInv'
<1>1. Types'
  <2>1. done' \in Nat /\ restarts' \in Nat /\ timeouts' \in Nat /\ leaks' \in Nat
    BY DEF IInv, Types, Restart, ResetMac, Touch
  <2> QED
    BY <2>1, ExcuseFields DEF IInv, Types, Restart, ResetMac, Touch
<1>2. "wrong" \notin hist'
  BY DEF IInv, Types, Restart, ResetMac, Touch
<1>3. CASE net # "lost"
  <2>1. Callers'
    BY <1>1, <1>3, ExcuseFields DEF IInv, Types, Callers, Referenced, Active, InUse,
       Restart, ResetMac, Touch
  <2>2. Clocked'
    BY <1>1, <1>3, ExcuseFields DEF IInv, Types, Powers, Callers, Referenced, Clocked,
       Active, InUse, Restart, ResetMac, Touch
  <2>3. Counted'
    BY <1>1, <1>3, ExcuseFields DEF IInv, Types, Powers, Callers, Referenced, Counted,
       InUse, Restart, ResetMac, Touch
  <2>4. Active'
    BY <1>1, <1>3, ExcuseFields DEF IInv, Types, Callers, Referenced, Clocked, Active,
       InUse, Restart, ResetMac, Touch
  <2>5. BusAwake'
    BY <1>1, <1>3, ExcuseFields DEF IInv, Types, Callers, BusAwake, InUse, Restart,
       ResetMac, Touch
  <2>6. Undisturbed'
    BY <1>1, <1>3, ExcuseFields DEF IInv, Types, Callers, BusAwake, Undisturbed, Excused,
       InUse, Restart, ResetMac, Touch
  <2> QED
    BY <1>1, <1>2, <2>1, <2>2, <2>3, <2>4, <2>5, <2>6 DEF IInv, Referenced
<1>4. CASE net = "lost"
  BY <1>1, <1>2, <1>4 DEF IInv, Restart, ResetMac, Touch
<1> QED
  BY <1>3, <1>4

LEMMA PeerSleepsIInv ==
  ASSUME IInv, PeerSleeps
  PROVE  IInv'
<1>1. Types'
  BY IdleFields DEF IInv, Types, PeerSleeps, macVars, bound
<1>2. "wrong" \notin hist'
  BY DEF IInv, Types, PeerSleeps, macVars, bound
<1>3. CASE net # "lost"
  <2>1. Callers'
    BY <1>1, <1>3, IdleFields DEF IInv, Types, Callers, Referenced, Active, InUse,
       PeerSleeps, macVars, bound
  <2>2. Clocked'
    BY <1>1, <1>3, IdleFields DEF IInv, Types, Powers, Callers, Referenced, Clocked,
       Active, InUse, PeerSleeps, macVars, bound
  <2>3. Counted'
    BY <1>1, <1>3, IdleFields DEF IInv, Types, Powers, Callers, Referenced, Counted, InUse,
       PeerSleeps, macVars, bound
  <2>4. Active'
    BY <1>1, <1>3, IdleFields DEF IInv, Types, Callers, Referenced, Clocked, Active, InUse,
       PeerSleeps, macVars, bound
  <2>5. BusAwake'
    BY <1>1, <1>3, IdleFields DEF IInv, Types, Callers, BusAwake, InUse, PeerSleeps,
       macVars, bound
  <2>6. Undisturbed'
    BY <1>1, <1>3, IdleFields DEF IInv, Types, Callers, BusAwake, Undisturbed, Excused,
       InUse, PeerSleeps, macVars, bound
  <2> QED
    BY <1>1, <1>2, <2>1, <2>2, <2>3, <2>4, <2>5, <2>6 DEF IInv, Referenced
<1>4. CASE net = "lost"
  BY <1>1, <1>2, <1>4 DEF IInv, PeerSleeps, macVars, bound
<1> QED
  BY <1>3, <1>4

LEMMA SuspendIInv ==
  ASSUME IInv, Suspend
  PROVE  IInv'
<1>1. Types'
  BY SuspendPower, IdleFields DEF IInv, Types, Suspend, Touch, bound
<1>2. "wrong" \notin hist'
  BY DEF IInv, Types, Suspend, Touch, bound
<1>3. CASE net # "lost"
  <2>1. Callers'
    BY <1>1, <1>3, SuspendPower, IdleFields
       DEF IInv, Types, Callers, Referenced, Active, InUse, Suspend, Touch, bound
  <2>2. Clocked'
    <3>1. net = "up" => power.active
      BY <1>3 DEF IInv, Referenced, Active, InUse, Suspend
    <3> QED
      BY <1>3, <3>1, SuspendPower DEF IInv, Types, Powers, Referenced, Clocked
  <2>3. Counted'
    BY <1>1, <1>3, SuspendPower, IdleFields
       DEF IInv, Types, Powers, Callers, Referenced, Counted, InUse, Suspend, Touch, bound
  <2>4. Active'
    <3>1. net = "up" => power.ipg = 1 /\ power.ahb = 1
      BY <1>3 DEF IInv, Referenced, Clocked, Active, InUse, Suspend
    <3>2. "hung" \notin hist'
      BY <1>3, <3>1 DEF IInv, Referenced, Active, Suspend, Touch
    <3> QED
      BY <3>2, SuspendPower DEF IInv, Types, Active, Suspend
  <2>5. BusAwake'
    BY <1>1, <1>3, SuspendPower, IdleFields
       DEF IInv, Types, Callers, BusAwake, InUse, Suspend, Touch, bound
  <2>6. Undisturbed'
    BY <1>1, <1>3, SuspendPower, IdleFields
       DEF IInv, Types, Callers, BusAwake, Undisturbed, Excused, InUse, Suspend, Touch,
       bound
  <2> QED
    BY <1>1, <1>2, <2>1, <2>2, <2>3, <2>4, <2>5, <2>6 DEF IInv, Referenced
<1>4. CASE net = "lost"
  BY <1>1, <1>2, <1>4 DEF IInv, Suspend, Touch, bound
<1> QED
  BY <1>3, <1>4

LEMMA ResumeIInv ==
  ASSUME IInv, Resume
  PROVE  IInv'
<1>1. Types'
  <2>1. CASE RestoresBus
    BY <2>1, ResumePower DEF IInv, Types, Resume, ResetMac, Touch, bound
  <2>2. CASE ~RestoresBus
    <3>1. UNCHANGED <<macVars, pins, hist, net, peer, share, done, op, bound>> /\ asleep' = FALSE
      BY <2>2 DEF Resume
    <3>2. power' \in Powers
      BY ResumePower DEF IInv, Types
    <3> QED
      BY <3>1, <3>2 DEF IInv, Types, macVars, bound
  <2> QED
    BY <2>1, <2>2
<1>2. "wrong" \notin hist'
  BY DEF IInv, Types, Resume, RestoresBus, ResetMac, Touch, macVars, bound
<1>3. CASE net # "lost"
  <2>1. Callers'
    BY <1>1, <1>3, ResumePower, IdleFields
       DEF IInv, Types, Callers, Referenced, Active, InUse, Resume, RestoresBus, ResetMac,
       Touch, macVars, bound
  <2>2. Clocked'
    <3>1. net = "up" => ~power.active
      BY <1>3 DEF IInv, Referenced, Active, Resume
    <3>2. power.ipg = (IF power.active THEN 1 ELSE 0) /\ power.ahb = (IF power.active THEN 1 ELSE 0)
      BY <1>3 DEF IInv, Referenced, Clocked
    <3>3. CASE net = "up"
      BY <3>1, <3>2, <3>3, ResumePower DEF IInv, Types, Clocked
    <3>4. CASE net # "up" /\ share
      BY <3>2, <3>4, ResumePower DEF IInv, Types, Clocked
    <3>5. CASE net # "up" /\ ~share
      BY <3>2, <3>5, ResumePower DEF IInv, Types, Clocked
    <3> QED
      BY <3>3, <3>4, <3>5
  <2>3. Counted'
    BY <1>1, <1>3, ResumePower, IdleFields
       DEF IInv, Types, Powers, Callers, Referenced, Counted, InUse, Resume, RestoresBus,
       ResetMac, Touch, macVars, bound
  <2>4. Active'
    <3>1. RestoresBus => power'.active /\ power'.ipg = 1 /\ power'.ahb = 1
      BY <2>2, ResumePower DEF IInv, Types, Clocked, RestoresBus
    <3>2. "hung" \notin hist'
      BY <1>3, <3>1 DEF IInv, Referenced, Active, Resume, Touch
    <3>3. op = Idle /\ net \in {"down", "up"}
      BY <1>3 DEF IInv, Callers, Resume
    <3>4. RestoresBus => (~event' /\ ~irq' /\ wire' = "none") \/ power'.active
      BY <3>1
    <3> QED
      BY <1>3, <3>1, <3>2, <3>3, <3>4, ResumePower
         DEF IInv, Types, Referenced, Active, InUse, Resume, RestoresBus, macVars
  <2>5. BusAwake'
    BY <1>1, <1>3, ResumePower, IdleFields
       DEF IInv, Types, Callers, BusAwake, InUse, Resume, RestoresBus, ResetMac, Touch,
       macVars, bound
  <2>6. Undisturbed'
    BY <1>1, <1>3, ResumePower, IdleFields
       DEF IInv, Types, Callers, BusAwake, Undisturbed, Excused, InUse, Resume,
       RestoresBus, ResetMac, Touch, macVars, bound
  <2> QED
    BY <1>1, <1>2, <2>1, <2>2, <2>3, <2>4, <2>5, <2>6 DEF IInv, Referenced
<1>4. CASE net = "lost"
  BY <1>1, <1>2, <1>4 DEF IInv, Resume, RestoresBus, ResetMac, Touch, macVars, bound
<1> QED
  BY <1>3, <1>4

LEMMA RestoreFailsIInv ==
  ASSUME IInv, RestoreFails
  PROVE  IInv'
<1>1. Types'
  <2>1. power' \in Powers /\ leaks' \in Nat /\ hist' \subseteq {"hung", "wrong", "dormant_bus"}
    <3>1. power' \in Powers
      BY RestoreFailsPower DEF IInv, Types
    <3> QED
      BY <3>1 DEF IInv, Types, RestoreFails
  <2> QED
    BY <2>1 DEF IInv, Types, RestoreFails, macVars
<1>2. "wrong" \notin hist'
  BY DEF IInv, Types, RestoreFails, macVars, bound
<1>3. CASE net # "lost"
  <2>1. Callers'
    BY <1>1, <1>3, RestoreFailsPower, IdleFields
       DEF IInv, Types, Callers, Referenced, Active, InUse, RestoreFails, macVars,
       bound
  <2>2. Clocked'
    <3>1. power.ipg = 0 /\ power.ahb = 0
      BY <1>3, RestoreFailsPower DEF IInv, Types, Referenced, Clocked
    <3> QED
      BY <3>1, RestoreFailsPower DEF IInv, Types, Clocked
  <2>3. Counted'
    <3>1. op' = Idle /\ net' = "down" /\ op = Idle /\ net = "down"
      BY <1>3 DEF IInv, Callers, RestoreFails
    <3>2. power.usage >= 0 /\ power.usage \in Int
      BY <1>3, <3>1 DEF IInv, Types, Powers, Referenced, Counted, InUse
    <3> QED
      BY <3>1, <3>2, RestoreFailsPower DEF IInv, Types, Counted, InUse
  <2>4. Active'
    BY <1>1, <1>3, RestoreFailsPower, IdleFields
       DEF IInv, Types, Callers, Referenced, Clocked, Active, InUse, RestoreFails,
       macVars, bound
  <2>5. BusAwake'
    BY <1>1, <1>3, RestoreFailsPower, IdleFields
       DEF IInv, Types, Callers, BusAwake, InUse, RestoreFails, macVars, bound
  <2>6. Undisturbed'
    BY <1>1, <1>3, RestoreFailsPower, IdleFields
       DEF IInv, Types, Callers, BusAwake, Undisturbed, Excused, InUse, RestoreFails,
       macVars, bound
  <2> QED
    BY <1>1, <1>2, <2>1, <2>2, <2>3, <2>4, <2>5, <2>6 DEF IInv, Referenced
<1>4. CASE net = "lost"
  BY <1>1, <1>2, <1>4 DEF IInv, RestoreFails, macVars, bound
<1> QED
  BY <1>3, <1>4

LEMMA ResumeFailsIInv ==
  ASSUME IInv, NEW step \in Failures, ResumeFails(step)
  PROVE  IInv'
<1>1. Types'
  BY ResumeFailsPower, IdleFields DEF IInv, Types, ResumeFails, Touch, macVars, bound
<1>2. "wrong" \notin hist'
  BY DEF IInv, Types, ResumeFails, Touch, macVars, bound
<1> QED
  BY <1>1, <1>2 DEF IInv, ResumeFails

LEMMA PeerWakesIInv ==
  ASSUME IInv, PeerWakes
  PROVE  IInv'
<1>1. Types'
  BY IdleFields DEF IInv, Types, PeerWakes, macVars, bound
<1>2. "wrong" \notin hist'
  BY DEF IInv, Types, PeerWakes, macVars, bound
<1>3. CASE net # "lost"
  <2>1. Callers'
    BY <1>1, <1>3, IdleFields DEF IInv, Types, Callers, Referenced, Active, InUse,
       PeerWakes, macVars, bound
  <2>2. Clocked'
    BY <1>1, <1>3, IdleFields DEF IInv, Types, Powers, Callers, Referenced, Clocked,
       Active, InUse, PeerWakes, macVars, bound
  <2>3. Counted'
    BY <1>1, <1>3, IdleFields DEF IInv, Types, Powers, Callers, Referenced, Counted, InUse,
       PeerWakes, macVars, bound
  <2>4. Active'
    BY <1>1, <1>3, IdleFields DEF IInv, Types, Callers, Referenced, Clocked, Active, InUse,
       PeerWakes, macVars, bound
  <2>5. BusAwake'
    BY <1>1, <1>3, IdleFields DEF IInv, Types, Callers, BusAwake, InUse, PeerWakes,
       macVars, bound
  <2>6. Undisturbed'
    BY <1>1, <1>3, IdleFields DEF IInv, Types, Callers, BusAwake, Undisturbed, Excused,
       InUse, PeerWakes, macVars, bound
  <2> QED
    BY <1>1, <1>2, <2>1, <2>2, <2>3, <2>4, <2>5, <2>6 DEF IInv, Referenced
<1>4. CASE net = "lost"
  BY <1>1, <1>2, <1>4 DEF IInv, PeerWakes, macVars, bound
<1> QED
  BY <1>3, <1>4

LEMMA AutosuspendIInv ==
  ASSUME IInv, Autosuspend
  PROVE  IInv'
<1>1. Types'
  BY AutosuspendPower, IdleFields DEF IInv, Types, Autosuspend, macVars, bound
<1>2. "wrong" \notin hist'
  BY DEF IInv, Types, Autosuspend, macVars, bound
<1>3. CASE net # "lost"
  <2>1. Callers'
    BY <1>1, <1>3, AutosuspendPower, IdleFields
       DEF IInv, Types, Callers, Referenced, Active, InUse, Autosuspend, macVars, bound
  <2>2. Clocked'
    <3>1. power.active
      BY DEF Autosuspend
    <3> QED
      BY <1>3, <3>1, AutosuspendPower DEF IInv, Types, Powers, Referenced, Clocked
  <2>3. Counted'
    BY <1>1, <1>3, AutosuspendPower, IdleFields
       DEF IInv, Types, Powers, Callers, Referenced, Counted, InUse, Autosuspend, macVars,
       bound
  <2>4. Active'
    BY <1>3, AutosuspendPower, IdleFields
       DEF IInv, Types, Powers, Callers, Referenced, Counted, Active, InUse, Autosuspend, macVars
  <2>5. BusAwake'
    BY <1>1, <1>3, AutosuspendPower, IdleFields
       DEF IInv, Types, Callers, BusAwake, InUse, Autosuspend, macVars, bound
  <2>6. Undisturbed'
    BY <1>1, <1>3, AutosuspendPower, IdleFields
       DEF IInv, Types, Callers, BusAwake, Undisturbed, Excused, InUse, Autosuspend,
       macVars, bound
  <2> QED
    BY <1>1, <1>2, <2>1, <2>2, <2>3, <2>4, <2>5, <2>6 DEF IInv, Referenced
<1>4. CASE net = "lost"
  BY <1>1, <1>2, <1>4 DEF IInv, Autosuspend, macVars, bound
<1> QED
  BY <1>3, <1>4

LEMMA BeginOp ==
  ASSUME NEW by \in {"own", "peer"}, NEW write \in BOOLEAN, NEW c45 \in BOOLEAN,
         Types, Begin(by, write, c45)
  PROVE  /\ op' \in Ops /\ op' # Idle /\ op'.by = by
         /\ op'.phase = (IF c45 THEN "addr" ELSE "data")
         /\ op'.excused <=> event \/ irq \/ wire # "none"
<1>1. op' = [by |-> by, phase |-> IF c45 THEN "addr" ELSE "data", write |-> write,
              excused |-> event \/ irq \/ wire # "none"]
  BY DEF Begin
<1>2. (event \/ irq \/ wire # "none") \in BOOLEAN /\ (IF c45 THEN "addr" ELSE "data") \in {"addr", "data"}
  OBVIOUS
<1>3. op' \in Ops
  BY <1>1, <1>2 DEF Ops
<1>4. op' # Idle
  BY <1>1, IdleFields
<1> QED
  BY <1>1, <1>3, <1>4

LEMMA AddressSentOp ==
  ASSUME op \in Ops, AddressSent
  PROVE  /\ op' \in Ops /\ op' # Idle /\ op # Idle /\ op'.by = op.by
         /\ op'.phase = "data" /\ op'.excused = op.excused
  BY IdleFields DEF AddressSent, Ops

LEMMA BeginIInv ==
  ASSUME IInv, NEW by \in {"own", "peer"}, NEW write \in BOOLEAN, NEW c45 \in BOOLEAN, Begin(by, write, c45)
  PROVE  IInv'
<1>1. Types'
  <2>1. power' \in Powers
    BY GetFields DEF IInv, Types, Begin
  <2>2. wire' \in {"none", "old", "addr", "data"} /\ mmfr' = FALSE
    BY DEF IInv, Types, Begin, Send
  <2>3. op' \in Ops
    BY BeginOp DEF IInv
  <2>4. hist' \subseteq {"hung", "wrong", "dormant_bus"}
    BY DEF IInv, Types, Begin, Touch
  <2> QED
    BY <2>1, <2>2, <2>3, <2>4 DEF IInv, Types, Begin, Reinit, bound
<1>2. "wrong" \notin hist'
  BY DEF IInv, Types, Begin, MayCall, Reinit, Send, Touch, bound
<1>3. CASE net # "lost"
  <2>1. Callers'
    BY <1>1, <1>3, BeginOp, GetFields DEF IInv, Types, Callers, Referenced, Active, InUse,
       Begin, MayCall, Reinit, Send, Touch, bound
  <2>2. Clocked'
    BY <1>1, <1>3, BeginOp, GetFields DEF IInv, Types, Powers, Callers, Referenced,
       Clocked, Active, InUse, Begin, MayCall, Reinit, Send, Touch, bound
  <2>3. Counted'
    BY <1>1, <1>3, BeginOp, GetFields DEF IInv, Types, Powers, Callers, Referenced,
       Counted, InUse, Begin, MayCall, Reinit, Send, Touch, bound
  <2>4. Active'
    BY <1>1, <1>3, BeginOp, GetFields DEF IInv, Types, Callers, Referenced, Clocked,
       Active, InUse, Begin, MayCall, Reinit, Send, Touch, bound
  <2>5. BusAwake'
    BY <1>1, <1>3, BeginOp, GetFields DEF IInv, Types, Callers, BusAwake, InUse, Begin,
       MayCall, Reinit, Send, Touch, bound
  <2>6. Undisturbed'
    BY <1>1, <1>3, BeginOp, GetFields DEF IInv, Types, Callers, BusAwake, Undisturbed,
       Excused, InUse, Begin, MayCall, Reinit, Send, Touch, bound
  <2> QED
    BY <1>1, <1>2, <2>1, <2>2, <2>3, <2>4, <2>5, <2>6 DEF IInv, Referenced
<1>4. CASE net = "lost"
  BY <1>1, <1>2, <1>4 DEF IInv, Begin, MayCall, Reinit, Send, Touch, bound
<1> QED
  BY <1>3, <1>4

LEMMA CallFailsIInv ==
  ASSUME IInv, NEW by, CallFails(by)
  PROVE  IInv'
<1>1. Types'
  BY GetFailsPower, IdleFields DEF IInv, Types, CallFails, GetFails, MayCall, macVars, bound
<1>2. "wrong" \notin hist'
  BY DEF IInv, Types, CallFails, GetFails, MayCall, macVars, bound
<1>3. CASE net # "lost"
  <2>1. Callers'
    BY <1>1, <1>3, GetFailsPower, IdleFields
       DEF IInv, Types, Callers, Referenced, Active, InUse, CallFails, GetFails, MayCall, macVars,
       bound
  <2>2. Clocked'
    BY <1>3, GetFailsPower DEF IInv, Types, Powers, Referenced, Clocked, CallFails
  <2>3. Counted'
    BY <1>1, <1>3, GetFailsPower, IdleFields
       DEF IInv, Types, Powers, Callers, Referenced, Counted, InUse, CallFails, GetFails, MayCall,
       macVars, bound
  <2>4. Active'
    BY <1>1, <1>3, GetFailsPower, IdleFields
       DEF IInv, Types, Callers, Referenced, Clocked, Active, InUse, CallFails, GetFails, MayCall,
       macVars, bound
  <2>5. BusAwake'
    BY <1>1, <1>3, GetFailsPower, IdleFields
       DEF IInv, Types, Callers, BusAwake, InUse, CallFails, GetFails, MayCall, macVars, bound
  <2>6. Undisturbed'
    BY <1>1, <1>3, GetFailsPower, IdleFields
       DEF IInv, Types, Callers, BusAwake, Undisturbed, Excused, InUse, CallFails, GetFails, MayCall,
       macVars, bound
  <2> QED
    BY <1>1, <1>2, <2>1, <2>2, <2>3, <2>4, <2>5, <2>6 DEF IInv, Referenced
<1>4. CASE net = "lost"
  BY <1>1, <1>2, <1>4 DEF IInv, CallFails, GetFails, MayCall, macVars, bound
<1> QED
  BY <1>3, <1>4

LEMMA AddressSentIInv ==
  ASSUME IInv, AddressSent
  PROVE  IInv'
<1>1. Types'
  <2>1. done' \in Nat
    BY DEF IInv, Types, AddressSent
  <2>2. wire' \in {"none", "old", "addr", "data"} /\ mmfr' = FALSE
    BY DEF IInv, Types, AddressSent, Send
  <2> QED
    BY <2>1, <2>2, AddressSentOp DEF IInv, Types, AddressSent, bound
<1>2. "wrong" \notin hist'
  BY DEF IInv, Types, AddressSent, Send, bound
<1>3. CASE net # "lost"
  <2>1. Callers'
    BY <1>1, <1>3, AddressSentOp, IdleFields
       DEF IInv, Types, Callers, Referenced, Active, InUse, AddressSent, Send, bound
  <2>2. Clocked'
    BY <1>1, <1>3, AddressSentOp, IdleFields
       DEF IInv, Types, Powers, Callers, Referenced, Clocked, Active, InUse, AddressSent,
       Send, bound
  <2>3. Counted'
    BY <1>1, <1>3, AddressSentOp, IdleFields
       DEF IInv, Types, Powers, Callers, Referenced, Counted, InUse, AddressSent, Send,
       bound
  <2>4. Active'
    BY <1>1, <1>3, AddressSentOp, IdleFields
       DEF IInv, Types, Callers, Referenced, Clocked, Active, InUse, AddressSent, Send,
       bound
  <2>5. BusAwake'
    BY <1>1, <1>3, AddressSentOp, IdleFields
       DEF IInv, Types, Callers, BusAwake, InUse, AddressSent, Send, bound
  <2>6. Undisturbed'
    BY <1>1, <1>3, AddressSentOp, IdleFields
       DEF IInv, Types, Callers, BusAwake, Undisturbed, Excused, InUse, AddressSent, Send,
       bound
  <2> QED
    BY <1>1, <1>2, <2>1, <2>2, <2>3, <2>4, <2>5, <2>6 DEF IInv, Referenced
<1>4. CASE net = "lost"
  BY <1>1, <1>2, <1>4 DEF IInv, AddressSent, Send, bound
<1> QED
  BY <1>3, <1>4

LEMMA AnsweredIInv ==
  ASSUME IInv, Answered
  PROVE  IInv'
<1>1. Types'
  <2>1. done' \in Nat /\ restarts' \in Nat /\ timeouts' \in Nat /\ leaks' \in Nat
    BY DEF IInv, Types, Answered, Finish, Touch, macVars
  <2> QED
    BY <2>1, PutFields, IdleFields DEF IInv, Types, Answered, Finish, Touch, macVars
<1>2. "wrong" \notin hist'
  BY IdleFields DEF IInv, Types, Undisturbed, Excused, Touch, Finish, Answered
<1>3. CASE net # "lost"
  <2>1. Callers'
    BY <1>1, <1>3, PutFields, IdleFields
       DEF IInv, Types, Callers, Referenced, Active, InUse, Answered, Finish, Touch, macVars
  <2>2. Clocked'
    BY <1>1, <1>3, PutFields, IdleFields
       DEF IInv, Types, Powers, Callers, Referenced, Clocked, Active, InUse, Answered,
       Finish, Touch, macVars
  <2>3. Counted'
    BY <1>1, <1>3, PutFields, IdleFields
       DEF IInv, Types, Powers, Callers, Referenced, Counted, InUse, Answered, Finish,
       Touch, macVars
  <2>4. Active'
    BY <1>1, <1>3, PutFields, IdleFields
       DEF IInv, Types, Callers, Referenced, Clocked, Active, InUse, Answered, Finish,
       Touch, macVars
  <2>5. BusAwake'
    BY <1>1, <1>3, PutFields, IdleFields
       DEF IInv, Types, Callers, BusAwake, InUse, Answered, Finish, Touch, macVars
  <2>6. Undisturbed'
    BY <1>1, <1>3, PutFields, IdleFields
       DEF IInv, Types, Callers, BusAwake, Undisturbed, Excused, InUse, Answered, Finish,
       Touch, macVars
  <2> QED
    BY <1>1, <1>2, <2>1, <2>2, <2>3, <2>4, <2>5, <2>6 DEF IInv, Referenced
<1>4. CASE net = "lost"
  BY <1>1, <1>2, <1>4 DEF IInv, Answered, Finish, Touch, macVars
<1> QED
  BY <1>3, <1>4

LEMMA TimeOutIInv ==
  ASSUME IInv, TimeOut
  PROVE  IInv'
<1>1. Types'
  <2>1. done' \in Nat /\ restarts' \in Nat /\ timeouts' \in Nat /\ leaks' \in Nat
    BY DEF IInv, Types, TimeOut, Finish, Touch, macVars
  <2> QED
    BY <2>1, PutFields, IdleFields DEF IInv, Types, TimeOut, Finish, Touch, macVars
<1>2. "wrong" \notin hist'
  BY IdleFields DEF IInv, Types, Undisturbed, Excused, Touch, Finish, TimeOut
<1>3. CASE net # "lost"
  <2>1. Callers'
    BY <1>1, <1>3, PutFields, IdleFields
       DEF IInv, Types, Callers, Referenced, Active, InUse, TimeOut, Finish, Touch, macVars
  <2>2. Clocked'
    BY <1>1, <1>3, PutFields, IdleFields
       DEF IInv, Types, Powers, Callers, Referenced, Clocked, Active, InUse, TimeOut,
       Finish, Touch, macVars
  <2>3. Counted'
    BY <1>1, <1>3, PutFields, IdleFields
       DEF IInv, Types, Powers, Callers, Referenced, Counted, InUse, TimeOut, Finish,
       Touch, macVars
  <2>4. Active'
    BY <1>1, <1>3, PutFields, IdleFields
       DEF IInv, Types, Callers, Referenced, Clocked, Active, InUse, TimeOut, Finish,
       Touch, macVars
  <2>5. BusAwake'
    BY <1>1, <1>3, PutFields, IdleFields
       DEF IInv, Types, Callers, BusAwake, InUse, TimeOut, Finish, Touch, macVars
  <2>6. Undisturbed'
    BY <1>1, <1>3, PutFields, IdleFields
       DEF IInv, Types, Callers, BusAwake, Undisturbed, Excused, InUse, TimeOut, Finish,
       Touch, macVars
  <2> QED
    BY <1>1, <1>2, <2>1, <2>2, <2>3, <2>4, <2>5, <2>6 DEF IInv, Referenced
<1>4. CASE net = "lost"
  BY <1>1, <1>2, <1>4 DEF IInv, TimeOut, Finish, Touch, macVars
<1> QED
  BY <1>3, <1>4

LEMMA FrameEndsIInv ==
  ASSUME IInv, FrameEnds
  PROVE  IInv'
<1>1. Types'
  BY IdleFields DEF IInv, Types, FrameEnds, bound
<1>2. "wrong" \notin hist'
  BY DEF IInv, Types, FrameEnds, bound
<1>3. CASE net # "lost"
  <2>1. Callers'
    BY <1>1, <1>3, IdleFields DEF IInv, Types, Callers, Referenced, Active, InUse,
       FrameEnds, bound
  <2>2. Clocked'
    BY <1>1, <1>3, IdleFields DEF IInv, Types, Powers, Callers, Referenced, Clocked,
       Active, InUse, FrameEnds, bound
  <2>3. Counted'
    BY <1>1, <1>3, IdleFields DEF IInv, Types, Powers, Callers, Referenced, Counted, InUse,
       FrameEnds, bound
  <2>4. Active'
    BY <1>1, <1>3, IdleFields DEF IInv, Types, Callers, Referenced, Clocked, Active, InUse,
       FrameEnds, bound
  <2>5. BusAwake'
    BY <1>1, <1>3, IdleFields DEF IInv, Types, Callers, BusAwake, InUse, FrameEnds, bound
  <2>6. Undisturbed'
    BY <1>1, <1>3, IdleFields DEF IInv, Types, Callers, BusAwake, Undisturbed, Excused,
       InUse, FrameEnds, bound
  <2> QED
    BY <1>1, <1>2, <2>1, <2>2, <2>3, <2>4, <2>5, <2>6 DEF IInv, Referenced
<1>4. CASE net = "lost"
  BY <1>1, <1>2, <1>4 DEF IInv, FrameEnds, bound
<1> QED
  BY <1>3, <1>4

LEMMA IrqReadsIInv ==
  ASSUME IInv, IrqReads
  PROVE  IInv'
<1>1. Types'
  BY IdleFields DEF IInv, Types, IrqReads, Touch, bound
<1>2. "wrong" \notin hist'
  BY DEF IInv, Types, IrqReads, Touch, bound
<1>3. CASE net # "lost"
  <2>1. Callers'
    BY <1>1, <1>3, IdleFields DEF IInv, Types, Callers, Referenced, Active, InUse,
       IrqReads, Touch, bound
  <2>2. Clocked'
    BY <1>1, <1>3, IdleFields DEF IInv, Types, Powers, Callers, Referenced, Clocked,
       Active, InUse, IrqReads, Touch, bound
  <2>3. Counted'
    BY <1>1, <1>3, IdleFields DEF IInv, Types, Powers, Callers, Referenced, Counted, InUse,
       IrqReads, Touch, bound
  <2>4. Active'
    BY <1>1, <1>3, IdleFields DEF IInv, Types, Callers, Referenced, Clocked, Active, InUse,
       IrqReads, Touch, bound
  <2>5. BusAwake'
    BY <1>1, <1>3, IdleFields DEF IInv, Types, Callers, BusAwake, InUse, IrqReads, Touch, bound
  <2>6. Undisturbed'
    BY <1>1, <1>3, IdleFields DEF IInv, Types, Callers, BusAwake, Undisturbed, Excused,
       InUse, IrqReads, Touch, bound
  <2> QED
    BY <1>1, <1>2, <2>1, <2>2, <2>3, <2>4, <2>5, <2>6 DEF IInv, Referenced
<1>4. CASE net = "lost"
  BY <1>1, <1>2, <1>4 DEF IInv, IrqReads, Touch, bound
<1> QED
  BY <1>3, <1>4

LEMMA IrqCompletesIInv ==
  ASSUME IInv, IrqCompletes
  PROVE  IInv'
<1>1. Types'
  <2>1. done' \in Nat /\ restarts' \in Nat /\ timeouts' \in Nat /\ leaks' \in Nat
    BY DEF IInv, Types, IrqCompletes, bound
  <2> QED
    BY <2>1, IdleFields DEF IInv, Types, IrqCompletes, bound
<1>2. "wrong" \notin hist'
  BY DEF IInv, Types, IrqCompletes, bound
<1>3. CASE net # "lost"
  <2>1. Callers'
    BY <1>1, <1>3, IdleFields DEF IInv, Types, Callers, Referenced, Active, InUse,
       IrqCompletes, bound
  <2>2. Clocked'
    BY <1>1, <1>3, IdleFields DEF IInv, Types, Powers, Callers, Referenced, Clocked,
       Active, InUse, IrqCompletes, bound
  <2>3. Counted'
    BY <1>1, <1>3, IdleFields DEF IInv, Types, Powers, Callers, Referenced, Counted, InUse,
       IrqCompletes, bound
  <2>4. Active'
    BY <1>1, <1>3, IdleFields DEF IInv, Types, Callers, Referenced, Clocked, Active, InUse,
       IrqCompletes, bound
  <2>5. BusAwake'
    BY <1>1, <1>3, IdleFields DEF IInv, Types, Callers, BusAwake, InUse, IrqCompletes, bound
  <2>6. Undisturbed'
    BY <1>1, <1>3, IdleFields DEF IInv, Types, Callers, BusAwake, Undisturbed, Excused,
       InUse, IrqCompletes, bound
  <2> QED
    BY <1>1, <1>2, <2>1, <2>2, <2>3, <2>4, <2>5, <2>6 DEF IInv, Referenced
<1>4. CASE net = "lost"
  BY <1>1, <1>2, <1>4 DEF IInv, IrqCompletes, bound
<1> QED
  BY <1>3, <1>4
-----------------------------------------------------------------------------
(* The invariants of every behaviour *)

LEMMA NextIInv ==
  IInv /\ [Next]_vars => IInv'
<1> SUFFICES ASSUME IInv, [Next]_vars PROVE IInv'
  OBVIOUS
<1>1. CASE Probe
  BY <1>1, ProbeIInv
<1>2. CASE Remove
  BY <1>2, RemoveIInv
<1>3. CASE PeerProbe
  BY <1>3, PeerProbeIInv
<1>4. CASE PeerRemove
  BY <1>4, PeerRemoveIInv
<1>5. CASE Open
  BY <1>5, OpenIInv
<1>6. CASE Opened
  BY <1>6, OpenedIInv
<1>7. CASE PhyMissing
  BY <1>7, PhyMissingIInv
<1>8. CASE Close
  BY <1>8, CloseIInv
<1>9. CASE Restart
  BY <1>9, RestartIInv
<1>10. CASE PeerSleeps
  BY <1>10, PeerSleepsIInv
<1>11. CASE Suspend
  BY <1>11, SuspendIInv
<1>12. CASE Resume
  BY <1>12, ResumeIInv
<1>13. CASE PeerWakes
  BY <1>13, PeerWakesIInv
<1>14. CASE Autosuspend
  BY <1>14, AutosuspendIInv
<1>15. CASE AddressSent
  BY <1>15, AddressSentIInv
<1>16. CASE Answered
  BY <1>16, AnsweredIInv
<1>17. CASE TimeOut
  BY <1>17, TimeOutIInv
<1>18. CASE FrameEnds
  BY <1>18, FrameEndsIInv
<1>19. CASE IrqReads
  BY <1>19, IrqReadsIInv
<1>20. CASE IrqCompletes
  BY <1>20, IrqCompletesIInv
<1>21. CASE \E step \in Failures : ProbeFails(step) \/ OpenFails(step) \/ ResumeFails(step)
  <2>1. PICK step \in Failures : ProbeFails(step) \/ OpenFails(step) \/ ResumeFails(step)
    BY <1>21
  <2>2. ProbeFails(step) => step \in Steps
    BY DEF ProbeFails
  <2> QED
    BY <2>1, <2>2, ProbeFailsIInv, OpenFailsIInv, ResumeFailsIInv
<1>22. CASE \E by \in {"own", "peer"}, write, c45 \in BOOLEAN : Begin(by, write, c45)
  BY <1>22, BeginIInv
<1>23. CASE RemoveFails
  BY <1>23, RemoveFailsIInv
<1>24. CASE RestoreFails
  BY <1>24, RestoreFailsIInv
<1>25. CASE \E by \in {"own", "peer"} : CallFails(by)
  BY <1>25, CallFailsIInv
<1>26. CASE UNCHANGED vars
  BY <1>26 DEF vars, macVars, bound, IInv, Types, Callers, Referenced, Clocked, Counted, Active,
                BusAwake, Undisturbed, Excused, InUse
<1> QED
  BY <1>1, <1>2, <1>3, <1>4, <1>5, <1>6, <1>7, <1>8, <1>9, <1>10, <1>11, <1>12,
     <1>13, <1>14, <1>15, <1>16, <1>17, <1>18, <1>19, <1>20, <1>21, <1>22, <1>23, <1>24, <1>25, <1>26 DEF Next

LEMMA AlwaysIInv ==
  Spec => []IInv
  BY InitIInv, NextIInv, PTL DEF Spec

\* The state of the driver, of the bus and of the counts keeps its type, with any steps
\* failing.
THEOREM FecPowerTypes ==
  Spec => []Types
<1>1. IInv => Types
  BY DEF IInv
<1> QED
  BY <1>1, AlwaysIInv, PTL

\* A call that reports success was served by the PHY in this call: no completion, event or
\* answer of an earlier call passes for its own, whatever fails, however many calls time
\* out and whenever the MAC restarts (fec_enet_mdio_wait and its callers; the calls that
\* MdioHonest excuses apart).
THEOREM CallsAreHonest ==
  Spec => []MdioHonest
<1>1. IInv => MdioHonest
  BY DEF IInv, MdioHonest
<1> QED
  BY <1>1, AlwaysIInv, PTL

\* A waiting call has its frame, event, interrupt or completion on the way, with the
\* interrupt unmasked and both bus clocks running, even when the interface that owns the
\* bus is closed: with any steps failing.
THEOREM CallsAreServed ==
  Spec => []WaitIsServed
<1>1. IInv => WaitIsServed
  <2> SUFFICES ASSUME IInv, op # Idle, ~op.excused, net # "lost", "dormant_bus" \notin hist
               PROVE  /\ wire # "none" \/ event \/ irq \/ done > 0
                      /\ imask /\ power.ipg > 0 /\ power.ahb > 0
    BY DEF WaitIsServed
  <2>1. ~asleep /\ (InUse \/ peer # "none") /\ op.phase \in {"addr", "data"}
    BY DEF IInv, Callers
  <2>2. wire # "none" \/ event \/ irq \/ done > 0
    BY <2>1 DEF IInv, Undisturbed, Excused
  <2>3. imask
    BY <2>1 DEF IInv, BusAwake
  <2>4. power.ipg > 0 /\ power.ahb > 0
    BY <2>1 DEF IInv, Referenced, Active, Clocked
  <2> QED
    BY <2>2, <2>3, <2>4
<1> QED
  BY <1>1, AlwaysIInv, PTL
-----------------------------------------------------------------------------
(* The counts balance when probe unwinds what it took *)

(* What the failure of two steps of probe, and only theirs, puts out of balance. *)
Balance ==
  net # "lost" =>
    /\ power.clk = (IF InUse /\ ~asleep THEN 1 ELSE 0)
    /\ power.usage = (IF InUse THEN 1 ELSE 0) + (IF op # Idle THEN 1 ELSE 0) + leaks
    /\ power.reg = (IF net # "unbound" /\ ~asleep THEN 1 ELSE 0)

LEMMA NextBalance ==
  ASSUME Failures \cap {"reset", "register"} = {}, IInv, Balance, [Next]_vars
  PROVE  Balance'
<1>1. power \in Powers /\ op \in Ops /\ asleep \in BOOLEAN /\ share \in BOOLEAN /\ leaks \in Nat
  BY DEF IInv, Types
<1>2. net # "lost" => Callers
  BY DEF IInv
<1>3. CASE Probe
  <2>1. net = "unbound" /\ net' = "down" /\ asleep' = asleep /\ op' = op /\ leaks' = leaks
    BY <1>3 DEF Probe, bound
  <2>2. op = Idle /\ ~asleep
    BY <1>2, <2>1 DEF Callers, InUse
  <2> QED
    BY <1>1, <1>3, <2>1, <2>2, ProbePower DEF Balance, InUse
<1>4. CASE Remove
  <2>1. net \in {"down", "up"} /\ net' = "unbound" /\ ~asleep /\ ~asleep' /\ op = Idle /\ op' = Idle
        /\ leaks' = leaks
    BY <1>4 DEF Remove, bound
  <2>2. /\ power'.usage = (IF net = "up" THEN power.usage - 1 ELSE power.usage)
        /\ power'.clk = (IF net = "up" THEN power.clk - 1 ELSE power.clk)
        /\ power'.reg = power.reg - 1
    BY <1>1, <1>4, RemovePower
  <2>3. CASE net = "up"
    BY <1>1, <2>1, <2>2, <2>3 DEF Balance, InUse, Powers
  <2>4. CASE net = "down"
    BY <1>1, <2>1, <2>2, <2>4 DEF Balance, InUse, Powers
  <2> QED
    BY <2>1, <2>3, <2>4
<1>5. CASE PeerProbe
  BY <1>1, <1>2, <1>5
     DEF Balance, Callers, InUse, Powers, PeerProbe, bound
<1>6. CASE PeerRemove
  BY <1>1, <1>2, <1>6
     DEF Balance, Callers, InUse, Powers, PeerRemove, bound
<1>7. CASE Open
  BY <1>1, <1>2, <1>7, OpenPower, ExcuseFields
     DEF Balance, Callers, InUse, Powers, Open, CanOpen, bound
<1>8. CASE Opened
  BY <1>1, <1>2, <1>8
     DEF Balance, Callers, InUse, Powers, Opened, bound
<1>9. CASE PhyMissing
  BY <1>1, <1>2, <1>9, ReleaseFields
     DEF Balance, Callers, InUse, Powers, PhyMissing, bound
<1>10. CASE Close
  BY <1>1, <1>2, <1>10, ReleaseFields, ExcuseFields
     DEF Balance, Callers, InUse, Powers, Close, bound
<1>11. CASE Restart
  BY <1>1, <1>2, <1>11, ExcuseFields
     DEF Balance, Callers, InUse, Powers, Restart, bound
<1>12. CASE PeerSleeps
  BY <1>1, <1>2, <1>12
     DEF Balance, Callers, InUse, Powers, PeerSleeps, bound
<1>13. CASE Suspend
  <2>1. net \in {"down", "up"} /\ net' = net /\ ~asleep /\ asleep' /\ op = Idle /\ op' = Idle
        /\ leaks' = leaks
    BY <1>2, <1>13 DEF Suspend, Callers, bound
  <2>2. CASE net = "up"
    BY <1>1, <1>13, <2>1, <2>2, SuspendPower DEF Balance, InUse
  <2>3. CASE net = "down"
    BY <1>1, <1>13, <2>1, <2>3, SuspendPower DEF Balance, InUse
  <2> QED
    BY <2>1, <2>2, <2>3
<1>14. CASE Resume
  <2>1. net' = net /\ asleep /\ ~asleep' /\ op' = op /\ leaks' = leaks
    BY <1>14 DEF Resume, bound
  <2>2. CASE net = "lost"
    BY <2>1, <2>2 DEF Balance
  <2>3. net # "lost" => op = Idle /\ net \in {"down", "up"}
    BY <1>2, <2>1 DEF Callers
  <2>4. CASE net = "up"
    BY <1>1, <1>14, <2>1, <2>3, <2>4, ResumePower DEF Balance, InUse
  <2>5. CASE net = "down"
    BY <1>1, <1>14, <2>1, <2>3, <2>5, ResumePower DEF Balance, InUse
  <2> QED
    BY <2>2, <2>3, <2>4, <2>5
<1>15. CASE PeerWakes
  BY <1>1, <1>2, <1>15
     DEF Balance, Callers, InUse, Powers, PeerWakes, bound
<1>16. CASE Autosuspend
  BY <1>1, <1>2, <1>16, AutosuspendPower
     DEF Balance, Callers, InUse, Powers, Autosuspend, bound
<1>17. CASE AddressSent
  BY <1>1, <1>2, <1>17, AddressSentOp
     DEF Balance, Callers, InUse, Powers, AddressSent, bound
<1>18. CASE Answered
  BY <1>1, <1>2, <1>18, PutFields, IdleFields
     DEF Balance, Callers, InUse, Powers, Answered, Finish, bound
<1>19. CASE TimeOut
  BY <1>1, <1>2, <1>19, PutFields, IdleFields
     DEF Balance, Callers, InUse, Powers, TimeOut, Finish, bound
<1>20. CASE FrameEnds
  BY <1>1, <1>2, <1>20
     DEF Balance, Callers, InUse, Powers, FrameEnds, bound
<1>21. CASE IrqReads
  BY <1>1, <1>2, <1>21
     DEF Balance, Callers, InUse, Powers, IrqReads, bound
<1>22. CASE IrqCompletes
  BY <1>1, <1>2, <1>22
     DEF Balance, Callers, InUse, Powers, IrqCompletes, bound
<1>23. CASE \E step \in Failures : ProbeFails(step) \/ OpenFails(step) \/ ResumeFails(step)
  <2>1. PICK step \in Failures : ProbeFails(step) \/ OpenFails(step) \/ ResumeFails(step)
    BY <1>23
  <2>2. step \notin {"reset", "register"}
    BY <2>1
  <2>3. CASE ProbeFails(step)
    <3>1. step \in Steps /\ net' = "unbound" /\ op' = op /\ asleep' = asleep /\ net = "unbound"
          /\ leaks' = leaks
      BY <2>3 DEF ProbeFails, bound
    <3> QED
      BY <1>1, <1>2, <2>2, <2>3, <3>1, ProbeFailsPower DEF Balance, Callers, InUse
  <2>4. CASE OpenFails(step)
    BY <1>1, <1>2, <2>2, <2>4, OpenFailsPower DEF Balance, InUse, Powers, OpenFails, GetFails, CanOpen, bound
  <2>5. CASE ResumeFails(step)
    BY <2>5 DEF Balance, ResumeFails
  <2> QED
    BY <2>1, <2>3, <2>4, <2>5
<1>24. CASE \E by \in {"own", "peer"}, write, c45 \in BOOLEAN : Begin(by, write, c45)
  <2>1. PICK by \in {"own", "peer"}, write \in BOOLEAN, c45 \in BOOLEAN : Begin(by, write, c45)
    BY <1>24
  <2>2. op = Idle /\ op' # Idle /\ net' = net /\ asleep' = asleep /\ power' = Get(power)
        /\ leaks' = leaks
    BY <2>1, BeginOp DEF Begin, IInv, bound
  <2> QED
    BY <1>1, <2>2, GetFields DEF Balance, InUse, Powers
<1>25. CASE RemoveFails
  BY <1>25 DEF Balance, RemoveFails
<1>26. CASE RestoreFails
  <2>1. /\ net = "down" /\ net' = "down" /\ asleep /\ ~asleep' /\ op' = op
        /\ leaks' = leaks + 1
    BY <1>26 DEF RestoreFails
  <2>2. /\ power'.usage = power.usage + 1 /\ power'.reg = power.reg + 1
        /\ power'.clk = power.clk
    BY <1>1, <1>26, RestoreFailsPower
  <2> QED
    BY <1>1, <1>2, <2>1, <2>2 DEF Balance, Callers, InUse, Powers
<1>27. CASE \E by \in {"own", "peer"} : CallFails(by)
  <2>1. GetFails /\ net' = net /\ asleep' = asleep /\ op' = op
    BY <1>27 DEF CallFails
  <2> QED
    BY <1>1, <2>1, GetFailsPower DEF Balance, InUse, Powers, GetFails
<1>28. CASE UNCHANGED vars
  BY <1>28 DEF vars, bound, Balance, InUse
<1> QED
  BY <1>3, <1>4, <1>5, <1>6, <1>7, <1>8, <1>9, <1>10, <1>11, <1>12, <1>13, <1>14,
     <1>15, <1>16, <1>17, <1>18, <1>19, <1>20, <1>21, <1>22, <1>23, <1>24, <1>25, <1>26, <1>27, <1>28 DEF Next

\* With no failure of the two steps of probe that the driver mishandles (a PHY reset that
\* fails leaves the regulator on, a registration that fails turns the optional clocks off
\* twice), clocks and regulator are exactly what is in use, and so are the runtime PM
\* references but for one kept by each runtime resume that failed, in open, remove, an
\* MDIO call or the restoring of the bus: whatever else fails, and up to a system resume
\* that loses clocks or regulator or a remove that gives up.
THEOREM PowerIsBalanced ==
  ASSUME Failures \cap {"reset", "register"} = {}
  PROVE  Spec => []PowerBalanced
<1>1. Init => Balance
  BY NoneFields DEF Init, Balance, InUse
<1>2. IInv /\ Balance /\ [Next]_vars => Balance'
  BY NextBalance
<1>3. IInv /\ Balance => PowerBalanced
  BY DEF IInv, Balance, PowerBalanced, Callers, Referenced, Clocked, Active, InUse
<1> QED
  BY <1>1, <1>2, <1>3, AlwaysIInv, PTL DEF Spec
=============================================================================
