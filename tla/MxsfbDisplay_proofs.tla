------------------------- MODULE MxsfbDisplay_proofs -------------------------
(***************************************************************************)
(* The display driver for every set of modes, every size of the frame      *)
(* buffer, every failure of the regulator and the clock, and both kinds of *)
(* boot.  The functions of the driver map a record to a record: each has a *)
(* lemma that says what it leaves alone and which part of the invariant it *)
(* keeps, and a step composes the lemmas of the functions it calls.        *)
(***************************************************************************)
EXTENDS MxsfbDisplay, TLAPS

\* The fields of the record of the driver.
Fields ==
    {"clk", "run", "enabled", "reg", "pm", "blanked", "restore", "asleep", "force",
     "mode", "oldmode", "yoff", "line", "bypass", "hw", "next", "en", "st", "wait4",
     "vdone", "fdone", "as", "ovon", "usage", "savedAs", "hung", "hist"}

\* What the history of the record notes.
Errors == {"failed", "lost", "badline", "panlate", "vsynclate"}
\* How the bus may hang: not at all, or in one of the three unguarded places.
Lapses == {"no", "release", "vsync", "irq"}
\* The outcomes of enabling the controller, whatever Failures is.
Results == {"ok", "regulator", "rate"}

\* The fields of the record and their ranges.
Typed(d) ==
    /\ DOMAIN d = Fields
    /\ d.clk \in BOOLEAN /\ d.run \in BOOLEAN /\ d.blanked \in BOOLEAN
    /\ d.asleep \in BOOLEAN /\ d.restore \in BOOLEAN /\ d.wait4 \in BOOLEAN
    /\ d.as \in BOOLEAN /\ d.ovon \in BOOLEAN /\ d.savedAs \in BOOLEAN
    /\ d.enabled \in {0, 1} /\ d.reg \in Int /\ d.pm \in Int
    /\ d.bypass \in 0 .. 2 /\ d.usage \in 0 .. MaxOpen
    /\ d.en \subseteq Events /\ d.st \subseteq Events
    /\ d.hist \subseteq Errors

\* While no enabling failed: the clocks follow the blank state, a controller runs
\* exactly when it is unblanked, and a cold-booted one then holds one reference of
\* each kind; no bracketed path hung the bus.
Powered(d) ==
    /\ d.enabled = 1 => ~d.blanked
    /\ "failed" \notin d.hist =>
          /\ d.clk = ~d.blanked
          /\ d.blanked \/ d.enabled = 1
          /\ d.hung \in Lapses
          /\ ~WarmBoot => d.reg = d.enabled /\ d.pm = d.enabled /\ d.run = (d.enabled = 1)

\* A vsync interrupt that nobody waits for is left by a timeout.
Waited(d) == "vsync" \in d.en /\ ~d.wait4 => "vsynclate" \in d.hist

\* An unblanked controller shows the mode, at the line y; the mode compared with
\* next time is that one, or none after a warm boot.
Shown(d, y) ==
    ~d.blanked /\ "lost" \notin d.hist =>
        /\ d.hw = d.mode
        /\ d.oldmode \in {d.mode, NoMode}
        /\ d.hist \cap {"badline", "panlate"} = {} =>
               d.line = d.mode.line /\ d.next = d.line * y

\* The overlay is blended as its blank state says, or saved so while asleep.
Blended(d) ==
    IF d.asleep THEN d.blanked /\ d.savedAs = d.ovon ELSE d.as = d.ovon

\* What the functions of the power supply and of the overlay leave alone.
KeepsPicture(e, d) ==
    /\ e.hw = d.hw /\ e.mode = d.mode /\ e.oldmode = d.oldmode
    /\ e.line = d.line /\ e.next = d.next /\ e.yoff = d.yoff
    /\ e.hist \in {d.hist, d.hist \cup {"failed"}}
    /\ e.en = d.en /\ e.wait4 = d.wait4

KeepsOverlay(e, d) ==
    /\ e.as = d.as /\ e.ovon = d.ovon /\ e.usage = d.usage
    /\ e.savedAs = d.savedAs /\ e.asleep = d.asleep

KeepsPower(e, d) ==
    /\ e.clk = d.clk /\ e.run = d.run /\ e.enabled = d.enabled
    /\ e.reg = d.reg /\ e.pm = d.pm /\ e.blanked = d.blanked
    /\ e.hung = d.hung /\ e.hist = d.hist

\* mxsfb_enable_controller takes one regulator reference and the clock, or notes
\* that it failed.
LEMMA EnableFacts ==
    ASSUME NEW d, Typed(d), NEW out \in Results
    PROVE  LET e == EnableController(d, out)
           IN  /\ Typed(e) /\ KeepsPicture(e, d) /\ KeepsOverlay(e, d)
               /\ e.blanked = d.blanked /\ e.pm = d.pm /\ e.hung = d.hung
               /\ out = "ok" => /\ e.clk /\ e.run /\ e.enabled = 1
                                /\ e.reg = d.reg + 1 /\ e.hist = d.hist
               /\ out # "ok" => "failed" \in e.hist /\ e.enabled = d.enabled
<1> DEFINE e == EnableController(d, out)
<1>1. CASE out = "ok"
  <2>1. e = [d EXCEPT !.clk = TRUE, !.run = TRUE, !.enabled = 1, !.reg = @ + 1]
    BY <1>1 DEF EnableController
  <2>2. DOMAIN e = Fields /\ e.reg = d.reg + 1
    BY <2>1 DEF Typed, Fields
  <2> HIDE DEF e
  <2>3. Typed(e)
    BY <2>1, <2>2 DEF Typed, Fields
  <2>4. /\ KeepsPicture(e, d) /\ KeepsOverlay(e, d)
        /\ e.blanked = d.blanked /\ e.pm = d.pm /\ e.hung = d.hung
        /\ e.clk /\ e.run /\ e.enabled = 1 /\ e.hist = d.hist
    BY <2>1 DEF Typed, Fields, KeepsPicture, KeepsOverlay
  <2> QED
    BY <2>2, <2>3, <2>4, <1>1 DEF e
<1>2. CASE out = "regulator"
  BY <1>2 DEF Typed, Fields, EnableController, Note, KeepsPicture, KeepsOverlay, Errors
<1>3. CASE out = "rate"
  BY <1>3 DEF Typed, Fields, EnableController, Note, KeepsPicture, KeepsOverlay, Errors
<1> QED
  BY <1>1, <1>2, <1>3 DEF Results

\* mxsfb_disable_controller gives the regulator reference back.
LEMMA DisableFacts ==
    ASSUME NEW d, Typed(d)
    PROVE  LET e == DisableController(d)
           IN  /\ Typed(e) /\ KeepsPicture(e, d) /\ KeepsOverlay(e, d)
               /\ e.blanked = d.blanked /\ e.pm = d.pm /\ e.clk = d.clk
               /\ e.hist = d.hist
               /\ ~e.run /\ e.enabled = 0 /\ e.reg = d.reg - 1
               /\ d.clk => e.hung = d.hung
<1> DEFINE e == DisableController(d)
<1>1. Typed(e)
  BY DEF Typed, Fields, DisableController, Touch
<1> QED
  BY <1>1 DEF Typed, Fields, DisableController, Touch, KeepsPicture, KeepsOverlay

\* The registers that mxsfb_set_par writes, and the notes they make void.
LEMMA ProgramFacts ==
    ASSUME NEW d, Typed(d)
    PROVE  LET e == Program(d)
           IN  /\ Typed(e) /\ KeepsOverlay(e, d)
               /\ e.blanked = d.blanked /\ e.pm = d.pm /\ e.clk = d.clk
               /\ e.reg = d.reg /\ e.run = d.run /\ e.enabled = d.enabled
               /\ d.clk => e.hung = d.hung
               /\ e.hw = d.mode /\ e.mode = d.mode /\ e.yoff = d.yoff
               /\ e.line = d.line /\ e.next = d.line * d.yoff
               /\ e.en = {} /\ e.hist = d.hist \cap {"failed"}
<1> DEFINE e == Program(d)
<1>1. Typed(e)
  BY DEF Typed, Fields, Program, Touch
<1> QED
  BY <1>1 DEF Typed, Fields, Program, Touch, KeepsOverlay

\* A register access with the clock on changes nothing the invariant reads.
LEMMA TouchFacts ==
    ASSUME NEW d, Typed(d), NEW who
    PROVE  LET e == Touch(d, who)
           IN  /\ Typed(e) /\ KeepsPicture(e, d) /\ KeepsOverlay(e, d)
               /\ d.clk => KeepsPower(e, d)
               /\ who \in Lapses /\ Powered(d) => Powered(e)
BY DEF Typed, Fields, Touch, KeepsPicture, KeepsOverlay, KeepsPower, Powered, Lapses

\* The picture that mxsfb_set_par leaves: the registers of the mode of d.
Programmed(e, d) ==
    /\ e.hw = d.mode /\ e.oldmode = d.mode
    /\ e.line = d.mode.line /\ e.next = e.line * d.yoff
    /\ e.hist \in {{}, {"failed"}} /\ e.en = {}

\* Programming a mode around a stopped controller leaves the references balanced.
LEMMA ReprogramFacts ==
    ASSUME NEW d, Typed(d), NEW out \in Results
    PROVE  LET e == IF d.enabled = 1
                    THEN EnableController(Program(DisableController(d)), out)
                    ELSE Program(d)
           IN  /\ Typed(e) /\ KeepsOverlay(e, d)
               /\ e.blanked = d.blanked /\ e.pm = d.pm
               /\ e.hw = d.mode /\ e.mode = d.mode /\ e.yoff = d.yoff
               /\ e.line = d.line /\ e.next = d.line * d.yoff
               /\ e.hist \in {{}, {"failed"}} /\ e.en = {}
               /\ "failed" \in d.hist => "failed" \in e.hist
               /\ d.clk => e.hung = d.hung
               /\ d.enabled = 0 => /\ e.clk = d.clk /\ e.run = d.run /\ e.enabled = 0
                                   /\ e.reg = d.reg
                                   /\ "failed" \in e.hist => "failed" \in d.hist
               /\ d.enabled = 1 /\ "failed" \notin e.hist =>
                     e.clk /\ e.run /\ e.enabled = 1 /\ e.reg = d.reg
<1>1. CASE d.enabled = 1
  <2> DEFINE a == DisableController(d)
             b == Program(a)
             e == EnableController(b, out)
  <2>1. /\ Typed(a) /\ KeepsPicture(a, d) /\ KeepsOverlay(a, d)
        /\ a.blanked = d.blanked /\ a.pm = d.pm /\ a.clk = d.clk
        /\ a.hist = d.hist /\ a.reg = d.reg - 1
        /\ d.clk => a.hung = d.hung
    BY DisableFacts
  <2> HIDE DEF a
  <2>2. /\ Typed(b) /\ KeepsOverlay(b, a)
        /\ b.blanked = a.blanked /\ b.pm = a.pm /\ b.reg = a.reg
        /\ a.clk => b.hung = a.hung
        /\ b.hw = a.mode /\ b.mode = a.mode /\ b.yoff = a.yoff
        /\ b.line = a.line /\ b.next = a.line * a.yoff
        /\ b.en = {} /\ b.hist = a.hist \cap {"failed"}
    BY <2>1, ProgramFacts
  <2> HIDE DEF b
  <2>3. /\ Typed(e) /\ KeepsPicture(e, b) /\ KeepsOverlay(e, b)
        /\ e.blanked = b.blanked /\ e.pm = b.pm /\ e.hung = b.hung
        /\ out = "ok" => /\ e.clk /\ e.run /\ e.enabled = 1
                         /\ e.reg = b.reg + 1 /\ e.hist = b.hist
        /\ out # "ok" => "failed" \in e.hist /\ e.enabled = b.enabled
    BY <2>2, EnableFacts
  <2> HIDE DEF e
  <2>4. d.reg \in Int
    BY DEF Typed
  <2>5. e.hist \in {{}, {"failed"}} /\ ("failed" \in d.hist => "failed" \in e.hist)
    BY <2>1, <2>2, <2>3 DEF KeepsPicture
  <2>6. "failed" \notin e.hist => e.clk /\ e.run /\ e.enabled = 1 /\ e.reg = d.reg
    BY <2>1, <2>2, <2>3, <2>4
  <2>7. KeepsOverlay(e, d)
    BY <2>1, <2>2, <2>3 DEF KeepsOverlay
  <2>8. /\ e.hw = d.mode /\ e.mode = d.mode /\ e.yoff = d.yoff
        /\ e.line = d.line /\ e.next = d.line * d.yoff /\ e.en = {}
        /\ e.blanked = d.blanked /\ e.pm = d.pm
        /\ d.clk => e.hung = d.hung
    BY <2>1, <2>2, <2>3 DEF KeepsPicture
  <2> QED
    BY <1>1, <2>3, <2>5, <2>6, <2>7, <2>8 DEF e, b, a
<1>2. CASE d.enabled = 0
  BY <1>2, ProgramFacts
<1> QED
  BY <1>1, <1>2 DEF Typed

\* mxsfb_set_par: the four ways it ends, and what each leaves of the record.
LEMMA SetParFacts ==
    ASSUME NEW d, Typed(d), NEW out \in Results
    PROVE  LET r == SetPar(d, out)
               e == r.dev
           IN  /\ Typed(e) /\ KeepsOverlay(e, d) /\ r.err \in BOOLEAN
               /\ e.blanked = d.blanked /\ e.pm = d.pm
               /\ e.mode = d.mode /\ e.yoff = d.yoff
               /\ "failed" \in d.hist => "failed" \in e.hist
               /\ d.clk \/ d.blanked => e.hung = d.hung
               /\ d.enabled = 0 => /\ d.clk = e.clk /\ e.run = d.run /\ e.enabled = 0
                                   /\ e.reg = d.reg
                                   /\ "failed" \in e.hist => "failed" \in d.hist
               /\ d.enabled = 1 /\ "failed" \notin e.hist =>
                     /\ e.enabled = 1 /\ e.reg = d.reg
                     /\ d.clk => e.clk
                     /\ d.run => e.run
               /\ Waited(d) => Waited(e)
               /\ \/ ~r.err /\ ParEqual(d) /\ e = d
                  \/ ~r.err /\ d.blanked
                  \/ /\ r.err /\ "badline" \in e.hist /\ e.hw = d.hw
                     /\ e.oldmode = d.oldmode /\ ("lost" \in d.hist => "lost" \in e.hist)
                     /\ ~(d.mode.line * d.mode.virt <= MemLen)
                  \/ ~r.err /\ Programmed(e, d)
<1> DEFINE same == d.bypass > 1 /\ ParEqual(d)
           fits == d.mode.line * d.mode.virt <= MemLen
           d1 == Bypass(d)
           d2 == [d1 EXCEPT !.line = d.mode.line]
           d3 == IF d.enabled = 1
                 THEN EnableController(Program(DisableController(d2)), out)
                 ELSE Program(d2)
           f == [d3 EXCEPT !.force = FALSE, !.oldmode = d.mode]
<1>1. /\ Typed(d1) /\ KeepsPicture(d1, d) /\ KeepsOverlay(d1, d) /\ KeepsPower(d1, d)
  BY DEF Bypass, Typed, Fields, KeepsPicture, KeepsOverlay, KeepsPower
<1> HIDE DEF d1
<1>2. /\ Typed(d2) /\ KeepsOverlay(d2, d) /\ KeepsPower(d2, d)
      /\ d2.hw = d.hw /\ d2.mode = d.mode /\ d2.oldmode = d.oldmode
      /\ d2.yoff = d.yoff /\ d2.line = d.mode.line
      /\ d2.en = d.en /\ d2.wait4 = d.wait4
  BY <1>1 DEF Typed, Fields, KeepsPicture, KeepsOverlay, KeepsPower
<1> HIDE DEF d2
<1>3. CASE same
  <2>1. SetPar(d, out) = [dev |-> d, err |-> FALSE]
    BY <1>3 DEF SetPar
  <2> QED
    BY <2>1, <1>3 DEF KeepsOverlay
<1>4. CASE ~same /\ d.blanked
  <2>1. SetPar(d, out) = [dev |-> d1, err |-> FALSE]
    BY <1>4 DEF SetPar, d1
  <2>0. SetPar(d, out).dev = d1 /\ SetPar(d, out).err = FALSE
    BY <2>1
  <2>2. Waited(d) => Waited(d1)
    BY <1>1 DEF KeepsPicture, KeepsPower, Waited
  <2>3. /\ d1.mode = d.mode /\ d1.yoff = d.yoff
        /\ d1.clk = d.clk /\ d1.run = d.run /\ d1.enabled = d.enabled
        /\ d1.reg = d.reg /\ d1.pm = d.pm /\ d1.blanked = d.blanked
        /\ d1.hung = d.hung /\ d1.hist = d.hist /\ d.blanked
    BY <1>1, <1>4 DEF KeepsPicture, KeepsPower
  <2>4. Typed(d1) /\ KeepsOverlay(d1, d)
    BY <1>1
  <2> HIDE DEF same
  <2> QED
    BY <2>0, <2>2, <2>3, <2>4
<1>5. CASE ~same /\ ~d.blanked /\ ~fits
  <2> DEFINE n == Note(d2, "badline")
  <2>1. SetPar(d, out) = [dev |-> n, err |-> TRUE]
    BY <1>5 DEF SetPar, d1, d2
  <2>2. /\ Typed(n) /\ KeepsOverlay(n, d2)
        /\ n.hw = d2.hw /\ n.mode = d2.mode /\ n.oldmode = d2.oldmode
        /\ n.yoff = d2.yoff /\ n.en = d2.en /\ n.wait4 = d2.wait4
        /\ n.hist = d2.hist \cup {"badline"} /\ n.clk = d2.clk /\ n.run = d2.run
        /\ n.enabled = d2.enabled /\ n.reg = d2.reg /\ n.pm = d2.pm
        /\ n.blanked = d2.blanked /\ n.hung = d2.hung
    BY <1>2 DEF Note, Typed, Fields, KeepsOverlay, Errors
  <2> HIDE DEF n
  <2>3. KeepsOverlay(n, d)
    BY <1>2, <2>2 DEF KeepsOverlay
  <2>4. Waited(d) => Waited(n)
    BY <1>2, <2>2 DEF KeepsPower, Waited
  <2>5. /\ n.mode = d.mode /\ n.yoff = d.yoff /\ n.hw = d.hw /\ n.oldmode = d.oldmode
        /\ n.clk = d.clk /\ n.run = d.run /\ n.enabled = d.enabled
        /\ n.reg = d.reg /\ n.pm = d.pm /\ n.blanked = d.blanked /\ n.hung = d.hung
        /\ n.hist = d.hist \cup {"badline"}
    BY <1>2, <2>2 DEF KeepsPower
  <2> QED
    BY <2>1, <2>2, <2>3, <2>4, <2>5, <1>5
<1>6. CASE ~same /\ ~d.blanked /\ fits
  <2>1. SetPar(d, out) = [dev |-> f, err |-> FALSE]
    BY <1>6 DEF SetPar, d1, d2
  <2>2. d.enabled = d2.enabled
    BY <1>2 DEF KeepsPower
  <2>3. /\ Typed(d3) /\ KeepsOverlay(d3, d2)
        /\ d3.blanked = d2.blanked /\ d3.pm = d2.pm
        /\ d3.hw = d2.mode /\ d3.mode = d2.mode /\ d3.yoff = d2.yoff
        /\ d3.line = d2.line /\ d3.next = d2.line * d2.yoff
        /\ d3.hist \in {{}, {"failed"}} /\ d3.en = {}
        /\ "failed" \in d2.hist => "failed" \in d3.hist
        /\ d2.clk => d3.hung = d2.hung
        /\ d2.enabled = 0 => /\ d3.clk = d2.clk /\ d3.run = d2.run /\ d3.enabled = 0
                             /\ d3.reg = d2.reg
                             /\ "failed" \in d3.hist => "failed" \in d2.hist
        /\ d2.enabled = 1 /\ "failed" \notin d3.hist =>
              d3.clk /\ d3.run /\ d3.enabled = 1 /\ d3.reg = d2.reg
    BY <1>2, <2>2, ReprogramFacts
  <2> HIDE DEF d3
  <2>4. /\ Typed(f) /\ KeepsOverlay(f, d3) /\ KeepsPower(f, d3)
        /\ f.hw = d3.hw /\ f.mode = d3.mode /\ f.oldmode = d.mode
        /\ f.line = d3.line /\ f.next = d3.next /\ f.yoff = d3.yoff /\ f.en = d3.en
    BY <2>3 DEF Typed, Fields, KeepsOverlay, KeepsPower
  <2> HIDE DEF f
  <2>5. KeepsOverlay(f, d)
    BY <1>2, <2>3, <2>4 DEF KeepsOverlay
  <2>6. Programmed(f, d)
    BY <1>2, <2>3, <2>4 DEF Programmed, KeepsPower
  <2>7. Waited(f)
    BY <2>6 DEF Programmed, Waited
  <2>8. /\ f.blanked = d.blanked /\ f.pm = d.pm
        /\ f.mode = d.mode /\ f.yoff = d.yoff
        /\ "failed" \in d.hist => "failed" \in f.hist
        /\ d.clk => f.hung = d.hung
        /\ d.enabled = 0 => /\ d.clk = f.clk /\ f.run = d.run /\ f.enabled = 0
                            /\ f.reg = d.reg
                            /\ "failed" \in f.hist => "failed" \in d.hist
        /\ d.enabled = 1 /\ "failed" \notin f.hist =>
              f.enabled = 1 /\ f.reg = d.reg /\ f.clk /\ f.run
    BY <1>2, <2>3, <2>4 DEF KeepsPower
  <2> QED
    BY <2>1, <2>4, <2>5, <2>6, <2>7, <2>8, <1>6
<1> QED
  BY <1>3, <1>4, <1>5, <1>6

\* What a write of the enable bit of AS_CTRL leaves alone.
KeepsPlane(e, d) ==
    /\ e.ovon = d.ovon /\ e.usage = d.usage /\ e.savedAs = d.savedAs
    /\ e.asleep = d.asleep /\ e.blanked = d.blanked

\* Powered, while an overlay operation has the clocks on.
Clocked(d) ==
    /\ d.enabled = 1 => ~d.blanked
    /\ "failed" \notin d.hist =>
          /\ d.clk
          /\ d.blanked \/ d.enabled = 1
          /\ d.hung \in Lapses
          /\ ~WarmBoot => d.reg = d.enabled /\ d.pm = d.enabled /\ d.run = (d.enabled = 1)

\* What two functions in a row leave alone, their composition leaves alone.
LEMMA KeepsTransitive ==
    ASSUME NEW a, NEW b, NEW c
    PROVE  /\ KeepsPicture(a, b) /\ KeepsPicture(b, c) => KeepsPicture(a, c)
           /\ KeepsPlane(a, b) /\ KeepsPlane(b, c) => KeepsPlane(a, c)
BY DEF KeepsPicture, KeepsPlane

\* A function that keeps the picture keeps what is said of it.
LEMMA KeepsShown ==
    ASSUME NEW d, NEW e, KeepsPicture(e, d), NEW y
    PROVE  /\ Waited(d) => Waited(e)
           /\ e.blanked = d.blanked /\ Shown(d, y) => Shown(e, y)
<1>1. "vsynclate" \in d.hist => "vsynclate" \in e.hist
  BY DEF KeepsPicture
<1>2. "lost" \in d.hist => "lost" \in e.hist
  BY DEF KeepsPicture
<1>3. e.hist \cap {"badline", "panlate"} = d.hist \cap {"badline", "panlate"}
  BY DEF KeepsPicture
<1> QED
  BY <1>1, <1>2, <1>3 DEF KeepsPicture, Waited, Shown

\* Between ClocksOn and ClocksOff the registers may be touched, also when blanked;
LEMMA ClocksOnFacts ==
    ASSUME NEW d, Typed(d), Powered(d)
    PROVE  LET e == ClocksOn(d)
           IN  /\ Typed(e) /\ Clocked(e) /\ KeepsPicture(e, d) /\ KeepsPlane(e, d)
               /\ e.as = d.as
<1> DEFINE e == ClocksOn(d)
<1>1. CASE d.blanked
  <2>1. e = [d EXCEPT !.clk = TRUE]
    BY <1>1 DEF ClocksOn
  <2>2. /\ DOMAIN e = Fields /\ e.clk = TRUE /\ e.as = d.as
        /\ KeepsPicture(e, d) /\ KeepsPlane(e, d)
        /\ e.run = d.run /\ e.enabled = d.enabled /\ e.reg = d.reg /\ e.pm = d.pm
        /\ e.hung = d.hung /\ e.hist = d.hist
    BY <2>1 DEF Typed, Fields, KeepsPicture, KeepsPlane
  <2>3. Typed(e)
    BY <2>1 DEF Typed, Fields
  <2> HIDE DEF e
  <2>4. Clocked(e)
    BY <1>1, <2>2 DEF Powered, Clocked, KeepsPlane
  <2> QED
    BY <2>2, <2>3, <2>4 DEF e
<1>2. CASE ~d.blanked
  BY <1>2 DEF ClocksOn, Powered, Clocked, KeepsPicture, KeepsPlane
<1> QED
  BY <1>1, <1>2

\* and the bracket ends with the clocks as the blank state wants them.
LEMMA ClocksOffFacts ==
    ASSUME NEW d, Typed(d), Clocked(d)
    PROVE  LET e == ClocksOff(d)
           IN  /\ Typed(e) /\ Powered(e) /\ KeepsPicture(e, d) /\ KeepsPlane(e, d)
               /\ e.as = d.as
<1> DEFINE e == ClocksOff(d)
<1>1. CASE d.blanked
  <2>1. e = [d EXCEPT !.clk = FALSE]
    BY <1>1 DEF ClocksOff
  <2>2. /\ DOMAIN e = Fields /\ e.clk = FALSE /\ e.as = d.as
        /\ KeepsPicture(e, d) /\ KeepsPlane(e, d)
        /\ e.run = d.run /\ e.enabled = d.enabled /\ e.reg = d.reg /\ e.pm = d.pm
        /\ e.hung = d.hung /\ e.hist = d.hist
    BY <2>1 DEF Typed, Fields, KeepsPicture, KeepsPlane
  <2>3. Typed(e)
    BY <2>1 DEF Typed, Fields
  <2> HIDE DEF e
  <2>4. Powered(e)
    BY <1>1, <2>2 DEF Powered, Clocked, KeepsPlane
  <2> QED
    BY <2>2, <2>3, <2>4 DEF e
<1>2. CASE ~d.blanked
  BY <1>2 DEF ClocksOff, Powered, Clocked, KeepsPicture, KeepsPlane
<1> QED
  BY <1>1, <1>2

\* A write of the enable bit of AS_CTRL.
LEMMA BlendFacts ==
    ASSUME NEW d, Typed(d), Clocked(d), NEW on \in BOOLEAN
    PROVE  LET e == [Touch(d, "driver") EXCEPT !.as = on]
           IN  /\ Typed(e) /\ Clocked(e) /\ KeepsPicture(e, d) /\ KeepsPlane(e, d)
               /\ e.as = on /\ (d.clk => KeepsPower(e, d))
BY DEF Typed, Fields, Touch, Clocked, KeepsPicture, KeepsPlane, KeepsPower, Lapses

\* overlayfb_enable stops and restarts the controller of an unblanked screen.
LEMMA OverlayEnableFacts ==
    ASSUME NEW d, Typed(d), Clocked(d), NEW out \in Results
    PROVE  LET e == OverlayEnable(d, out)
           IN  /\ Typed(e) /\ Clocked(e) /\ KeepsPicture(e, d) /\ KeepsPlane(e, d)
               /\ e.as
<1>1. CASE d.blanked
  BY <1>1, BlendFacts DEF OverlayEnable
<1>2. CASE ~d.blanked
  <2> DEFINE a == DisableController(d)
             b == [a EXCEPT !.as = TRUE]
             e == EnableController(b, out)
  <2>1. /\ Typed(a) /\ KeepsPicture(a, d) /\ KeepsOverlay(a, d)
        /\ a.blanked = d.blanked /\ a.pm = d.pm /\ a.clk = d.clk
        /\ a.hist = d.hist
        /\ ~a.run /\ a.enabled = 0 /\ a.reg = d.reg - 1
        /\ d.clk => a.hung = d.hung
    BY DisableFacts
  <2> HIDE DEF a
  <2>2. /\ Typed(b) /\ KeepsPicture(b, a) /\ KeepsPlane(b, a)
        /\ b.hung = a.hung /\ b.pm = a.pm /\ b.reg = a.reg /\ b.as /\ b.hist = a.hist
    BY <2>1 DEF Typed, Fields, KeepsPicture, KeepsPlane
  <2> HIDE DEF b
  <2>3. /\ Typed(e) /\ KeepsPicture(e, b) /\ KeepsOverlay(e, b)
        /\ e.blanked = b.blanked /\ e.pm = b.pm /\ e.hung = b.hung
        /\ out = "ok" => /\ e.clk /\ e.run /\ e.enabled = 1
                         /\ e.reg = b.reg + 1 /\ e.hist = b.hist
        /\ out # "ok" => "failed" \in e.hist /\ e.enabled = b.enabled
    BY <2>2, EnableFacts
  <2> HIDE DEF e
  <2>4. d.reg \in Int /\ e.run \in BOOLEAN
    BY <2>3 DEF Typed
  <2>5. KeepsPlane(e, d) /\ e.as
    BY <2>1, <2>2, <2>3 DEF KeepsPlane, KeepsOverlay
  <2>6. KeepsPicture(e, d)
    BY <2>1, <2>2, <2>3 DEF KeepsPicture
  <2>7. "failed" \notin e.hist =>
           /\ e.clk /\ e.run /\ e.enabled = 1 /\ e.reg = d.reg /\ e.pm = d.pm
           /\ "failed" \notin d.hist /\ (d.clk => e.hung = d.hung)
    BY <2>1, <2>2, <2>3, <2>4
  <2>8. Clocked(e)
    BY <1>2, <2>4, <2>5, <2>7 DEF Clocked, KeepsPlane
  <2> QED
    BY <1>2, <2>3, <2>5, <2>6, <2>8 DEF OverlayEnable, e, b, a
<1> QED
  BY <1>1, <1>2

\* overlayfb_set_par leaves the plane blended exactly if it is unblanked.
LEMMA OverlaySetParFacts ==
    ASSUME NEW d, Typed(d), Powered(d), NEW out \in Results
    PROVE  LET e == OverlaySetPar(d, out)
           IN  /\ Typed(e) /\ Powered(e) /\ KeepsPicture(e, d) /\ KeepsPlane(e, d)
               /\ e.as = e.ovon
<1> DEFINE d1 == ClocksOn(d)
           d2 == IF d.ovon THEN OverlayDisable(d1, "driver") ELSE d1
           d3 == OverlaySetup(d2)
           d4 == IF d.ovon THEN OverlayEnable(d3, out) ELSE d3
           e == ClocksOff(d4)
<1>1. Typed(d1) /\ Clocked(d1) /\ KeepsPicture(d1, d) /\ KeepsPlane(d1, d)
  BY ClocksOnFacts
<1> HIDE DEF d1
<1>2. Typed(d2) /\ Clocked(d2) /\ KeepsPicture(d2, d1) /\ KeepsPlane(d2, d1)
  BY <1>1, BlendFacts DEF OverlayDisable, KeepsPicture, KeepsPlane
<1> HIDE DEF d2
<1>3. Typed(d3) /\ Clocked(d3) /\ KeepsPicture(d3, d2) /\ KeepsPlane(d3, d2) /\ d3.as = FALSE
  BY <1>2, BlendFacts DEF OverlaySetup
<1> HIDE DEF d3
<1>4. /\ Typed(d4) /\ Clocked(d4) /\ KeepsPicture(d4, d3) /\ KeepsPlane(d4, d3)
      /\ d4.as = d.ovon
  <2>1. CASE d.ovon
    BY <2>1, <1>3, OverlayEnableFacts DEF Typed
  <2>2. CASE ~d.ovon
    BY <2>2, <1>3 DEF Typed, KeepsPicture, KeepsPlane
  <2> QED
    BY <2>1, <2>2
<1> HIDE DEF d4
<1>5. /\ Typed(e) /\ Powered(e) /\ KeepsPicture(e, d4) /\ KeepsPlane(e, d4)
      /\ e.as = d4.as
  BY <1>4, ClocksOffFacts
<1> HIDE DEF e
<1>6. KeepsPicture(e, d)
  BY <1>1, <1>2, <1>3, <1>4, <1>5, KeepsTransitive
<1>7. KeepsPlane(e, d)
  BY <1>1, <1>2, <1>3, <1>4, <1>5, KeepsTransitive
<1>8. e.as = e.ovon
  BY <1>4, <1>5, <1>7 DEF KeepsPlane
<1> QED
  BY <1>5, <1>6, <1>7, <1>8 DEF OverlaySetPar, e, d4, d3, d2, d1

\* overlayfb_blank blends the plane as its new blank state says.
LEMMA OverlayBlankFacts ==
    ASSUME NEW d, Typed(d), Powered(d), d.as = d.ovon, NEW to \in BOOLEAN, NEW out \in Results
    PROVE  LET e == OverlayBlank(d, to, out)
           IN  /\ Typed(e) /\ Powered(e) /\ KeepsPicture(e, d)
               /\ e.as = e.ovon /\ e.asleep = d.asleep /\ e.blanked = d.blanked
<1> DEFINE d1 == ClocksOn(d)
           d2 == IF to THEN OverlayEnable(d1, out) ELSE OverlayDisable(d1, "driver")
           d3 == ClocksOff(d2)
           e == [d3 EXCEPT !.ovon = to]
<1>1. Typed(d1) /\ Clocked(d1) /\ KeepsPicture(d1, d) /\ KeepsPlane(d1, d)
  BY ClocksOnFacts
<1> HIDE DEF d1
<1>2. /\ Typed(d2) /\ Clocked(d2) /\ KeepsPicture(d2, d1) /\ KeepsPlane(d2, d1)
      /\ d2.as = to
  <2>1. CASE to = TRUE
    BY <2>1, <1>1, OverlayEnableFacts DEF Typed
  <2>2. CASE to = FALSE
    BY <2>2, <1>1, BlendFacts DEF OverlayDisable
  <2> QED
    BY <2>1, <2>2
<1> HIDE DEF d2
<1>3. /\ Typed(d3) /\ Powered(d3) /\ KeepsPicture(d3, d2) /\ KeepsPlane(d3, d2)
      /\ d3.as = d2.as
  BY <1>2, ClocksOffFacts
<1> HIDE DEF d3
<1>4. /\ Typed(e) /\ KeepsPicture(e, d3) /\ KeepsPower(e, d3)
      /\ e.as = d3.as /\ e.ovon = to /\ e.asleep = d3.asleep
  BY <1>3 DEF Typed, Fields, KeepsPicture, KeepsPower
<1> HIDE DEF e
<1>5. Powered(e)
  BY <1>3, <1>4 DEF Powered, KeepsPower
<1>6. KeepsPicture(e, d)
  BY <1>1, <1>2, <1>3, <1>4, KeepsTransitive
<1>7. e.as = e.ovon /\ e.asleep = d.asleep /\ e.blanked = d.blanked
  BY <1>1, <1>2, <1>3, <1>4 DEF KeepsPlane, KeepsPower
<1>8. CASE d.ovon = to
  BY <1>8 DEF OverlayBlank, KeepsPicture
<1>9. CASE d.ovon # to
  BY <1>9, <1>4, <1>5, <1>6, <1>7 DEF OverlayBlank, e, d3, d2, d1
<1> QED
  BY <1>8, <1>9

\* overlayfb_release, of the last user and of any other.
LEMMA OverlayReleaseFacts ==
    ASSUME NEW d, Typed(d), Powered(d), d.as = d.ovon, d.usage > 0
    PROVE  LET e == OverlayRelease(d)
           IN  /\ Typed(e) /\ Powered(e) /\ KeepsPicture(e, d)
               /\ e.as = e.ovon /\ e.asleep = d.asleep /\ e.blanked = d.blanked
<1>1. CASE d.usage = 1
  <2> DEFINE d1 == IF d.ovon THEN OverlayDisable(d, "release") ELSE d
             e == [d1 EXCEPT !.usage = 0, !.ovon = FALSE]
  <2>1. /\ Typed(d1) /\ Powered(d1) /\ KeepsPicture(d1, d) /\ d1.as = FALSE
        /\ d1.asleep = d.asleep /\ d1.blanked = d.blanked
    <3>1. CASE d.ovon
      <4> DEFINE t == Touch(d, "release")
                 u == [t EXCEPT !.as = FALSE]
      <4>1. Typed(t) /\ KeepsPicture(t, d) /\ KeepsOverlay(t, d) /\ Powered(t)
        BY TouchFacts DEF Lapses
      <4>2. t.blanked = d.blanked
        BY DEF Touch, Typed, Fields
      <4> HIDE DEF t
      <4>3. /\ Typed(u) /\ KeepsPicture(u, t) /\ KeepsPower(u, t)
            /\ u.as = FALSE /\ u.asleep = t.asleep
        BY <4>1 DEF Typed, Fields, KeepsPicture, KeepsPower
      <4> HIDE DEF u
      <4>4. Powered(u) /\ u.blanked = d.blanked
        BY <4>1, <4>2, <4>3 DEF Powered, KeepsPower
      <4>5. KeepsPicture(u, d) /\ u.asleep = d.asleep
        BY <4>1, <4>3, KeepsTransitive DEF KeepsOverlay
      <4>6. d1 = u
        BY <3>1 DEF OverlayDisable, u, t
      <4> QED
        BY <4>3, <4>4, <4>5, <4>6
    <3>2. CASE ~d.ovon
      BY <3>2 DEF KeepsPicture, Typed
    <3> QED
      BY <3>1, <3>2
  <2> HIDE DEF d1
  <2>2. /\ Typed(e) /\ KeepsPicture(e, d1) /\ KeepsPower(e, d1)
        /\ e.as = d1.as /\ e.ovon = FALSE /\ e.asleep = d1.asleep
    BY <2>1, DisplayAssumption DEF Typed, Fields, KeepsPicture, KeepsPower
  <2> HIDE DEF e
  <2>3. Powered(e) /\ e.blanked = d.blanked
    BY <2>1, <2>2 DEF Powered, KeepsPower
  <2>4. KeepsPicture(e, d)
    BY <2>1, <2>2, KeepsTransitive
  <2> QED
    BY <1>1, <2>1, <2>2, <2>3, <2>4 DEF OverlayRelease, e, d1
<1>2. CASE d.usage # 1
  <2> DEFINE e == [d EXCEPT !.usage = @ - 1]
  <2>1. DOMAIN e = Fields /\ e.usage = d.usage - 1 /\ KeepsPower(e, d) /\ KeepsPicture(e, d)
    BY DEF Typed, Fields, KeepsPicture, KeepsPower
  <2>2. d.usage - 1 \in 0 .. MaxOpen
    BY DisplayAssumption DEF Typed
  <2>3. Typed(e) /\ e.as = d.as /\ e.ovon = d.ovon /\ e.asleep = d.asleep
    BY <2>2 DEF Typed, Fields
  <2> HIDE DEF e
  <2>4. Powered(e) /\ e.blanked = d.blanked
    BY <2>1 DEF Powered, KeepsPower
  <2> QED
    BY <1>2, <2>1, <2>3, <2>4 DEF OverlayRelease, e
<1> QED
  BY <1>1, <1>2

\* Suspend saves the blending of the overlay,
LEMMA SaveOverlayFacts ==
    ASSUME NEW d, Typed(d), Powered(d)
    PROVE  LET e == SaveOverlay(d)
           IN  /\ Typed(e) /\ Powered(e) /\ KeepsPicture(e, d)
               /\ e.savedAs = d.as /\ e.ovon = d.ovon /\ e.blanked = d.blanked
<1> DEFINE d1 == ClocksOn(d)
           d2 == Touch(d1, "driver")
           d3 == ClocksOff(d2)
           e == [d3 EXCEPT !.savedAs = d.as]
<1>1. Typed(d1) /\ Clocked(d1) /\ KeepsPicture(d1, d) /\ KeepsPlane(d1, d)
  BY ClocksOnFacts
<1> HIDE DEF d1
<1>2. Typed(d2) /\ Clocked(d2) /\ KeepsPicture(d2, d1) /\ KeepsPlane(d2, d1)
  BY <1>1 DEF Typed, Fields, Touch, Clocked, KeepsPicture, KeepsPlane, Lapses
<1> HIDE DEF d2
<1>3. Typed(d3) /\ Powered(d3) /\ KeepsPicture(d3, d2) /\ KeepsPlane(d3, d2)
  BY <1>2, ClocksOffFacts
<1> HIDE DEF d3
<1>4. d.as \in BOOLEAN
  BY DEF Typed
<1>5. /\ Typed(e) /\ KeepsPicture(e, d3) /\ KeepsPower(e, d3)
      /\ e.savedAs = d.as /\ e.ovon = d3.ovon
  BY <1>3, <1>4 DEF Typed, Fields, KeepsPicture, KeepsPower
<1> HIDE DEF e
<1>6. Powered(e) /\ e.blanked = d.blanked /\ e.ovon = d.ovon
  BY <1>1, <1>2, <1>3, <1>5 DEF Powered, KeepsPower, KeepsPlane
<1>7. KeepsPicture(e, d)
  BY <1>1, <1>2, <1>3, <1>5, KeepsTransitive
<1> QED
  BY <1>5, <1>6, <1>7 DEF SaveOverlay, e, d3, d2, d1

\* and resume writes it back.
LEMMA RestoreOverlayFacts ==
    ASSUME NEW d, Typed(d), Powered(d)
    PROVE  LET e == RestoreOverlay(d)
           IN  /\ Typed(e) /\ Powered(e) /\ KeepsPicture(e, d)
               /\ e.as = d.savedAs /\ e.ovon = d.ovon /\ e.blanked = d.blanked
<1> DEFINE d1 == ClocksOn(d)
           d2 == Touch(d1, "driver")
           d3 == [d2 EXCEPT !.as = d.savedAs, !.savedAs = FALSE]
           e == ClocksOff(d3)
<1>1. Typed(d1) /\ Clocked(d1) /\ KeepsPicture(d1, d) /\ KeepsPlane(d1, d)
  BY ClocksOnFacts
<1> HIDE DEF d1
<1>2. Typed(d2) /\ Clocked(d2) /\ KeepsPicture(d2, d1) /\ KeepsPlane(d2, d1)
  BY <1>1 DEF Typed, Fields, Touch, Clocked, KeepsPicture, KeepsPlane, Lapses
<1> HIDE DEF d2
<1>3. d.savedAs \in BOOLEAN
  BY DEF Typed
<1>4. /\ Typed(d3) /\ KeepsPicture(d3, d2) /\ KeepsPower(d3, d2)
      /\ d3.as = d.savedAs /\ d3.ovon = d2.ovon
  BY <1>2, <1>3 DEF Typed, Fields, KeepsPicture, KeepsPower
<1> HIDE DEF d3
<1>5. Clocked(d3) /\ d3.blanked = d2.blanked
  BY <1>2, <1>4 DEF Clocked, KeepsPower
<1>6. /\ Typed(e) /\ Powered(e) /\ KeepsPicture(e, d3) /\ KeepsPlane(e, d3)
      /\ e.as = d3.as
  BY <1>4, <1>5, ClocksOffFacts
<1> HIDE DEF e
<1>7. e.as = d.savedAs /\ e.ovon = d.ovon /\ e.blanked = d.blanked
  BY <1>1, <1>2, <1>4, <1>5, <1>6 DEF KeepsPlane
<1>8. KeepsPicture(e, d)
  BY <1>1, <1>2, <1>4, <1>6, KeepsTransitive
<1> QED
  BY <1>6, <1>7, <1>8 DEF RestoreOverlay, e, d3, d2, d1

\* Blanking gives back what unblanking took, if it took it.
LEMMA PowerdownFacts ==
    ASSUME NEW d, Typed(d), Powered(d)
    PROVE  LET e == Powerdown(d)
           IN  /\ Typed(e) /\ Powered(e) /\ KeepsOverlay(e, d) /\ e.blanked
               /\ e.mode = d.mode /\ e.yoff = d.yoff
               /\ Waited(d) => Waited(e)
<1> DEFINE d1 == [d EXCEPT !.blanked = TRUE]
           a == DisableController(d1)
           d2 == IF d.enabled = 1 THEN [a EXCEPT !.pm = @ - 1] ELSE d1
           e == [d2 EXCEPT !.clk = FALSE]
<1>1. /\ Typed(d1) /\ KeepsPicture(d1, d) /\ KeepsOverlay(d1, d) /\ d1.blanked
      /\ d1.hist = d.hist /\ d1.hung = d.hung /\ d1.clk = d.clk
      /\ d1.enabled = d.enabled /\ d1.reg = d.reg /\ d1.pm = d.pm /\ d1.run = d.run
  BY DEF Typed, Fields, KeepsPicture, KeepsOverlay
<1> HIDE DEF d1
<1>2. /\ Typed(d2) /\ KeepsPicture(d2, d) /\ KeepsOverlay(d2, d) /\ d2.blanked
      /\ d2.hist = d.hist /\ (d.clk \/ d.enabled = 0 => d2.hung = d.hung) /\ d2.enabled = 0
      /\ d.enabled = 1 => d2.reg = d.reg - 1 /\ d2.pm = d.pm - 1 /\ ~d2.run
      /\ d.enabled = 0 => d2.reg = d.reg /\ d2.pm = d.pm /\ d2.run = d.run
  <2>1. CASE d.enabled = 1
    <3> DEFINE f == [a EXCEPT !.pm = @ - 1]
    <3>1. /\ Typed(a) /\ KeepsPicture(a, d1) /\ KeepsOverlay(a, d1)
          /\ a.blanked = d1.blanked /\ a.pm = d1.pm /\ a.clk = d1.clk
          /\ a.hist = d1.hist /\ ~a.run /\ a.enabled = 0 /\ a.reg = d1.reg - 1
          /\ d1.clk => a.hung = d1.hung
      BY <1>1, DisableFacts
    <3> HIDE DEF a
    <3>2. /\ Typed(f) /\ KeepsPicture(f, a) /\ KeepsOverlay(f, a)
          /\ f.blanked = a.blanked /\ f.pm = a.pm - 1 /\ f.hist = a.hist
          /\ f.run = a.run /\ f.enabled = a.enabled /\ f.reg = a.reg /\ f.hung = a.hung
      BY <3>1 DEF Typed, Fields, KeepsPicture, KeepsOverlay
    <3> HIDE DEF f
    <3>3. d2 = f
      BY <2>1 DEF f
    <3> HIDE DEF d2
    <3>4. KeepsPicture(f, d)
      BY <1>1, <3>1, <3>2, KeepsTransitive
    <3>5. KeepsOverlay(f, d)
      BY <1>1, <3>1, <3>2 DEF KeepsOverlay
    <3>6. /\ f.blanked /\ f.hist = d.hist /\ (d.clk => f.hung = d.hung)
          /\ f.enabled = 0 /\ f.reg = d.reg - 1 /\ f.pm = d.pm - 1 /\ ~f.run
      BY <1>1, <3>1, <3>2
    <3> QED
      BY <2>1, <3>2, <3>3, <3>4, <3>5, <3>6
  <2>2. CASE d.enabled = 0
    BY <2>2, <1>1
  <2> QED
    BY <2>1, <2>2 DEF Typed
<1> HIDE DEF d2
<1>3. /\ Typed(e) /\ KeepsPicture(e, d2) /\ KeepsOverlay(e, d2) /\ e.clk = FALSE
      /\ e.blanked = d2.blanked /\ e.hist = d2.hist /\ e.hung = d2.hung
      /\ e.enabled = d2.enabled /\ e.reg = d2.reg /\ e.pm = d2.pm /\ e.run = d2.run
  BY <1>2 DEF Typed, Fields, KeepsPicture, KeepsOverlay
<1> HIDE DEF e
<1>4. d.reg \in Int /\ d.pm \in Int /\ d.enabled \in {0, 1} /\ e.run \in BOOLEAN
  BY <1>3 DEF Typed
<1>5. Powered(e)
  <2>1. /\ e.enabled = 0 /\ e.blanked /\ ~e.clk /\ e.hist = d.hist
        /\ e.blanked \in BOOLEAN /\ e.clk \in BOOLEAN
    BY <1>2, <1>3 DEF Typed
  <2>2. "failed" \notin d.hist => e.hung \in Lapses
    BY <1>2, <1>3, <1>4 DEF Powered
  <2>3. "failed" \notin d.hist /\ ~WarmBoot => e.reg = 0 /\ e.pm = 0 /\ ~e.run
    BY <1>2, <1>3, <1>4 DEF Powered
  <2>4. /\ e.enabled = 1 => ~e.blanked
        /\ e.clk = ~e.blanked
        /\ e.blanked \/ e.enabled = 1
    BY <2>1
  <2>5. "failed" \notin e.hist /\ ~WarmBoot =>
           e.reg = e.enabled /\ e.pm = e.enabled /\ e.run = (e.enabled = 1)
    BY <2>1, <2>3, <1>4
  <2> QED
    BY <2>1, <2>2, <2>4, <2>5 DEF Powered
<1>6. KeepsPicture(e, d)
  BY <1>2, <1>3, KeepsTransitive
<1>7. KeepsOverlay(e, d)
  BY <1>2, <1>3 DEF KeepsOverlay
<1>8. Waited(d) => Waited(e)
  BY <1>6, KeepsShown
<1>9. e.mode = d.mode /\ e.yoff = d.yoff
  BY <1>6 DEF KeepsPicture
<1> QED
  BY <1>2, <1>3, <1>5, <1>7, <1>8, <1>9 DEF Powerdown, e, d2, a, d1

\* Unblanking takes one of each reference, and programs the mode set meanwhile.
LEMMA UnblankFacts ==
    ASSUME NEW d, Typed(d), Powered(d), NEW out \in Results
    PROVE  LET e == Unblank(d, out)
           IN  /\ Typed(e) /\ Powered(e) /\ KeepsOverlay(e, d) /\ ~e.blanked
               /\ e.mode = d.mode /\ e.yoff = d.yoff
               /\ Waited(d) => Waited(e)
               /\ Shown(d, d.yoff) => Shown(e, e.yoff)
<1> DEFINE d1 == [d EXCEPT !.blanked = FALSE, !.force = TRUE, !.clk = TRUE]
           q == [d1 EXCEPT !.pm = @ + 1, !.hw = NoMode]
           r == SetPar(q, "ok")
           d2 == IF r.err THEN Note(r.dev, "lost") ELSE r.dev
           e == EnableController(d2, out)
<1>1. /\ Typed(d1) /\ KeepsPicture(d1, d) /\ KeepsOverlay(d1, d) /\ ~d1.blanked
      /\ d1.clk /\ d1.force /\ d1.hist = d.hist /\ d1.hung = d.hung
      /\ d1.enabled = d.enabled /\ d1.reg = d.reg /\ d1.pm = d.pm /\ d1.run = d.run
  BY DEF Typed, Fields, KeepsPicture, KeepsOverlay
<1> HIDE DEF d1
<1>2. CASE d.enabled = 1
  <2>1. Unblank(d, out) = d1
    BY <1>2 DEF Unblank, d1
  <2>2. Powered(d1)
    BY <1>1, <1>2 DEF Powered
  <2>3. /\ Waited(d) => Waited(d1)
        /\ d1.blanked = d.blanked /\ Shown(d, d.yoff) => Shown(d1, d.yoff)
    BY <1>1, KeepsShown
  <2>4. d1.blanked = d.blanked
    BY <1>1, <1>2 DEF Powered, Typed
  <2>5. d1.mode = d.mode /\ d1.yoff = d.yoff
    BY <1>1 DEF KeepsPicture
  <2> QED
    BY <2>1, <2>2, <2>3, <2>4, <2>5, <1>1
<1>3. CASE d.enabled = 0
  <2>1. /\ Typed(q) /\ KeepsOverlay(q, d1) /\ ~q.blanked /\ q.clk /\ q.force
        /\ q.hist = d.hist /\ q.hung = d.hung /\ q.enabled = 0 /\ q.reg = d.reg
        /\ q.pm = d.pm + 1 /\ q.mode = d.mode /\ q.yoff = d.yoff
        /\ q.en = d.en /\ q.wait4 = d.wait4
    <3>1. Typed(q)
      <4> DEFINE p == [d1 EXCEPT !.pm = @ + 1]
      <4>1. DOMAIN p = Fields /\ p.pm = d1.pm + 1
        BY <1>1 DEF Typed, Fields
      <4>2. d1.pm + 1 \in Int
        BY <1>1 DEF Typed
      <4>3. p = [d1 EXCEPT !.pm = d1.pm + 1] /\ q = [p EXCEPT !.hw = NoMode]
        OBVIOUS
      <4> HIDE DEF p, q
      <4>4. Typed(p)
        BY <1>1, <4>1, <4>2, <4>3 DEF Typed, Fields
      <4> QED
        BY <4>3, <4>4 DEF Typed, Fields
    <3>2. /\ KeepsOverlay(q, d1) /\ q.blanked = d1.blanked /\ q.clk = d1.clk
          /\ q.force = d1.force /\ q.hist = d1.hist /\ q.hung = d1.hung
          /\ q.enabled = d1.enabled /\ q.reg = d1.reg /\ q.pm = d1.pm + 1
          /\ q.mode = d1.mode /\ q.yoff = d1.yoff /\ q.en = d1.en /\ q.wait4 = d1.wait4
      BY <1>1 DEF Typed, Fields, KeepsOverlay
    <3> HIDE DEF q
    <3> QED
      BY <1>1, <1>3, <3>1, <3>2 DEF KeepsPicture
  <2> HIDE DEF q
  <2> DEFINE f == r.dev
  <2>2. /\ Typed(f) /\ KeepsOverlay(f, q) /\ r.err \in BOOLEAN
        /\ f.blanked = q.blanked /\ f.pm = q.pm /\ f.mode = q.mode /\ f.yoff = q.yoff
        /\ "failed" \in q.hist => "failed" \in f.hist
        /\ f.hung = q.hung /\ f.clk /\ f.enabled = 0 /\ f.reg = q.reg
        /\ Waited(q) => Waited(f)
        /\ r.err \/ Programmed(f, q)
    BY <2>1, SetParFacts DEF Results, ParEqual
  <2> HIDE DEF r, f
  <2>3. /\ Typed(d2) /\ KeepsOverlay(d2, f) /\ d2.blanked = f.blanked /\ d2.pm = f.pm
        /\ d2.mode = f.mode /\ d2.yoff = f.yoff /\ d2.hung = f.hung /\ d2.clk = f.clk
        /\ d2.enabled = f.enabled /\ d2.reg = f.reg
        /\ "failed" \in f.hist => "failed" \in d2.hist
        /\ Waited(f) => Waited(d2)
        /\ "lost" \in d2.hist \/ (Programmed(f, q) /\ d2 = f)
    <3>1. CASE ~r.err
      BY <3>1, <2>2 DEF f, Typed, KeepsOverlay
    <3>2. CASE r.err
      <4>1. d2 = [f EXCEPT !.hist = @ \cup {"lost"}]
        BY <3>2 DEF Note, f
      <4> HIDE DEF d2
      <4> QED
        BY <2>2, <4>1 DEF Typed, Fields, KeepsOverlay, Waited, Errors
    <3> QED
      BY <3>1, <3>2
  <2> HIDE DEF d2
  <2>4. /\ Typed(e) /\ KeepsPicture(e, d2) /\ KeepsOverlay(e, d2)
        /\ e.blanked = d2.blanked /\ e.pm = d2.pm /\ e.hung = d2.hung
        /\ out = "ok" => /\ e.clk /\ e.run /\ e.enabled = 1
                         /\ e.reg = d2.reg + 1 /\ e.hist = d2.hist
        /\ out # "ok" => "failed" \in e.hist /\ e.enabled = d2.enabled
    BY <2>3, EnableFacts
  <2> HIDE DEF e
  <2>5. Waited(d) => Waited(e)
    <3>1. Waited(d) => Waited(q)
      BY <2>1 DEF Waited
    <3>2. Waited(d2) => Waited(e)
      BY <2>4, KeepsShown
    <3> QED
      BY <3>1, <3>2, <2>2, <2>3
  <2>6. "failed" \notin e.hist =>
           /\ "failed" \notin d.hist /\ e.clk /\ e.run /\ e.enabled = 1
           /\ e.reg = d.reg + 1 /\ e.pm = d.pm + 1 /\ e.hung = d.hung
    BY <2>1, <2>2, <2>3, <2>4
  <2>7. ~e.blanked
    BY <2>1, <2>2, <2>3, <2>4
  <2>8. Powered(e)
    BY <1>3, <2>4, <2>6, <2>7 DEF Powered, Typed
  <2>9. KeepsOverlay(e, d)
    BY <1>1, <2>1, <2>2, <2>3, <2>4 DEF KeepsOverlay
  <2>10. e.mode = d.mode /\ e.yoff = d.yoff
    BY <2>1, <2>2, <2>3, <2>4 DEF KeepsPicture
  <2>11. Shown(e, e.yoff)
    <3>1. CASE "lost" \in d2.hist
      BY <3>1, <2>4 DEF KeepsPicture, Shown
    <3>2. CASE Programmed(f, q) /\ d2 = f
      BY <3>2, <2>1, <2>4, <2>10 DEF KeepsPicture, Shown, Programmed
    <3> QED
      BY <2>3, <3>1, <3>2
  <2>12. Unblank(d, out) = e
    BY <1>3 DEF Unblank, e, d2, r, q, d1
  <2> QED
    BY <2>4, <2>5, <2>7, <2>8, <2>9, <2>10, <2>11, <2>12
<1> QED
  BY <1>2, <1>3 DEF Typed

\* mxsfb_set_par does not disturb the balance.
LEMMA SetParPowered ==
    ASSUME NEW d, Typed(d), Powered(d), NEW out \in Results
    PROVE  Powered(SetPar(d, out).dev)
<1> DEFINE e == SetPar(d, out).dev
<1> SUFFICES Powered(e)
  OBVIOUS
<1>1. /\ Typed(e) /\ e.blanked = d.blanked /\ e.pm = d.pm
      /\ "failed" \in d.hist => "failed" \in e.hist
      /\ d.clk \/ d.blanked => e.hung = d.hung
      /\ d.enabled = 0 => /\ d.clk = e.clk /\ e.run = d.run /\ e.enabled = 0
                          /\ e.reg = d.reg
                          /\ "failed" \in e.hist => "failed" \in d.hist
      /\ d.enabled = 1 /\ "failed" \notin e.hist =>
            /\ e.enabled = 1 /\ e.reg = d.reg
            /\ d.clk => e.clk
            /\ d.run => e.run
  BY SetParFacts
<1> HIDE DEF e
<1>2. /\ d.run \in BOOLEAN /\ d.clk \in BOOLEAN /\ d.blanked \in BOOLEAN
      /\ e.run \in BOOLEAN /\ e.clk \in BOOLEAN /\ e.blanked \in BOOLEAN
  BY <1>1 DEF Typed
<1>3. CASE d.enabled = 1
  <2>1. ~e.blanked
    BY <1>1, <1>3 DEF Powered
  <2>2. "failed" \notin e.hist => e.clk /\ e.enabled = 1 /\ e.hung \in Lapses
    BY <1>1, <1>3 DEF Powered
  <2>3. "failed" \notin e.hist /\ ~WarmBoot => e.reg = 1 /\ e.pm = 1 /\ e.run
    BY <1>1, <1>2, <1>3 DEF Powered
  <2>4. "failed" \notin e.hist => e.clk = ~e.blanked
    BY <2>1, <2>2, <1>2
  <2>5. "failed" \notin e.hist /\ ~WarmBoot =>
           e.reg = e.enabled /\ e.pm = e.enabled /\ e.run = (e.enabled = 1)
    BY <2>2, <2>3, <1>2
  <2> QED
    BY <2>1, <2>2, <2>4, <2>5 DEF Powered
<1>4. CASE d.enabled = 0
  <2>1. "failed" \notin e.hist => ~e.clk /\ e.blanked /\ e.hung \in Lapses
    BY <1>1, <1>2, <1>4 DEF Powered
  <2>2. "failed" \notin e.hist /\ ~WarmBoot => e.reg = 0 /\ e.pm = 0 /\ ~e.run
    BY <1>1, <1>2, <1>4 DEF Powered
  <2>3. e.enabled = 0
    BY <1>1, <1>4
  <2>4. "failed" \notin e.hist => e.clk = ~e.blanked
    BY <2>1, <1>2
  <2>5. "failed" \notin e.hist /\ ~WarmBoot =>
           e.reg = e.enabled /\ e.pm = e.enabled /\ e.run = (e.enabled = 1)
    BY <2>2, <2>3, <1>2
  <2> QED
    BY <2>1, <2>3, <2>4, <2>5 DEF Powered
<1> QED
  BY <1>3, <1>4 DEF Typed

\* A pan of the primary plane up to its wait.
LEMMA StartPanFacts ==
    ASSUME NEW d, Typed(d), Powered(d), ~d.blanked, NEW y
    PROVE  LET e == StartPan(d, y)
           IN  /\ Typed(e) /\ Powered(e) /\ KeepsOverlay(e, d) /\ e.blanked = d.blanked
               /\ e.hw = d.hw /\ e.mode = d.mode /\ e.oldmode = d.oldmode
               /\ e.line = d.line /\ e.yoff = d.yoff /\ e.next = d.line * y
               /\ e.hist = d.hist
               /\ Waited(d) => Waited(e)
<1> DEFINE t == Touch(d, "driver")
           u == [t EXCEPT !.en = @ \cup {"flip"}]
           e == StartPan(d, y)
<1>1. Typed(t) /\ KeepsPicture(t, d) /\ KeepsOverlay(t, d) /\ (d.clk => KeepsPower(t, d))
  BY TouchFacts
<1>2. t.blanked = d.blanked /\ t.hist = d.hist /\ t.enabled = d.enabled
  BY DEF Touch, Typed, Fields
<1>3. Powered(t)
  BY <1>1, <1>2 DEF Powered, KeepsPower
<1>4. e = [t EXCEPT !.next = d.line * y, !.fdone = FALSE, !.en = @ \cup {"flip"}]
  BY DEF StartPan
<1> HIDE DEF t, e
<1>5. t.en \cup {"flip"} \subseteq Events
  BY <1>1 DEF Typed, Events
<1>6. /\ DOMAIN e = Fields /\ e.en = t.en \cup {"flip"} /\ KeepsPower(e, t)
      /\ KeepsOverlay(e, t) /\ e.hw = t.hw /\ e.mode = t.mode /\ e.oldmode = t.oldmode
      /\ e.line = t.line /\ e.yoff = t.yoff /\ e.next = d.line * y
      /\ e.hist = t.hist /\ e.wait4 = t.wait4 /\ e.restore = t.restore
      /\ e.bypass = t.bypass /\ e.st = t.st
  BY <1>1, <1>4 DEF Typed, Fields, KeepsPower, KeepsOverlay
<1>7. Typed(e)
  BY <1>1, <1>5, <1>6 DEF Typed, KeepsPower, KeepsOverlay
<1>8. Powered(e) /\ e.blanked = d.blanked
  BY <1>2, <1>3, <1>6 DEF Powered, KeepsPower
<1>9. KeepsOverlay(e, d)
  BY <1>1, <1>6 DEF KeepsOverlay
<1>10. Waited(d) => Waited(e)
  BY <1>1, <1>2, <1>6 DEF Waited, KeepsPicture
<1>11. /\ e.hw = d.hw /\ e.mode = d.mode /\ e.oldmode = d.oldmode
       /\ e.line = d.line /\ e.yoff = d.yoff /\ e.hist = d.hist
  BY <1>1, <1>2, <1>6 DEF KeepsPicture
<1> QED
  BY <1>6, <1>7, <1>8, <1>9, <1>10, <1>11 DEF e

\* A pan of the overlay up to its wait.
LEMMA StartOverlayPanFacts ==
    ASSUME NEW d, Typed(d), Powered(d), ~d.blanked
    PROVE  LET e == StartOverlayPan(d)
           IN  /\ Typed(e) /\ Powered(e) /\ KeepsOverlay(e, d) /\ e.blanked = d.blanked
               /\ e.hw = d.hw /\ e.mode = d.mode /\ e.oldmode = d.oldmode
               /\ e.line = d.line /\ e.yoff = d.yoff /\ e.next = d.next
               /\ e.hist = d.hist
               /\ Waited(d) => Waited(e)
<1> DEFINE t == Touch(d, "driver")
           e == StartOverlayPan(d)
<1>1. Typed(t) /\ KeepsPicture(t, d) /\ KeepsOverlay(t, d) /\ (d.clk => KeepsPower(t, d))
  BY TouchFacts
<1>2. t.blanked = d.blanked /\ t.hist = d.hist /\ t.enabled = d.enabled
  BY DEF Touch, Typed, Fields
<1>3. Powered(t)
  BY <1>1, <1>2 DEF Powered, KeepsPower
<1>4. e = [t EXCEPT !.fdone = FALSE, !.en = @ \cup {"flip"}]
  BY DEF StartOverlayPan
<1> HIDE DEF t, e
<1>5. t.en \cup {"flip"} \subseteq Events
  BY <1>1 DEF Typed, Events
<1>6. /\ DOMAIN e = Fields /\ e.en = t.en \cup {"flip"} /\ KeepsPower(e, t)
      /\ KeepsOverlay(e, t) /\ e.hw = t.hw /\ e.mode = t.mode /\ e.oldmode = t.oldmode
      /\ e.line = t.line /\ e.yoff = t.yoff /\ e.next = t.next
      /\ e.hist = t.hist /\ e.wait4 = t.wait4 /\ e.restore = t.restore
      /\ e.bypass = t.bypass /\ e.st = t.st
  BY <1>1, <1>4 DEF Typed, Fields, KeepsPower, KeepsOverlay
<1>7. Typed(e)
  BY <1>1, <1>5, <1>6 DEF Typed, KeepsPower, KeepsOverlay
<1>8. Powered(e) /\ e.blanked = d.blanked
  BY <1>2, <1>3, <1>6 DEF Powered, KeepsPower
<1>9. KeepsOverlay(e, d)
  BY <1>1, <1>6 DEF KeepsOverlay
<1>10. Waited(d) => Waited(e)
  BY <1>1, <1>2, <1>6 DEF Waited, KeepsPicture
<1>11. /\ e.hw = d.hw /\ e.mode = d.mode /\ e.oldmode = d.oldmode
       /\ e.line = d.line /\ e.yoff = d.yoff /\ e.next = d.next /\ e.hist = d.hist
  BY <1>1, <1>2, <1>6 DEF KeepsPicture
<1> QED
  BY <1>7, <1>8, <1>9, <1>10, <1>11 DEF e

\* mxsfb_suspend leaves a blanked controller and a saved overlay,
LEMMA SuspendFacts ==
    ASSUME NEW d, Typed(d), Powered(d), d.as = d.ovon
    PROVE  LET e == SuspendDevice(d)
           IN  Typed(e) /\ Powered(e) /\ Waited(e) /\ Blended(e) /\ e.asleep /\ e.blanked
<1> DEFINE s == SaveOverlay(d)
           p == Powerdown(s)
           e == SuspendDevice(d)
<1>1. /\ Typed(s) /\ Powered(s) /\ s.savedAs = d.as /\ s.ovon = d.ovon
  BY SaveOverlayFacts
<1> HIDE DEF s
<1>2. Typed(p) /\ Powered(p) /\ KeepsOverlay(p, s) /\ p.blanked
  BY <1>1, PowerdownFacts
<1>3. e = [p EXCEPT !.restore = d.blanked, !.asleep = TRUE, !.hw = NoMode,
                    !.next = 0, !.as = FALSE, !.en = {}, !.st = {}]
  BY DEF SuspendDevice, p, s
<1> HIDE DEF p, e
<1>4. d.blanked \in BOOLEAN
  BY DEF Typed
<1>5. /\ DOMAIN e = Fields /\ KeepsPower(e, p) /\ e.savedAs = p.savedAs
      /\ e.ovon = p.ovon /\ e.usage = p.usage /\ e.asleep /\ e.asleep \in BOOLEAN
      /\ e.restore = d.blanked /\ e.as = FALSE /\ e.en = {} /\ e.st = {}
      /\ e.bypass = p.bypass /\ e.wait4 = p.wait4
  BY <1>2, <1>3 DEF Typed, Fields, KeepsPower
<1>6. Typed(e)
  BY <1>2, <1>4, <1>5 DEF Typed, KeepsPower
<1>7. Powered(e) /\ e.blanked
  BY <1>2, <1>5 DEF Powered, KeepsPower
<1>8. Blended(e)
  BY <1>1, <1>2, <1>5, <1>7 DEF Blended, KeepsOverlay
<1>9. Waited(e)
  BY <1>5 DEF Waited
<1> QED
  BY <1>5, <1>6, <1>7, <1>8, <1>9 DEF e

\* from which mxsfb_resume rebuilds the state before.
LEMMA ResumeFacts ==
    ASSUME NEW d, Typed(d), Powered(d), Waited(d), d.savedAs = d.ovon, d.blanked,
           NEW out \in Results
    PROVE  LET e == ResumeDevice(d, out)
           IN  /\ Typed(e) /\ Powered(e) /\ Waited(e) /\ Blended(e) /\ ~e.asleep
               /\ Shown(e, e.yoff)
<1> DEFINE s == RestoreOverlay(d)
           b == Blank(s, d.restore, out)
           e == ResumeDevice(d, out)
<1>1. /\ Typed(s) /\ Powered(s) /\ KeepsPicture(s, d) /\ s.as = d.savedAs
      /\ s.ovon = d.ovon /\ s.blanked = d.blanked
  BY RestoreOverlayFacts
<1>2. Waited(s) /\ Shown(s, s.yoff)
  BY <1>1, KeepsShown DEF Shown
<1> HIDE DEF s
<1>3. Typed(b) /\ Powered(b) /\ KeepsOverlay(b, s) /\ Waited(b) /\ Shown(b, b.yoff)
  <2>1. CASE d.restore
    <3>1. b = Powerdown(s)
      BY <2>1 DEF Blank
    <3> HIDE DEF b
    <3>2. Typed(b) /\ Powered(b) /\ KeepsOverlay(b, s) /\ b.blanked /\ Waited(b)
      BY <3>1, <1>1, <1>2, PowerdownFacts
    <3> QED
      BY <3>2 DEF Shown
  <2>2. CASE ~d.restore
    <3>1. b = Unblank(s, out)
      BY <2>2 DEF Blank
    <3> HIDE DEF b
    <3> QED
      BY <3>1, <1>1, <1>2, UnblankFacts
  <2> QED
    BY <2>1, <2>2
<1>4. e = [b EXCEPT !.asleep = FALSE, !.restore = FALSE]
  BY DEF ResumeDevice, b, s
<1> HIDE DEF b, e
<1>5. /\ Typed(e) /\ KeepsPicture(e, b) /\ KeepsPower(e, b)
      /\ e.as = b.as /\ e.ovon = b.ovon /\ ~e.asleep
  BY <1>3, <1>4 DEF Typed, Fields, KeepsPicture, KeepsPower
<1>6. Powered(e) /\ e.blanked = b.blanked /\ e.yoff = b.yoff
  BY <1>3, <1>5 DEF Powered, KeepsPower, KeepsPicture
<1>7. Waited(e) /\ Shown(e, e.yoff)
  BY <1>3, <1>5, <1>6, KeepsShown
<1>8. Blended(e)
  BY <1>1, <1>3, <1>5 DEF Blended, KeepsOverlay
<1> QED
  BY <1>5, <1>6, <1>7, <1>8 DEF e

\* The state that mxsfb_probe leaves, after a cold and after a warm boot.
LEMMA ProbeFacts ==
    ASSUME NEW warm \in BOOLEAN, warm = WarmBoot
    PROVE  LET e == Probe(warm)
           IN  Typed(e) /\ Powered(e) /\ Waited(e) /\ Blended(e) /\ ~e.asleep /\ Shown(e, e.yoff)
<1> DEFINE d == Fresh(warm)
           s == SetPar(d, "ok").dev
           c == EnableController(s, "ok")
           u == [c EXCEPT !.pm = @ + 1]
           d1 == IF warm THEN d ELSE u
           o == OverlaySetPar(d1, "ok")
           e == Probe(warm)
<1>1. /\ CheckVar(BootMode) = BootMode /\ BootMode # NoMode
      /\ BootMode.line * BootMode.virt <= MemLen
      /\ BootMode.line \in Int /\ MaxOpen \in Nat
  <2>1. BootMode \in [line : Nat \ {0}, yres : Nat \ {0}, virt : Nat]
    BY DisplayAssumption
  <2>2. ~(BootMode.virt < BootMode.yres)
    BY <2>1, DisplayAssumption
  <2>3. CheckVar(BootMode) = BootMode
    BY <2>1, <2>2 DEF CheckVar
  <2>4. BootMode # NoMode
    BY <2>1 DEF NoMode
  <2> QED
    BY <2>1, <2>3, <2>4, DisplayAssumption
<1>2. /\ d.clk = TRUE /\ d.run = warm /\ d.enabled = (IF warm THEN 1 ELSE 0)
      /\ d.reg = 0 /\ d.pm = 0 /\ d.blanked = FALSE /\ d.restore = FALSE
      /\ d.asleep = FALSE /\ d.mode = BootMode /\ d.oldmode = NoMode /\ d.yoff = 0
      /\ d.line = BootMode.line /\ d.bypass = 0 /\ d.next = 0
      /\ d.hw = (IF warm THEN BootMode ELSE NoMode)
      /\ d.en = {} /\ d.st = {} /\ d.wait4 = FALSE /\ d.as = FALSE /\ d.ovon = FALSE
      /\ d.usage = 0 /\ d.savedAs = FALSE /\ d.hung = "no" /\ d.hist = {}
  BY <1>1 DEF Fresh
<1>3. DOMAIN d = Fields
  BY DEF Fresh, Fields
<1> HIDE DEF d
<1>4. Typed(d)
  <2>1. /\ d.run \in BOOLEAN /\ d.enabled \in {0, 1} /\ d.usage \in 0 .. MaxOpen
        /\ d.bypass \in 0 .. 2 /\ d.reg \in Int /\ d.pm \in Int
    BY <1>1, <1>2
  <2>2. /\ d.clk \in BOOLEAN /\ d.blanked \in BOOLEAN /\ d.asleep \in BOOLEAN
        /\ d.restore \in BOOLEAN /\ d.wait4 \in BOOLEAN /\ d.as \in BOOLEAN
        /\ d.ovon \in BOOLEAN /\ d.savedAs \in BOOLEAN
        /\ d.en \subseteq Events /\ d.st \subseteq Events /\ d.hist \subseteq Errors
    BY <1>2
  <2> QED
    BY <2>1, <2>2, <1>3 DEF Typed
<1>5. Typed(d1) /\ Powered(d1) /\ Waited(d1) /\ ~d1.asleep /\ Shown(d1, d1.yoff)
  <2>1. CASE warm
    <3>1. d1 = d
      BY <2>1
    <3>2. Powered(d)
      <4>1. d.clk /\ d.clk \in BOOLEAN /\ ~d.blanked /\ d.blanked \in BOOLEAN
        BY <1>2
      <4>2. d.clk = ~d.blanked
        BY <4>1
      <4>3. WarmBoot /\ d.enabled = 1 /\ d.hung \in Lapses
        BY <2>1, <1>2 DEF Lapses
      <4> QED
        BY <4>1, <4>2, <4>3 DEF Powered
    <3> QED
      BY <3>1, <3>2, <2>1, <1>1, <1>2, <1>4 DEF Waited, Shown
  <2>2. CASE ~warm
    <3>1. ~ParEqual(d) /\ d.enabled = 0 /\ d.clk /\ ~d.blanked
      BY <2>2, <1>1, <1>2 DEF ParEqual
    <3>2. /\ Typed(s) /\ KeepsOverlay(s, d) /\ s.blanked = d.blanked /\ s.pm = d.pm
          /\ s.mode = d.mode /\ s.yoff = d.yoff /\ s.hung = d.hung
          /\ s.clk /\ s.enabled = 0 /\ s.reg = d.reg /\ Programmed(s, d)
      BY <3>1, <1>1, <1>2, <1>4, SetParFacts DEF Results
    <3> HIDE DEF s
    <3>3. /\ Typed(c) /\ KeepsPicture(c, s) /\ KeepsOverlay(c, s)
          /\ c.blanked = s.blanked /\ c.pm = s.pm /\ c.hung = s.hung
          /\ c.clk /\ c.run /\ c.enabled = 1 /\ c.reg = s.reg + 1 /\ c.hist = s.hist
      BY <3>2, EnableFacts DEF Results
    <3> HIDE DEF c
    <3>4. c.pm + 1 \in Int
      BY <3>3 DEF Typed
    <3>5. /\ DOMAIN u = Fields /\ u.pm = c.pm + 1 /\ KeepsPicture(u, c) /\ KeepsOverlay(u, c)
          /\ u.blanked = c.blanked /\ u.hung = c.hung /\ u.clk = c.clk /\ u.run = c.run
          /\ u.enabled = c.enabled /\ u.reg = c.reg /\ u.hist = c.hist
      BY <3>3 DEF Typed, Fields, KeepsPicture, KeepsOverlay
    <3>6. u = [c EXCEPT !.pm = c.pm + 1] /\ d1 = u
      BY <2>2
    <3> HIDE DEF u, d1
    <3>7. Typed(u)
      BY <3>3, <3>4, <3>5, <3>6 DEF Typed, Fields
    <3>8. /\ u.enabled = 1 /\ u.reg = 1 /\ u.pm = 1 /\ u.clk /\ u.run /\ ~u.blanked
          /\ u.hung = "no" /\ ~u.asleep
      BY <1>2, <3>2, <3>3, <3>5 DEF KeepsOverlay
    <3>9. Powered(u)
      <4>1. u.clk \in BOOLEAN /\ u.run \in BOOLEAN /\ u.blanked \in BOOLEAN
        BY <3>7 DEF Typed
      <4>2. u.clk = ~u.blanked /\ u.run = (u.enabled = 1)
        BY <4>1, <3>8
      <4> QED
        BY <4>2, <3>8 DEF Powered, Lapses
    <3>10. Shown(u, u.yoff) /\ Waited(u)
      BY <3>2, <3>3, <3>5 DEF KeepsPicture, Shown, Waited, Programmed
    <3> QED
      BY <3>6, <3>7, <3>8, <3>9, <3>10
  <2> QED
    BY <2>1, <2>2
<1> HIDE DEF d1
<1>6. Typed(o) /\ Powered(o) /\ KeepsPicture(o, d1) /\ KeepsPlane(o, d1) /\ o.as = o.ovon
  BY <1>5, OverlaySetParFacts DEF Results
<1> HIDE DEF o
<1>7. Waited(o) /\ Shown(o, o.yoff)
  <2>1. o.yoff = d1.yoff /\ o.blanked = d1.blanked
    BY <1>6 DEF KeepsPicture, KeepsPlane
  <2> QED
    BY <2>1, <1>5, <1>6, KeepsShown
<1>8. e = Unblank(o, "ok")
  BY DEF Probe, o, d1, u, c, s, d
<1> HIDE DEF e
<1>9. /\ Typed(e) /\ Powered(e) /\ KeepsOverlay(e, o) /\ Waited(e) /\ Shown(e, e.yoff)
  BY <1>6, <1>7, <1>8, UnblankFacts DEF Results
<1>10. ~e.asleep /\ Blended(e)
  BY <1>5, <1>6, <1>9 DEF KeepsOverlay, KeepsPlane, Blended
<1> QED
  BY <1>9, <1>10 DEF e

\* The line the picture starts at: the one asked for while a pan sleeps.
Offset == IF wait0 = "pan" THEN goal ELSE dev.yoff

\* The ranges of the other variables.
WaitsOK ==
    /\ wait0 \in {"no", "pan", "checked", "vsync"} /\ wait1 \in {"no", "pan"}
    /\ goal \in Lines
    /\ irq \subseteq Events

\* The inductive invariant.
IInv ==
    /\ WaitsOK
    /\ Typed(dev) /\ Powered(dev) /\ Waited(dev) /\ Blended(dev)
    /\ dev.asleep => wait0 = "no"
    /\ Shown(dev, Offset)

\* The invariant holds when the probe returns.
LEMMA InitIInv == Init => IInv
<1> SUFFICES ASSUME Init PROVE IInv
  OBVIOUS
<1>1. WarmBoot \in BOOLEAN /\ MemLen \in Nat \ {0}
  BY DisplayAssumption
<1>2. /\ Typed(dev) /\ Powered(dev) /\ Waited(dev) /\ Blended(dev) /\ ~dev.asleep
      /\ Shown(dev, dev.yoff)
  BY <1>1, ProbeFacts DEF Init
<1>3. WaitsOK
  BY <1>1 DEF Init, WaitsOK, Lines
<1> QED
  BY <1>2, <1>3 DEF Init, IInv, Offset

\* The outcomes and the modes a step chooses from.
LEMMA Choices == Outcomes \subseteq Results /\ \A m \in Modes : CheckVar(m).yres > 0
<1>1. Outcomes \subseteq Results
  BY DisplayAssumption DEF Outcomes, Results
<1>2. ASSUME NEW m \in Modes PROVE CheckVar(m).yres > 0
  <2>1. m \in [line : Nat \ {0}, yres : Nat \ {0}, virt : Nat]
    BY DisplayAssumption
  <2> QED
    BY <2>1 DEF CheckVar
<1> QED
  BY <1>1, <1>2

\* What a step of the primary or of the overlay framebuffer has to establish when
\* no pan is left in progress.
LEMMA Settled ==
    ASSUME IInv, WaitsOK', wait0' # "pan",
           Typed(dev'), Powered(dev'), Waited(dev'), Blended(dev'),
           dev'.asleep => wait0' = "no", Shown(dev', dev'.yoff)
    PROVE  IInv'
BY DEF IInv, Offset

\* Blanking and unblanking, by a user or by the console.
LEMMA BlankStep ==
    ASSUME IInv, NEW on \in BOOLEAN, NEW out \in Outcomes, BlankCall(on, out)
    PROVE  IInv'
<1>1. /\ Typed(dev) /\ Powered(dev) /\ Waited(dev) /\ Blended(dev) /\ ~dev.asleep
      /\ wait0 # "pan" /\ Shown(dev, dev.yoff) /\ UNCHANGED <<waits, irq>>
  BY DEF BlankCall, IInv, Offset, ConsoleFree
<1>2. /\ Typed(dev') /\ Powered(dev') /\ KeepsOverlay(dev', dev) /\ Waited(dev')
      /\ Shown(dev', dev'.yoff)
  <2>1. CASE on
    <3>1. dev' = Powerdown(dev)
      BY <2>1 DEF BlankCall, Blank
    <3>2. /\ Typed(dev') /\ Powered(dev') /\ KeepsOverlay(dev', dev) /\ dev'.blanked
          /\ Waited(dev')
      BY <3>1, <1>1, PowerdownFacts
    <3> QED
      BY <3>2 DEF Shown
  <2>2. CASE ~on
    <3>1. dev' = Unblank(dev, out) /\ out \in Results
      BY <2>2, Choices DEF BlankCall, Blank
    <3> QED
      BY <3>1, <1>1, UnblankFacts
  <2> QED
    BY <2>1, <2>2
<1>3. Blended(dev') /\ ~dev'.asleep
  BY <1>1, <1>2 DEF Blended, KeepsOverlay
<1>4. WaitsOK' /\ wait0' # "pan"
  BY <1>1 DEF IInv, WaitsOK, waits
<1> QED
  BY <1>2, <1>3, <1>4, Settled

\* System sleep.
LEMMA SleepSteps ==
    ASSUME IInv
    PROVE  /\ Suspend => IInv'
           /\ \A out \in Outcomes : Resume(out) => IInv'
<1>1. ASSUME Suspend PROVE IInv'
  <2>1. /\ dev' = SuspendDevice(dev) /\ wait0' = "no"
        /\ Typed(dev) /\ Powered(dev) /\ dev.as = dev.ovon
    BY <1>1 DEF Suspend, IInv, Blended, waits
  <2>2. /\ Typed(dev') /\ Powered(dev') /\ Waited(dev') /\ Blended(dev') /\ dev'.asleep
        /\ dev'.blanked
    BY <2>1, SuspendFacts
  <2>3. WaitsOK'
    BY <1>1 DEF Suspend, IInv, WaitsOK, waits
  <2>4. Shown(dev', dev'.yoff)
    BY <2>2 DEF Shown
  <2> QED
    BY <2>1, <2>2, <2>3, <2>4, Settled
<1>2. ASSUME NEW out \in Outcomes, Resume(out) PROVE IInv'
  <2>1. /\ dev' = ResumeDevice(dev, out) /\ out \in Results /\ wait0' = "no"
        /\ Typed(dev) /\ Powered(dev) /\ Waited(dev)
        /\ dev.savedAs = dev.ovon /\ dev.blanked
    BY <1>2, Choices DEF Resume, IInv, Blended, waits
  <2>2. /\ Typed(dev') /\ Powered(dev') /\ Waited(dev') /\ Blended(dev') /\ ~dev'.asleep
        /\ Shown(dev', dev'.yoff)
    BY <2>1, ResumeFacts
  <2>3. WaitsOK'
    BY <1>2 DEF Resume, IInv, WaitsOK, waits
  <2> QED
    BY <2>1, <2>2, <2>3, Settled
<1> QED
  BY <1>1, <1>2

\* The calls on the overlay.
LEMMA OverlaySteps ==
    ASSUME IInv
    PROVE  /\ \A out \in Outcomes : OverlayPutVar(out) => IInv'
           /\ \A to \in BOOLEAN, out \in Outcomes : OverlayBlankCall(to, out) => IInv'
           /\ OverlayPan => IInv'
           /\ Release => IInv'
<1>1. MayCall => /\ Typed(dev) /\ Powered(dev) /\ Waited(dev) /\ dev.as = dev.ovon
                 /\ ~dev.asleep /\ Shown(dev, dev.yoff) /\ wait0 = "no"
  BY DEF MayCall, PrimaryFree, IInv, Offset, Blended
<1>2. ASSUME NEW out \in Outcomes, OverlayPutVar(out) PROVE IInv'
  <2> DEFINE d == OverlaySetPar(dev, out)
  <2>1. MayCall /\ wait0' = "no" /\ WaitsOK' /\ out \in Results
    BY <1>2, Choices DEF OverlayPutVar, IInv, WaitsOK, waits, Sleep1, MayCall, PrimaryFree
  <2>2. /\ Typed(d) /\ Powered(d) /\ KeepsPicture(d, dev) /\ KeepsPlane(d, dev)
        /\ d.as = d.ovon
    BY <1>1, <2>1, OverlaySetParFacts
  <2>3. \/ dev.blanked /\ dev' = d
        \/ ~dev.blanked /\ dev' = StartOverlayPan(d)
    BY <1>2 DEF OverlayPutVar
  <2> HIDE DEF d
  <2>4. /\ Waited(d) /\ Shown(d, d.yoff) /\ Blended(d) /\ ~d.asleep /\ d.blanked = dev.blanked
    <3>1. d.yoff = dev.yoff /\ d.blanked = dev.blanked /\ ~d.asleep
      BY <1>1, <2>1, <2>2 DEF KeepsPicture, KeepsPlane
    <3>2. Waited(d) /\ Shown(d, d.yoff)
      BY <1>1, <2>1, <2>2, <3>1, KeepsShown
    <3> QED
      BY <2>2, <3>1, <3>2 DEF Blended
  <2>5. CASE dev' = d
    BY <2>1, <2>2, <2>4, <2>5, Settled
  <2>6. CASE ~dev.blanked /\ dev' = StartOverlayPan(d)
    <3>1. /\ Typed(dev') /\ Powered(dev') /\ KeepsOverlay(dev', d)
          /\ dev'.blanked = d.blanked
          /\ dev'.hw = d.hw /\ dev'.mode = d.mode /\ dev'.oldmode = d.oldmode
          /\ dev'.line = d.line /\ dev'.yoff = d.yoff /\ dev'.next = d.next
          /\ dev'.hist = d.hist /\ Waited(dev')
      BY <2>2, <2>4, <2>6, StartOverlayPanFacts
    <3>2. Shown(dev', dev'.yoff)
      BY <2>4, <3>1 DEF Shown
    <3>3. Blended(dev') /\ ~dev'.asleep
      BY <2>4, <3>1 DEF Blended, KeepsOverlay
    <3> QED
      BY <2>1, <3>1, <3>2, <3>3, Settled
  <2> QED
    BY <2>3, <2>5, <2>6
<1>3. ASSUME NEW to \in BOOLEAN, NEW out \in Outcomes, OverlayBlankCall(to, out) PROVE IInv'
  <2>1. MayCall /\ wait0' = "no" /\ WaitsOK' /\ out \in Results
    BY <1>3, Choices DEF OverlayBlankCall, IInv, WaitsOK, waits, MayCall, PrimaryFree
  <2>2. /\ Typed(dev') /\ Powered(dev') /\ KeepsPicture(dev', dev)
        /\ dev'.as = dev'.ovon /\ dev'.asleep = dev.asleep /\ dev'.blanked = dev.blanked
    BY <1>1, <1>3, <2>1, OverlayBlankFacts DEF OverlayBlankCall
  <2>3. dev'.yoff = dev.yoff
    BY <2>2 DEF KeepsPicture
  <2>4. Waited(dev') /\ Shown(dev', dev'.yoff)
    BY <1>1, <2>1, <2>2, <2>3, KeepsShown
  <2>5. Blended(dev') /\ ~dev'.asleep
    BY <1>1, <2>1, <2>2 DEF Blended
  <2> QED
    BY <2>1, <2>2, <2>4, <2>5, Settled
<1>4. ASSUME OverlayPan PROVE IInv'
  <2>1. MayCall /\ wait0' = "no" /\ WaitsOK' /\ ~dev.blanked /\ dev' = StartOverlayPan(dev)
    BY <1>4 DEF OverlayPan, IInv, WaitsOK, Sleep1, MayCall, PrimaryFree
  <2>2. /\ Typed(dev') /\ Powered(dev') /\ KeepsOverlay(dev', dev)
        /\ dev'.blanked = dev.blanked
        /\ dev'.hw = dev.hw /\ dev'.mode = dev.mode /\ dev'.oldmode = dev.oldmode
        /\ dev'.line = dev.line /\ dev'.yoff = dev.yoff /\ dev'.next = dev.next
        /\ dev'.hist = dev.hist /\ Waited(dev')
    BY <1>1, <2>1, StartOverlayPanFacts
  <2>3. Shown(dev', dev'.yoff)
    BY <1>1, <2>1, <2>2 DEF Shown
  <2>4. Blended(dev') /\ ~dev'.asleep
    BY <1>1, <2>1, <2>2 DEF Blended, KeepsOverlay
  <2> QED
    BY <2>1, <2>2, <2>3, <2>4, Settled
<1>5. ASSUME Release PROVE IInv'
  <2>1. /\ dev' = OverlayRelease(dev) /\ dev.usage > 0 /\ UNCHANGED <<waits, irq>>
        /\ Typed(dev) /\ Powered(dev) /\ Waited(dev) /\ dev.as = dev.ovon /\ ~dev.asleep
        /\ Shown(dev, Offset)
    BY <1>5 DEF Release, IInv, Blended
  <2>2. /\ Typed(dev') /\ Powered(dev') /\ KeepsPicture(dev', dev)
        /\ dev'.as = dev'.ovon /\ dev'.asleep = dev.asleep /\ dev'.blanked = dev.blanked
    BY <2>1, OverlayReleaseFacts
  <2>3. Offset' = Offset
    BY <2>1, <2>2 DEF Offset, waits, KeepsPicture
  <2>4. Waited(dev') /\ Shown(dev', Offset')
    BY <2>1, <2>2, <2>3, KeepsShown
  <2>5. Blended(dev') /\ ~dev'.asleep
    BY <2>1, <2>2 DEF Blended
  <2>6. WaitsOK'
    BY <2>1 DEF IInv, WaitsOK, waits
  <2> QED
    BY <2>2, <2>4, <2>5, <2>6 DEF IInv
<1> QED
  BY <1>2, <1>3, <1>4, <1>5

\* FBIOPUT_VSCREENINFO: refused, delayed by the blank state, or panned to.
LEMMA PutVarStep ==
    ASSUME IInv, NEW m \in Modes, NEW y \in Lines, NEW out \in Outcomes, PutVar(m, y, out)
    PROVE  IInv'
<1> DEFINE v == CheckVar(m)
           d == [dev EXCEPT !.mode = v, !.yoff = y, !.force = FALSE]
           r == SetPar(d, out)
           e == r.dev
<1>1. /\ Typed(dev) /\ Powered(dev) /\ Waited(dev) /\ dev.as = dev.ovon
      /\ ~dev.asleep /\ Shown(dev, dev.yoff) /\ wait0 = "no" /\ out \in Results
      /\ v.yres > 0
  BY Choices DEF PutVar, MayCall, PrimaryFree, IInv, Offset, Blended
<1>2. \/ /\ r.err
         /\ dev' = [e EXCEPT !.mode = dev.mode, !.yoff = dev.yoff, !.force = dev.force]
         /\ UNCHANGED waits
      \/ /\ ~r.err /\ dev.blanked /\ dev' = e /\ UNCHANGED waits
      \/ /\ ~r.err /\ ~dev.blanked /\ dev' = StartPan(e, y) /\ Sleep0("pan", y)
  BY DEF PutVar
<1>3. y \in Int /\ irq' = irq
  BY DEF PutVar, Lines
<1> HIDE DEF v
<1>4. /\ Typed(d) /\ KeepsPower(d, dev) /\ KeepsOverlay(d, dev)
      /\ d.mode = v /\ d.yoff = y /\ d.hw = dev.hw /\ d.oldmode = dev.oldmode
      /\ d.line = dev.line /\ d.en = dev.en /\ d.wait4 = dev.wait4
  BY <1>1, <1>3 DEF Typed, Fields, KeepsPower, KeepsOverlay
<1> HIDE DEF d
<1>5. Powered(d) /\ Waited(d)
  BY <1>1, <1>4 DEF Powered, Waited, KeepsPower
<1>6. /\ Typed(e) /\ Powered(e) /\ Waited(e) /\ KeepsOverlay(e, d)
      /\ e.blanked = d.blanked /\ e.mode = d.mode /\ e.yoff = d.yoff
      /\ \/ ~r.err /\ ParEqual(d) /\ e = d
         \/ ~r.err /\ d.blanked
         \/ /\ r.err /\ "badline" \in e.hist /\ e.hw = d.hw
            /\ e.oldmode = d.oldmode /\ ("lost" \in d.hist => "lost" \in e.hist)
         \/ ~r.err /\ Programmed(e, d)
  BY <1>1, <1>4, <1>5, SetParFacts, SetParPowered
<1> HIDE DEF r, e
<1>7. e.as = e.ovon /\ ~e.asleep /\ e.blanked = dev.blanked
  BY <1>1, <1>4, <1>6 DEF KeepsOverlay, KeepsPower
<1>8. CASE /\ r.err
           /\ dev' = [e EXCEPT !.mode = dev.mode, !.yoff = dev.yoff, !.force = dev.force]
           /\ UNCHANGED waits
  <2>1. /\ Typed(dev') /\ KeepsPower(dev', e) /\ KeepsOverlay(dev', e)
        /\ dev'.mode = dev.mode /\ dev'.yoff = dev.yoff /\ dev'.hw = e.hw
        /\ dev'.oldmode = e.oldmode /\ dev'.en = e.en /\ dev'.wait4 = e.wait4
    BY <1>6, <1>8 DEF Typed, Fields, KeepsPower, KeepsOverlay
  <2>2. Powered(dev') /\ Waited(dev')
    BY <1>6, <2>1 DEF Powered, Waited, KeepsPower
  <2>3. Blended(dev') /\ ~dev'.asleep
    BY <1>7, <2>1 DEF Blended, KeepsOverlay
  <2>4. Shown(dev', dev'.yoff)
    <3>1. /\ "badline" \in dev'.hist /\ dev'.hw = dev.hw /\ dev'.oldmode = dev.oldmode
          /\ "lost" \in dev.hist => "lost" \in dev'.hist
          /\ dev'.blanked = dev.blanked
      BY <1>4, <1>6, <1>7, <1>8, <2>1 DEF KeepsPower
    <3> QED
      BY <1>1, <2>1, <3>1 DEF Shown
  <2>5. WaitsOK' /\ wait0' # "pan"
    BY <1>1, <1>3, <1>8 DEF IInv, WaitsOK, waits
  <2> QED
    BY <2>1, <2>2, <2>3, <2>4, <2>5, Settled
<1>9. CASE ~r.err /\ dev.blanked /\ dev' = e /\ UNCHANGED waits
  <2>1. Shown(dev', dev'.yoff) /\ Blended(dev') /\ ~dev'.asleep
    BY <1>7, <1>9 DEF Shown, Blended
  <2>2. WaitsOK' /\ wait0' # "pan"
    BY <1>1, <1>3, <1>9 DEF IInv, WaitsOK, waits
  <2> QED
    BY <1>6, <1>9, <2>1, <2>2, Settled
<1>10. CASE ~r.err /\ ~dev.blanked /\ dev' = StartPan(e, y) /\ Sleep0("pan", y)
  <2>1. /\ Typed(dev') /\ Powered(dev') /\ KeepsOverlay(dev', e) /\ dev'.blanked = e.blanked
        /\ dev'.hw = e.hw /\ dev'.mode = e.mode /\ dev'.oldmode = e.oldmode
        /\ dev'.line = e.line /\ dev'.next = e.line * y /\ dev'.hist = e.hist
        /\ Waited(dev')
    BY <1>6, <1>7, <1>10, StartPanFacts
  <2>2. Blended(dev') /\ ~dev'.asleep
    BY <1>7, <2>1 DEF Blended, KeepsOverlay
  <2>3. Offset' = y
    BY <1>10 DEF Offset, Sleep0
  <2>4. Shown(dev', y)
    <3>1. CASE ParEqual(d) /\ e = d
      <4>1. v = dev.oldmode
        BY <3>1, <1>4 DEF ParEqual
      <4>2. v # NoMode
        BY <1>1 DEF NoMode
      <4>3. "lost" \notin dev.hist => v = dev.mode
        BY <1>1, <1>10, <4>1, <4>2 DEF Shown
      <4>4. /\ dev'.hw = dev.hw /\ dev'.mode = v /\ dev'.oldmode = v
            /\ dev'.line = dev.line /\ dev'.next = dev'.line * y /\ dev'.hist = dev.hist
        BY <3>1, <1>4, <2>1, <4>1 DEF KeepsPower
      <4> QED
        BY <1>1, <1>10, <4>3, <4>4 DEF Shown
    <3>2. CASE Programmed(e, d)
      BY <3>2, <1>4, <1>6, <2>1 DEF Programmed, Shown
    <3> QED
      BY <3>1, <3>2, <1>6, <1>7, <1>10
  <2>5. WaitsOK'
    BY <1>3, <1>10 DEF IInv, WaitsOK, Sleep0
  <2> QED
    BY <2>1, <2>2, <2>3, <2>4, <2>5 DEF IInv
<1> QED
  BY <1>2, <1>8, <1>9, <1>10

\* FBIOPAN_DISPLAY.
LEMMA PanStep ==
    ASSUME IInv, NEW y \in Lines, Pan(y)
    PROVE  IInv'
<1>1. /\ Typed(dev) /\ Powered(dev) /\ Waited(dev) /\ dev.as = dev.ovon
      /\ ~dev.asleep /\ Shown(dev, dev.yoff)
      /\ ~dev.blanked /\ dev' = StartPan(dev, y) /\ Sleep0("pan", y) /\ irq' = irq
  BY DEF Pan, MayCall, PrimaryFree, IInv, Offset, Blended
<1>2. /\ Typed(dev') /\ Powered(dev') /\ KeepsOverlay(dev', dev) /\ dev'.blanked = dev.blanked
      /\ dev'.hw = dev.hw /\ dev'.mode = dev.mode /\ dev'.oldmode = dev.oldmode
      /\ dev'.line = dev.line /\ dev'.next = dev.line * y /\ dev'.hist = dev.hist
      /\ Waited(dev')
  BY <1>1, StartPanFacts
<1>3. Blended(dev') /\ ~dev'.asleep
  BY <1>1, <1>2 DEF Blended, KeepsOverlay
<1>4. Shown(dev', Offset')
  BY <1>1, <1>2 DEF Shown, Offset, Sleep0
<1>5. WaitsOK'
  BY <1>1 DEF IInv, WaitsOK, Sleep0
<1> QED
  BY <1>2, <1>3, <1>4, <1>5 DEF IInv

\* All that the interrupt and the waits do not change.
KeepsScreen(e, d) ==
    /\ KeepsPower(e, d) /\ KeepsOverlay(e, d)
    /\ e.hw = d.hw /\ e.mode = d.mode /\ e.oldmode = d.oldmode
    /\ e.line = d.line /\ e.next = d.next /\ e.yoff = d.yoff

\* A step that changes the interrupt registers only.
LEMMA Quiet ==
    ASSUME IInv, WaitsOK', KeepsScreen(dev', dev), Typed(dev'), Waited(dev'),
           Offset' = Offset, dev.asleep => wait0' = "no"
    PROVE  IInv'
<1>1. Powered(dev')
  BY DEF IInv, Powered, KeepsScreen, KeepsPower
<1>2. Blended(dev') /\ (dev'.asleep => wait0' = "no")
  BY DEF IInv, Blended, KeepsScreen, KeepsPower, KeepsOverlay
<1>3. Shown(dev', Offset')
  BY DEF IInv, Shown, KeepsScreen, KeepsPower
<1> QED
  BY <1>1, <1>2, <1>3 DEF IInv

\* The ends of a pan of either plane.
LEMMA PanEnds ==
    ASSUME IInv
    PROVE  /\ PanDone => IInv'
           /\ PanTimeout => IInv'
           /\ OverlayPanDone => IInv'
           /\ OverlayPanTimeout => IInv'
<1>1. Typed(dev) /\ Powered(dev) /\ Waited(dev) /\ Blended(dev) /\ Shown(dev, Offset)
  BY DEF IInv
<1>2. ASSUME PanDone PROVE IInv'
  <2>1. /\ dev' = [dev EXCEPT !.yoff = goal, !.fdone = FALSE] /\ Return0 /\ irq' = irq
        /\ wait0 = "pan" /\ ~dev.asleep
    BY <1>2 DEF PanDone, IInv
  <2>2. /\ Typed(dev') /\ KeepsPower(dev', dev) /\ KeepsOverlay(dev', dev)
        /\ dev'.hw = dev.hw /\ dev'.mode = dev.mode /\ dev'.oldmode = dev.oldmode
        /\ dev'.line = dev.line /\ dev'.next = dev.next /\ dev'.yoff = goal
        /\ dev'.en = dev.en /\ dev'.wait4 = dev.wait4
    BY <1>1, <2>1 DEF Typed, Fields, KeepsPower, KeepsOverlay
  <2>3. Powered(dev') /\ Waited(dev')
    BY <1>1, <2>2 DEF Powered, Waited, KeepsPower
  <2>4. Blended(dev') /\ ~dev'.asleep
    BY <1>1, <2>1, <2>2 DEF Blended, KeepsPower, KeepsOverlay
  <2>5. Shown(dev', dev'.yoff)
    BY <1>1, <2>1, <2>2 DEF Shown, Offset, KeepsPower
  <2>6. WaitsOK' /\ wait0' # "pan"
    BY <2>1, DisplayAssumption DEF IInv, WaitsOK, Return0, Sleep0, Lines
  <2> QED
    BY <2>2, <2>3, <2>4, <2>5, <2>6, Settled
<1>3. ASSUME PanTimeout PROVE IInv'
  <2>1. /\ dev' = Note(dev, "panlate") /\ Return0 /\ irq' = irq
        /\ wait0 = "pan" /\ ~dev.asleep
    BY <1>3 DEF PanTimeout, IInv
  <2>2. dev.hist \cup {"panlate"} \subseteq Errors
    BY <1>1 DEF Typed, Errors
  <2>3. /\ DOMAIN dev' = Fields /\ dev'.hist = dev.hist \cup {"panlate"}
        /\ KeepsOverlay(dev', dev)
        /\ dev'.clk = dev.clk /\ dev'.run = dev.run /\ dev'.enabled = dev.enabled
        /\ dev'.reg = dev.reg /\ dev'.pm = dev.pm /\ dev'.blanked = dev.blanked
        /\ dev'.hung = dev.hung /\ dev'.hw = dev.hw /\ dev'.mode = dev.mode
        /\ dev'.oldmode = dev.oldmode /\ dev'.en = dev.en /\ dev'.wait4 = dev.wait4
        /\ dev'.restore = dev.restore /\ dev'.bypass = dev.bypass /\ dev'.st = dev.st
    BY <1>1, <2>1 DEF Typed, Fields, Note, KeepsOverlay
  <2>4. Typed(dev')
    BY <1>1, <2>2, <2>3 DEF Typed, KeepsOverlay
  <2>5. Powered(dev') /\ Waited(dev')
    BY <1>1, <2>3 DEF Powered, Waited
  <2>6. Blended(dev') /\ ~dev'.asleep
    BY <1>1, <2>1, <2>3 DEF Blended, KeepsOverlay
  <2>7. Shown(dev', dev'.yoff)
    <3>1. dev'.hist \cap {"badline", "panlate"} # {}
      BY <2>3
    <3> QED
      BY <1>1, <2>3, <3>1 DEF Shown
  <2>8. WaitsOK' /\ wait0' # "pan"
    BY <2>1, DisplayAssumption DEF IInv, WaitsOK, Return0, Sleep0, Lines
  <2> QED
    BY <2>4, <2>5, <2>6, <2>7, <2>8, Settled
<1>4. ASSUME OverlayPanDone PROVE IInv'
  <2>1. dev' = [dev EXCEPT !.fdone = FALSE] /\ Sleep1("no") /\ irq' = irq
    BY <1>4 DEF OverlayPanDone
  <2>2. /\ Typed(dev') /\ KeepsScreen(dev', dev)
        /\ dev'.en = dev.en /\ dev'.wait4 = dev.wait4
    BY <1>1, <2>1 DEF Typed, Fields, KeepsScreen, KeepsPower, KeepsOverlay
  <2>3. Waited(dev')
    BY <1>1, <2>2 DEF Waited, KeepsScreen, KeepsPower
  <2>4. WaitsOK' /\ Offset' = Offset /\ (dev.asleep => wait0' = "no")
    BY <2>1, <2>2 DEF IInv, WaitsOK, Sleep1, Offset, KeepsScreen
  <2> QED
    BY <2>2, <2>3, <2>4, Quiet
<1>5. ASSUME OverlayPanTimeout PROVE IInv'
  BY <1>5 DEF OverlayPanTimeout, Sleep1, IInv, WaitsOK, Offset
<1> QED
  BY <1>2, <1>3, <1>4, <1>5

\* MXCFB_WAIT_FOR_VSYNC.
LEMMA VsyncSteps ==
    ASSUME IInv
    PROVE  /\ CheckVsync => IInv'
           /\ ArmVsync => IInv'
           /\ VsyncDone => IInv'
           /\ VsyncTimeout => IInv'
           /\ VsyncInterrupted => IInv'
<1>1. /\ Typed(dev) /\ Powered(dev) /\ Waited(dev) /\ Blended(dev) /\ Shown(dev, Offset)
      /\ 0 \in Lines
  BY DisplayAssumption DEF IInv, Lines
<1>2. ASSUME CheckVsync PROVE IInv'
  BY <1>1, <1>2 DEF CheckVsync, Sleep0, PrimaryFree, IInv, WaitsOK, Offset
<1>3. ASSUME ArmVsync PROVE IInv'
  <2> DEFINE t == Touch(dev, "vsync")
  <2>1. /\ dev' = [t EXCEPT !.vdone = FALSE, !.wait4 = TRUE, !.en = @ \cup {"vsync"}]
        /\ Sleep0("vsync", 0) /\ irq' = irq /\ wait0 = "checked" /\ ~dev.asleep
    BY <1>3 DEF ArmVsync, IInv
  <2>2. Typed(t) /\ KeepsPicture(t, dev) /\ KeepsOverlay(t, dev) /\ Powered(t)
    BY <1>1, TouchFacts DEF Lapses
  <2>3. t.blanked = dev.blanked
    BY <1>1 DEF Touch, Typed, Fields
  <2> HIDE DEF t
  <2>4. t.en \cup {"vsync"} \subseteq Events
    BY <2>2 DEF Typed, Events
  <2>5. /\ DOMAIN dev' = Fields /\ KeepsScreen(dev', t)
        /\ dev'.en = t.en \cup {"vsync"} /\ dev'.wait4 = TRUE
        /\ dev'.restore = t.restore /\ dev'.bypass = t.bypass /\ dev'.st = t.st
    BY <2>1, <2>2 DEF Typed, Fields, KeepsScreen, KeepsPower, KeepsOverlay
  <2>6. Typed(dev')
    BY <2>2, <2>4, <2>5 DEF Typed, KeepsScreen, KeepsPower, KeepsOverlay
  <2>7. Powered(dev')
    BY <2>2, <2>5 DEF Powered, KeepsScreen, KeepsPower
  <2>8. Waited(dev')
    BY <2>5 DEF Waited
  <2>9. Blended(dev') /\ ~dev'.asleep
    BY <1>1, <2>1, <2>2, <2>5 DEF Blended, KeepsScreen, KeepsOverlay
  <2>10. Shown(dev', dev'.yoff)
    <3>1. Shown(t, Offset) /\ Offset = dev.yoff
      BY <1>1, <2>1, <2>2, <2>3, KeepsShown DEF Offset
    <3> QED
      BY <2>2, <2>5, <3>1 DEF Shown, KeepsScreen, KeepsPower, KeepsPicture
  <2>11. WaitsOK' /\ wait0' # "pan"
    BY <1>1, <2>1 DEF IInv, WaitsOK, Sleep0
  <2> QED
    BY <2>6, <2>7, <2>8, <2>9, <2>10, <2>11, Settled
<1>4. ASSUME VsyncDone PROVE IInv'
  <2>1. /\ dev' = [dev EXCEPT !.vdone = FALSE] /\ Return0 /\ irq' = irq /\ wait0 = "vsync"
    BY <1>4 DEF VsyncDone
  <2>2. /\ Typed(dev') /\ KeepsScreen(dev', dev)
        /\ dev'.en = dev.en /\ dev'.wait4 = dev.wait4
    BY <1>1, <2>1 DEF Typed, Fields, KeepsScreen, KeepsPower, KeepsOverlay
  <2>3. Waited(dev')
    BY <1>1, <2>2 DEF Waited, KeepsScreen, KeepsPower
  <2>4. WaitsOK' /\ Offset' = Offset /\ wait0' = "no"
    BY <1>1, <2>1, <2>2 DEF IInv, WaitsOK, Return0, Sleep0, Offset, KeepsScreen
  <2> QED
    BY <2>2, <2>3, <2>4, Quiet
<1>5. ASSUME VsyncTimeout PROVE IInv'
  <2> DEFINE n == Note(dev, "vsynclate")
  <2>1. /\ dev' = [n EXCEPT !.wait4 = FALSE] /\ Return0 /\ irq' = irq /\ wait0 = "vsync"
        /\ ~dev.asleep
    BY <1>5 DEF VsyncTimeout, IInv
  <2>2. /\ Typed(n) /\ KeepsOverlay(n, dev) /\ n.hist = dev.hist \cup {"vsynclate"}
        /\ n.clk = dev.clk /\ n.run = dev.run /\ n.enabled = dev.enabled
        /\ n.reg = dev.reg /\ n.pm = dev.pm /\ n.blanked = dev.blanked
        /\ n.hung = dev.hung /\ n.hw = dev.hw /\ n.mode = dev.mode
        /\ n.oldmode = dev.oldmode /\ n.line = dev.line /\ n.next = dev.next
        /\ n.yoff = dev.yoff
    BY <1>1 DEF Note, Typed, Fields, KeepsOverlay, Errors
  <2> HIDE DEF n
  <2>3. Typed(dev') /\ KeepsScreen(dev', n)
    BY <2>1, <2>2 DEF Typed, Fields, KeepsScreen, KeepsPower, KeepsOverlay
  <2>4. Powered(dev')
    BY <1>1, <2>2, <2>3 DEF Powered, KeepsScreen, KeepsPower
  <2>5. Waited(dev')
    BY <2>2, <2>3 DEF Waited, KeepsScreen, KeepsPower
  <2>6. Blended(dev') /\ ~dev'.asleep
    BY <1>1, <2>1, <2>2, <2>3 DEF Blended, KeepsScreen, KeepsOverlay
  <2>7. Shown(dev', dev'.yoff)
    <3>1. dev'.hist \cap {"badline", "panlate"} = dev.hist \cap {"badline", "panlate"}
      BY <2>2, <2>3 DEF KeepsScreen, KeepsPower
    <3> QED
      BY <1>1, <2>1, <2>2, <2>3, <3>1 DEF Shown, Offset, KeepsScreen, KeepsPower
  <2>8. WaitsOK' /\ wait0' # "pan"
    BY <1>1, <2>1 DEF IInv, WaitsOK, Return0, Sleep0
  <2> QED
    BY <2>3, <2>4, <2>5, <2>6, <2>7, <2>8, Settled
<1>6. ASSUME VsyncInterrupted PROVE IInv'
  BY <1>1, <1>6 DEF VsyncInterrupted, Return0, Sleep0, IInv, WaitsOK, Offset
<1> QED
  BY <1>2, <1>3, <1>4, <1>5, <1>6

\* Opening the overlay, frames and the interrupt handler.
LEMMA ControllerSteps ==
    ASSUME IInv
    PROVE  /\ Open => IInv'
           /\ Frame => IInv'
           /\ IrqRead => IInv'
           /\ IrqAct => IInv'
<1>1. Typed(dev) /\ Powered(dev) /\ Waited(dev) /\ Blended(dev) /\ Shown(dev, Offset)
  BY DEF IInv
<1>2. ASSUME Open PROVE IInv'
  <2>1. dev' = [dev EXCEPT !.usage = @ + 1] /\ dev.usage < MaxOpen /\ UNCHANGED <<waits, irq>>
    BY <1>2 DEF Open, OverlayOpen
  <2>2. dev.usage + 1 \in 0 .. MaxOpen
    BY <1>1, <2>1, DisplayAssumption DEF Typed
  <2>3. /\ DOMAIN dev' = Fields /\ dev'.usage = dev.usage + 1 /\ KeepsPower(dev', dev)
        /\ dev'.hw = dev.hw /\ dev'.mode = dev.mode /\ dev'.oldmode = dev.oldmode
        /\ dev'.line = dev.line /\ dev'.next = dev.next /\ dev'.yoff = dev.yoff
        /\ dev'.as = dev.as /\ dev'.ovon = dev.ovon /\ dev'.savedAs = dev.savedAs
        /\ dev'.asleep = dev.asleep /\ dev'.en = dev.en /\ dev'.wait4 = dev.wait4
        /\ dev'.restore = dev.restore /\ dev'.bypass = dev.bypass /\ dev'.st = dev.st
    BY <1>1, <2>1 DEF Typed, Fields, KeepsPower
  <2>4. Typed(dev')
    BY <1>1, <2>2, <2>3 DEF Typed, KeepsPower
  <2>5. Powered(dev') /\ Waited(dev')
    BY <1>1, <2>3 DEF Powered, Waited, KeepsPower
  <2>6. Blended(dev') /\ (dev'.asleep => wait0' = "no")
    BY <1>1, <2>1, <2>3 DEF IInv, Blended, KeepsPower, waits
  <2>7. Shown(dev', Offset')
    BY <1>1, <2>1, <2>3 DEF Shown, Offset, KeepsPower, waits
  <2>8. WaitsOK'
    BY <2>1 DEF IInv, WaitsOK, waits
  <2> QED
    BY <2>4, <2>5, <2>6, <2>7, <2>8 DEF IInv
<1>3. ASSUME Frame PROVE IInv'
  <2>1. dev' = [dev EXCEPT !.st = Events] /\ UNCHANGED <<waits, irq>>
    BY <1>3 DEF Frame
  <2>2. /\ Typed(dev') /\ KeepsScreen(dev', dev)
        /\ dev'.en = dev.en /\ dev'.wait4 = dev.wait4
    BY <1>1, <2>1 DEF Typed, Fields, KeepsScreen, KeepsPower, KeepsOverlay
  <2>3. Waited(dev')
    BY <1>1, <2>2 DEF Waited, KeepsScreen, KeepsPower
  <2>4. WaitsOK' /\ Offset' = Offset /\ (dev.asleep => wait0' = "no")
    BY <2>1, <2>2 DEF IInv, WaitsOK, waits, Offset, KeepsScreen
  <2> QED
    BY <2>2, <2>3, <2>4, Quiet
<1>4. ASSUME NEW d, Typed(d), d = Touch(dev, "irq")
      PROVE  /\ Powered(d) /\ Waited(d) /\ Blended(d) /\ Shown(d, Offset)
             /\ d.asleep = dev.asleep /\ d.yoff = dev.yoff
  <2>1. KeepsPicture(d, dev) /\ KeepsOverlay(d, dev) /\ Powered(d)
    BY <1>1, <1>4, TouchFacts DEF Lapses
  <2>2. d.blanked = dev.blanked
    BY <1>1, <1>4 DEF Touch, Typed, Fields
  <2>3. Waited(d) /\ Shown(d, Offset)
    BY <1>1, <2>1, <2>2, KeepsShown
  <2>4. Blended(d)
    BY <1>1, <2>1, <2>2 DEF Blended, KeepsOverlay
  <2> QED
    BY <2>1, <2>3, <2>4 DEF KeepsOverlay, KeepsPicture
<1>5. ASSUME IrqRead PROVE IInv'
  <2>1. dev' = Touch(dev, "irq") /\ irq' = dev.en \cap dev.st /\ UNCHANGED waits
    BY <1>5 DEF IrqRead
  <2>2. Typed(dev')
    BY <1>1, <2>1, TouchFacts
  <2>3. /\ Powered(dev') /\ Waited(dev') /\ Blended(dev') /\ Shown(dev', Offset)
        /\ dev'.asleep = dev.asleep /\ dev'.yoff = dev.yoff
    BY <1>4, <2>1, <2>2
  <2>4. WaitsOK' /\ Offset' = Offset /\ (dev'.asleep => wait0' = "no")
    BY <1>1, <2>1, <2>3 DEF IInv, WaitsOK, waits, Offset, Typed
  <2> QED
    BY <2>2, <2>3, <2>4 DEF IInv
<1>6. ASSUME IrqAct PROVE IInv'
  <2> DEFINE t == Touch(dev, "irq")
  <2>1. /\ dev' = [t EXCEPT !.st = @ \ Acked, !.en = @ \ Acked,
                            !.wait4 = @ /\ "vsync" \notin Acked,
                            !.vdone = @ \/ "vsync" \in Acked,
                            !.fdone = @ \/ "flip" \in Acked]
        /\ irq' = {} /\ UNCHANGED waits
    BY <1>6 DEF IrqAct
  <2>2. Typed(t)
    BY <1>1, TouchFacts
  <2>3. /\ Powered(t) /\ Waited(t) /\ Blended(t) /\ Shown(t, Offset)
        /\ t.asleep = dev.asleep /\ t.yoff = dev.yoff
    BY <1>4, <2>2
  <2> HIDE DEF t
  <2>4. /\ DOMAIN dev' = Fields /\ KeepsScreen(dev', t)
        /\ dev'.en = t.en \ Acked /\ dev'.st = t.st \ Acked
        /\ dev'.wait4 = (t.wait4 /\ "vsync" \notin Acked)
        /\ dev'.restore = t.restore /\ dev'.bypass = t.bypass
    BY <2>1, <2>2 DEF Typed, Fields, KeepsScreen, KeepsPower, KeepsOverlay
  <2>5. Typed(dev')
    <3>1. dev'.en \subseteq Events /\ dev'.st \subseteq Events /\ dev'.wait4 \in BOOLEAN
      BY <2>2, <2>4 DEF Typed
    <3> QED
      BY <2>2, <2>4, <3>1 DEF Typed, KeepsScreen, KeepsPower, KeepsOverlay
  <2>6. Waited(dev')
    BY <2>2, <2>3, <2>4 DEF Waited, Typed, KeepsScreen, KeepsPower
  <2>7. Powered(dev')
    BY <2>3, <2>4 DEF Powered, KeepsScreen, KeepsPower
  <2>8. Blended(dev') /\ dev'.asleep = dev.asleep /\ dev'.yoff = dev.yoff
    BY <2>3, <2>4 DEF Blended, KeepsScreen, KeepsPower, KeepsOverlay
  <2>9. Shown(dev', Offset)
    BY <2>3, <2>4 DEF Shown, KeepsScreen, KeepsPower
  <2>10. WaitsOK' /\ Offset' = Offset /\ (dev'.asleep => wait0' = "no")
    BY <2>1, <2>8 DEF IInv, WaitsOK, waits, Offset
  <2> QED
    BY <2>5, <2>6, <2>7, <2>8, <2>9, <2>10 DEF IInv
<1> QED
  BY <1>2, <1>3, <1>5, <1>6

\* Every step of the driver keeps the invariant.
LEMMA NextIInv == IInv /\ [Next]_vars => IInv'
<1> SUFFICES ASSUME IInv, [Next]_vars PROVE IInv'
  OBVIOUS
<1>1. CASE UserCall
  BY <1>1, PutVarStep, PanStep, PanEnds, VsyncSteps, OverlaySteps, ControllerSteps DEF UserCall
<1>2. CASE Next /\ ~UserCall
  BY <1>2, BlankStep, ControllerSteps, SleepSteps DEF Next
<1>3. CASE UNCHANGED vars
  BY <1>3 DEF vars, IInv, WaitsOK, Offset
<1> QED
  BY <1>1, <1>2, <1>3

\* The invariant that the theorems below rest on: what the record of the driver
\* says in every state, also while a call sleeps or the machine does.
THEOREM DisplayInvariance == Spec => []IInv
<1> QED
  BY InitIInv, NextIInv, PTL DEF Spec

\* Every register and counter of struct mxsfb_info keeps its range; the count of
\* open overlay files and the two calls that mxsfb_set_par does not compare stay
\* within their bounds.
THEOREM DisplayTypes == Spec => []TypeOK
<1>1. IInv => TypeOK
  BY DEF IInv, WaitsOK, Typed, Errors, TypeOK
<1> QED
  BY <1>1, DisplayInvariance, PTL

\* The controller shows what the framebuffer reports after any history of mode
\* changes, pans, blanking and sleep (ModeInSync), whatever the modes.
THEOREM ScreenShowsMode == Spec => []ModeInSync
<1>1. IInv => ModeInSync
  BY DEF IInv, Powered, Shown, Offset, ModeInSync, ConsoleFree
<1> QED
  BY <1>1, DisplayInvariance, PTL

\* A cold-booted controller holds its regulator, its runtime PM reference and its
\* clocks exactly while it is unblanked, once each (PowerInStep).
THEOREM PowerFollowsBlank == Spec => []PowerInStep
<1>1. IInv => PowerInStep
  BY DEF IInv, Typed, Powered, PowerInStep
<1> QED
  BY <1>1, DisplayInvariance, PTL

\* No path but the three that ClocksGuarded names reaches the registers with the
\* pixel clock off.
THEOREM RegistersAreClocked == Spec => []ClocksGuarded
<1>1. IInv => ClocksGuarded
  BY DEF IInv, Powered, Lapses, ClocksGuarded
<1> QED
  BY <1>1, DisplayInvariance, PTL

\* The blending of the overlay survives every path that rewrites its registers
\* (OverlayInStep).
THEOREM OverlayIsBlended == Spec => []OverlayInStep
<1>1. IInv => OverlayInStep
  BY DEF IInv, Blended, OverlayInStep
<1> QED
  BY <1>1, DisplayInvariance, PTL

\* An interrupt storm needs a vsync wait that timed out (StormNeedsTimeout).
THEOREM StormIsAfterTimeout == Spec => []StormNeedsTimeout
<1>1. IInv => StormNeedsTimeout
  BY DEF IInv, Waited, StormNeedsTimeout
<1> QED
  BY <1>1, DisplayInvariance, PTL

=============================================================================
