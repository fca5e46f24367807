--------------------------- MODULE TapState_proofs ---------------------------
(***************************************************************************)
(* Proofs about TapState: the claims a program holds are enough, and what  *)
(* an open device remembers is what is in the TAP.  And about Hubs, where  *)
(* the overlay values of its nodes come from: the lock follows the hub     *)
(* that is read, and no hub is left open.                                  *)
(***************************************************************************)
EXTENDS TapState, Hubs, Lists_proofs

\* What is known of every claim of an open device.
ClaimsKnown ==
    /\ scenario \in Scenarios
    /\ \A o \in Opens : \A c \in claims[o] :
         /\ c.type \in IrTypes \cup OverlayTypes
         /\ c.type \in OverlayTypes => c.length \in {0, IF style[o] = "node" THEN Node[o].total ELSE 0}

\* claimed_class accepts every value that the server would let the program use,
\* whatever was claimed, provided the claims are for a register of this length.
LEMMA AvailableIsAccepted ==
    ASSUME NEW mine, NEW others, NEW type \in {"IR", "OVERLAY"}, NEW value, NEW length,
           \A c \in mine : /\ c.type \in IrTypes \cup OverlayTypes
                           /\ c.type \in OverlayTypes => c.length \in {0, length},
           Available(mine, others, type, value)
    PROVE  ClaimedClass(mine, type, value, length) # "NOCLAIM"
<1> DEFINE This(c) == (c.type \in OverlayTypes) = (type \in OverlayTypes)
<1>1. PICK c \in mine : /\ This(c)
                        /\ \/ c.value = value
                           \/ c.value = All /\ c.type \in WeakTypes
  BY DEF Available
<1>2. LengthFits(c, type, length)
  BY <1>1 DEF LengthFits
<1>3. CASE c.value = value
  BY <1>2, <1>3 DEF ClaimedClass
<1>4. CASE c.value = All /\ c.type \in WeakTypes
  <2>1. c.type = Weakened(type)
    BY <1>1, <1>4 DEF Weakened, WeakTypes, IrTypes, OverlayTypes
  <2> QED BY <1>2, <1>4, <2>1 DEF ClaimedClass
<1> QED BY <1>1, <1>3, <1>4

\* open_device and open_node keep what is known of claims.
LEMMA DeviceClaimsKnown ==
    ASSUME NEW mine, NEW total,
           \A c \in mine : /\ c.type \in IrTypes \cup OverlayTypes
                           /\ c.type \in OverlayTypes => c.length \in {0, total}
    PROVE  \A c \in DeviceClaims(mine) : /\ c.type \in IrTypes \cup OverlayTypes
                                         /\ c.type \in OverlayTypes => c.length \in {0, total}
<1>1. Claim("OVERLAY_SHARED", HUB_INFO, 0).type \in OverlayTypes
  BY DEF Claim, OverlayTypes
<1>2. Claim("OVERLAY_SHARED", HUB_INFO, 0).length = 0
  BY DEF Claim
<1> QED BY <1>1, <1>2 DEF DeviceClaims

\* The claims of a node, completed with those of its overlay, are known ones.
LEMMA NodeClaimsKnown ==
    ASSUME NEW hub, NEW node, NEW asked,
           \A c \in asked : c.length = 0 /\ c.type \in IrTypes \cup OverlayTypes
    PROVE  \A c \in NodeClaims(hub, node, asked) :
               /\ c.type \in IrTypes \cup OverlayTypes
               /\ c.type \in OverlayTypes => c.length \in {0, node.total}
<1> SUFFICES ASSUME NEW c \in NodeClaims(hub, node, asked)
             PROVE  /\ c.type \in IrTypes \cup OverlayTypes
                    /\ c.type \in OverlayTypes => c.length \in {0, node.total}
  OBVIOUS
<1>1. CASE c \in {Claim("IR_SHARED_OVERLAY", OverlayIr(hub), 0),
                  Claim("IR_SHARED_OVERLAID", OverlaidIr(hub), 0),
                  Claim("IR_SHARED", JTAG_PROGRAM, 0), Claim("OVERLAY_SHARED", node.force, node.total)}
  BY <1>1 DEF Claim, IrTypes, OverlayTypes
<1>2. CASE \E d \in asked : d.type \in {"IR", "IR_SHARED", "IR_WEAK"} /\ c = Claim(d.type, d.value, 0)
  BY <1>2 DEF Claim, IrTypes
<1>3. CASE \E d \in asked : d.type \in OverlayTypes /\ c = Claim(d.type, Selected(node, d.value), node.total)
  BY <1>3 DEF Claim
<1> QED BY <1>1, <1>2, <1>3 DEF NodeClaims

\* Opening a device stores the claims of its style.
LEMMA OpenKeepsClaims ==
    ASSUME ClaimsKnown, NEW o \in Opens, Open(o)
    PROVE  ClaimsKnown'
<1> DEFINE asked == scenario.asked[o]
           mine == IF style[o] = "node" THEN NodeClaims(HubClaims(HUB_INFO), Node[o], asked) ELSE asked
           Known(c, p) == /\ c.type \in IrTypes \cup OverlayTypes
                          /\ c.type \in OverlayTypes =>
                               c.length \in {0, IF style[p] = "node" THEN Node[p].total ELSE 0}
<1>1. \A c \in asked : c.length = 0 /\ c.type \in IrTypes \cup OverlayTypes
  BY TapClaims DEF ClaimsKnown
<1>2. \A c \in mine : Known(c, o)
  <2>1. CASE style[o] = "node" BY <1>1, <2>1, NodeClaimsKnown
  <2>2. CASE style[o] # "node" BY <1>1, <2>2
  <2> QED BY <2>1, <2>2
<1>3. \A c \in DeviceClaims(mine) : Known(c, o)
  <2> HIDE DEF mine
  <2> QED BY <1>2, DeviceClaimsKnown
<1>4. claims' = [claims EXCEPT ![o] = DeviceClaims(mine)] /\ scenario' = scenario
  BY DEF Open
<1>5. \A p \in Opens : \A c \in claims'[p] : Known(c, p)
  <2> HIDE DEF mine
  <2> SUFFICES ASSUME NEW p \in Opens, NEW c \in claims'[p]
               PROVE  Known(c, p)
    OBVIOUS
  <2>1. c \in claims[p] \/ (p = o /\ c \in DeviceClaims(mine))
    BY <1>4
  <2> QED BY <1>3, <2>1 DEF ClaimsKnown
<1> QED BY <1>4, <1>5 DEF ClaimsKnown, style

\* Every step keeps what is known of claims: only Open changes them.
LEMMA StepKeepsClaims == ClaimsKnown /\ [Next]_vars => ClaimsKnown'
<1> SUFFICES ASSUME ClaimsKnown, [Next]_vars
             PROVE  ClaimsKnown'
  OBVIOUS
<1>1. CASE \E o \in Opens : Open(o)
  BY <1>1, OpenKeepsClaims
<1>2. CASE UNCHANGED <<scenario, claims>>
  BY <1>2 DEF ClaimsKnown, style
<1>3. (\E o \in Opens : Open(o)) \/ UNCHANGED <<scenario, claims>>
  <2>1. CASE \E o \in Opens, p \in PackStyles : Lock(o, p)
    BY <2>1 DEF Lock
  <2>2. CASE CallAccessIr \/ CallAccessIrBits \/ CallAccessDr \/ CallRunTestIdle
             \/ CallTestLogicReset \/ CallDelay \/ CallAccessOverlay \/ CallFlush
    BY <2>2 DEF CallAccessIr, CallAccessIrBits, CallAccessDr, CallRunTestIdle,
                CallTestLogicReset, CallDelay, CallAccessOverlay, CallFlush, Done
  <2>3. CASE SendDeferred \/ Unlock
    BY <2>3 DEF SendDeferred, Unlock
  <2>4. CASE UNCHANGED vars
    BY <2>4 DEF vars
  <2> QED BY <2>1, <2>2, <2>3, <2>4 DEF Next
<1> QED BY <1>1, <1>2, <1>3

\* ClaimsKnown is enough for the property.
LEMMA KnownAreAccepted == ClaimsKnown => NothingWithheld
<1> SUFFICES ASSUME ClaimsKnown, NEW o \in Opens
             PROVE  LET length == IF style[o] = "node" THEN Node[o].total ELSE IrLength IN
                    /\ \A v \in Instructions : Available(claims[o], Others(o), "IR", v) =>
                         ClaimedClass(claims[o], "IR", v, 0) # "NOCLAIM"
                    /\ \A v \in Values : Available(claims[o], Others(o), "OVERLAY", v) =>
                         ClaimedClass(claims[o], "OVERLAY", v, length) # "NOCLAIM"
  BY DEF NothingWithheld
<1> DEFINE length == IF style[o] = "node" THEN Node[o].total ELSE IrLength
<1>1. \A c \in claims[o] : /\ c.type \in IrTypes \cup OverlayTypes
                           /\ c.type \in OverlayTypes => c.length \in {0, length}
  BY DEF ClaimsKnown
<1>2. ASSUME NEW v \in Values, Available(claims[o], Others(o), "OVERLAY", v)
      PROVE  ClaimedClass(claims[o], "OVERLAY", v, length) # "NOCLAIM"
  <2> HIDE DEF length
  <2> QED BY <1>1, <1>2, AvailableIsAccepted
<1>3. ASSUME NEW v \in Instructions, Available(claims[o], Others(o), "IR", v)
      PROVE  ClaimedClass(claims[o], "IR", v, 0) # "NOCLAIM"
  <2>1. PICK c \in claims[o] : /\ c.type \notin OverlayTypes
                               /\ c.value = v \/ (c.value = All /\ c.type \in WeakTypes)
    BY <1>3 DEF Available, OverlayTypes
  <2>2. LengthFits(c, "IR", 0)
    BY DEF LengthFits, OverlayTypes
  <2>3. c.value = v \/ (c.value = All /\ c.type = "IR_WEAK")
    BY <1>1, <2>1 DEF WeakTypes, OverlayTypes
  <2>4. Weakened("IR") = "IR_WEAK" /\ "IR" \notin WeakTypes
    BY DEF Weakened, WeakTypes
  <2>5. CASE c.value = v
    BY <2>2, <2>5 DEF ClaimedClass
  <2>6. CASE c.value = All /\ c.type = "IR_WEAK"
    BY <2>2, <2>4, <2>6 DEF ClaimedClass
  <2> QED BY <2>3, <2>5, <2>6
<1> QED BY <1>2, <1>3

\* The client never refuses an instruction, or a value of the overlay register, that
\* the server would permit: claimed_class accepts it, with any claims, nodes and
\* scenarios, whatever open_device and open_node added to the claims.
THEOREM NothingIsWithheld == Spec => []NothingWithheld
<1>1. Init => ClaimsKnown
  BY DEF Init, ClaimsKnown
<1> QED BY <1>1, StepKeepsClaims, KnownAreAccepted, PTL DEF Spec

-----------------------------------------------------------------------------
(* The commands of a packet and the TAP after each of them.                 *)

\* What a TAP is, in states of S, and the commands calls give: a sequence is one clock.
TapIn(S) == [state : S, ir : Nat, by : Opens \cup {Nobody}, overlay : Nat, capture : SUBSET Opens]
AnyTap == TapIn(TapStates)
ValidTap == TapIn(VALID_STATES)
IrCommands == [op : {"ir"}, value : Instructions \cup {JTAG_USR0, JTAG_USR1}]
DrCommands == [op : {"dr"}, value : Nat, whole : BOOLEAN, capture : BOOLEAN]
BareCommands == [op : {"irs", "reset", "delay"}]
IdleCommands == [op : {"idle"}, exit : BOOLEAN]
ClockCommands == [op : {"sequence"}, tms : {<<1>>}]
Given == IrCommands \cup DrCommands \cup BareCommands \cup IdleCommands \cup ClockCommands

\* The clock that calls give.
LEMMA OneClock == ASSUME NEW st PROVE UpdateState(<<1>>, st) = Clocked(st, 1)
<1> DEFINE Is(f) == f = [i \in 0 .. Len(<<1>>) |-> IF i = 0 THEN st ELSE Clocked(f[i - 1], <<1>>[i])]
           g == CHOOSE f : Is(f)
           h == [i \in 0 .. 1 |-> IF i = 0 THEN st ELSE Clocked(st, 1)]
<1>1. Len(<<1>>) = 1 /\ <<1>>[1] = 1
  OBVIOUS
<1>2. Is(h)
  <2>1. \A i \in 0 .. 1 : h[i] = IF i = 0 THEN st ELSE Clocked(h[i - 1], <<1>>[i])
    <3> HIDE DEF Clocked
    <3>1. h[0] = st /\ h[1] = Clocked(st, 1)
      OBVIOUS
    <3>2. \A i \in 0 .. 1 : i = 0 \/ (i = 1 /\ i - 1 = 0)
      OBVIOUS
    <3> HIDE DEF h
    <3> QED BY <1>1, <3>1, <3>2
  <2>2. h = [i \in 0 .. 1 |-> h[i]]
    OBVIOUS
  <2> HIDE DEF h
  <2> QED BY <1>1, <2>1, <2>2
<1>3. Is(g)
  BY <1>2
<1>4. UpdateState(<<1>>, st) = g[Len(<<1>>)]
  BY DEF UpdateState
<1> HIDE DEF g
<1>5. g[0] = st /\ g[1] = Clocked(g[0], 1)
  BY <1>1, <1>3
<1> QED BY <1>1, <1>4, <1>5

\* A clock with TMS 1 leads to a state, and but for SELECT_DR_SCAN from one in
\* which a call may begin to another.
LEMMA ClockedStates ==
    /\ VALID_STATES \subseteq TapStates
    /\ \A st \in TapStates : Clocked(st, 1) \in TapStates
    /\ Clocked("RUN_TEST_IDLE", 1) = "SELECT_DR_SCAN"
  BY DEF TapStates, Clocked, next_tap_state, VALID_STATES

\* Every command leaves a TAP.
LEMMA EffectTyped ==
    ASSUME NEW nodes \in SUBSET Opens, NEW o \in Opens, NEW t \in AnyTap, NEW c \in Given
    PROVE  Effect(nodes, o, t, c) \in AnyTap
<1>1. /\ t = [state |-> t.state, ir |-> t.ir, by |-> t.by, overlay |-> t.overlay, capture |-> t.capture]
      /\ t.state \in TapStates /\ t.ir \in Nat /\ t.by \in Opens \cup {Nobody}
      /\ t.overlay \in Nat /\ t.capture \in SUBSET Opens
  BY DEF AnyTap, TapIn
<1>2. {"UPDATE_IR", "UPDATE_DR", "SELECT_DR_SCAN", "RUN_TEST_IDLE", "TEST_LOGIC_RESET"} \subseteq TapStates
  BY DEF TapStates, next_tap_state
<1> HIDE DEF TapStates
<1>3. CASE c \in IrCommands
  <2>1. c.op = "ir" /\ c.value \in Nat
    <3>1. c.op = "ir" /\ c.value \in Instructions \cup {JTAG_USR0, JTAG_USR1}
      BY <1>3 DEF IrCommands
    <3>2. Instructions \subseteq Nat /\ JTAG_USR0 \in Nat /\ JTAG_USR1 \in Nat
      BY TapConstants DEF JTAG_USR0, JTAG_USR1
    <3> QED BY <3>1, <3>2
  <2>2. Effect(nodes, o, t, c) = [t EXCEPT !.ir = c.value, !.by = o, !.state = "UPDATE_IR"]
    BY <2>1 DEF Effect
  <2> QED BY <1>1, <1>2, <2>1, <2>2 DEF AnyTap, TapIn
<1>4. CASE c \in DrCommands
  BY <1>1, <1>2, <1>4 DEF Effect, DrCommands, AnyTap, TapIn, Forced
<1>5. CASE c \in BareCommands
  BY <1>1, <1>2, <1>5 DEF Effect, BareCommands, AnyTap, TapIn
<1>6. CASE c \in IdleCommands
  BY <1>1, <1>2, <1>6 DEF Effect, IdleCommands, AnyTap, TapIn
<1>7. CASE c \in ClockCommands
  <2>1. Effect(nodes, o, t, c) = [t EXCEPT !.state = Clocked(t.state, 1)]
    BY <1>7, OneClock DEF Effect, ClockCommands
  <2>2. Clocked(t.state, 1) \in TapStates
    BY <1>1, ClockedStates
  <2> QED BY <1>1, <2>1, <2>2 DEF AnyTap, TapIn
<1> QED BY <1>3, <1>4, <1>5, <1>6, <1>7 DEF Given

\* f is the function Taps(nodes, o, t, cs).
Follows(f, nodes, o, t, cs) ==
    /\ f[0] = t
    /\ \A i \in 1 .. Len(cs) : f[i] = Effect(nodes, o, f[i - 1], cs[i])

\* Taps is such a function, and its values are TAPs.
LEMMA TapsFollow ==
    ASSUME NEW nodes \in SUBSET Opens, NEW o \in Opens, NEW t \in AnyTap, NEW cs \in Seq(Given)
    PROVE  /\ Follows(Taps(nodes, o, t, cs), nodes, o, t, cs)
           /\ \A i \in 0 .. Len(cs) : Taps(nodes, o, t, cs)[i] \in AnyTap
<1> DEFINE step == [p \in (1 .. Len(cs)) \X AnyTap |-> Effect(nodes, o, p[2], cs[p[1]])]
           Is(f) == f = [i \in 0 .. Len(cs) |-> IF i = 0 THEN t ELSE Effect(nodes, o, f[i - 1], cs[i])]
           g == CHOOSE f : Is(f)
<1>1. Len(cs) \in Nat /\ \A n \in 1 .. Len(cs) : cs[n] \in Given
  <2> HIDE DEF Given
  <2> QED OBVIOUS
<1>2. step \in [(1 .. Len(cs)) \X AnyTap -> AnyTap]
  <2>1. ASSUME NEW p \in (1 .. Len(cs)) \X AnyTap
        PROVE  Effect(nodes, o, p[2], cs[p[1]]) \in AnyTap
    <3>1. p[2] \in AnyTap /\ cs[p[1]] \in Given
      BY <1>1
    <3> QED BY <3>1, EffectTyped
  <2> QED BY <2>1
<1>3. PICK f \in [0 .. Len(cs) -> AnyTap] : Recurs(f, Len(cs), t, step)
  <2> HIDE DEF step
  <2> QED BY <1>1, <1>2, RecursionUpto
<1>4. Is(f)
  <2>1. ASSUME NEW n \in 0 .. Len(cs), n # 0
        PROVE  f[n] = Effect(nodes, o, f[n - 1], cs[n])
    <3>1. n \in 1 .. Len(cs) /\ n - 1 \in 0 .. Len(cs)
      BY <1>1, <2>1
    <3>2. f[n] = step[<<n, f[n - 1]>>]
      BY <1>3, <3>1 DEF Recurs
    <3> QED BY <3>1, <3>2
  <2> HIDE DEF step
  <2> QED BY <1>3, <2>1 DEF Recurs
<1>5. Is(g)
  BY <1>4
<1>6. Taps(nodes, o, t, cs) = g
  BY DEF Taps
<1> HIDE DEF g
<1>7. g[0] = t
  BY <1>1, <1>5
<1>8. ASSUME NEW n \in 1 .. Len(cs)
      PROVE  g[n] = Effect(nodes, o, g[n - 1], cs[n])
  <2>1. n \in 0 .. Len(cs) /\ n # 0
    BY <1>1
  <2> QED BY <1>5, <2>1
<1>9. \A n \in 0 .. Len(cs) : g[n] \in AnyTap
  <2> DEFINE R == {n \in Nat : n <= Len(cs) => g[n] \in AnyTap}
  <2>1. 0 \in R
    BY <1>7
  <2>2. ASSUME NEW n \in Nat, n \in R
        PROVE  n + 1 \in R
    <3> SUFFICES ASSUME n + 1 <= Len(cs) PROVE g[n + 1] \in AnyTap
      OBVIOUS
    <3>1. n + 1 \in 1 .. Len(cs) /\ (n + 1) - 1 = n /\ g[n] \in AnyTap
      BY <1>1, <2>2
    <3>2. g[n + 1] = Effect(nodes, o, g[n], cs[n + 1])
      BY <1>8, <3>1
    <3> QED BY <1>1, <3>1, <3>2, EffectTyped
  <2> HIDE DEF R
  <2>3. \A n \in Nat : n \in R
    BY <2>1, <2>2, NatInductionOnSet
  <2> QED BY <1>1, <2>3 DEF R
<1> QED BY <1>6, <1>7, <1>8, <1>9 DEF Follows

\* One more command leaves what was before it and has its effect at the end.
LEMMA TapsAppend ==
    ASSUME NEW nodes \in SUBSET Opens, NEW o \in Opens, NEW t \in AnyTap, NEW cs \in Seq(Given), NEW c \in Given
    PROVE  LET f == Taps(nodes, o, t, cs)  g == Taps(nodes, o, t, Append(cs, c)) IN
           /\ \A i \in 0 .. Len(cs) : g[i] = f[i]
           /\ g[Len(cs) + 1] = Effect(nodes, o, f[Len(cs)], c)
<1> DEFINE f == Taps(nodes, o, t, cs)
           r == Append(cs, c)
           g == Taps(nodes, o, t, r)
<1>1. /\ r \in Seq(Given) /\ Len(r) = Len(cs) + 1 /\ Len(cs) \in Nat
      /\ r[Len(cs) + 1] = c /\ \A n \in 1 .. Len(cs) : r[n] = cs[n]
  <2> HIDE DEF Given
  <2> QED OBVIOUS
<1> HIDE DEF r
<1>2. Follows(f, nodes, o, t, cs) /\ Follows(g, nodes, o, t, r)
  BY <1>1, TapsFollow
<1> HIDE DEF f, g
<1> DEFINE E == {n \in Nat : n <= Len(cs) => g[n] = f[n]}
<1>3. \A n \in Nat : n \in E
  <2>1. 0 \in E
    BY <1>2 DEF Follows
  <2>2. ASSUME NEW n \in Nat, n \in E
        PROVE  n + 1 \in E
    <3> SUFFICES ASSUME n + 1 <= Len(cs) PROVE g[n + 1] = f[n + 1]
      OBVIOUS
    <3>1. n + 1 \in 1 .. Len(cs) /\ n + 1 \in 1 .. Len(r) /\ (n + 1) - 1 = n /\ g[n] = f[n]
      BY <1>1, <2>2
    <3>2. f[n + 1] = Effect(nodes, o, f[n], cs[n + 1]) /\ g[n + 1] = Effect(nodes, o, g[n], r[n + 1])
      BY <1>2, <3>1 DEF Follows
    <3> QED BY <1>1, <3>1, <3>2
  <2> HIDE DEF E
  <2> QED BY <2>1, <2>2, NatInductionOnSet
<1>4. \A i \in 0 .. Len(cs) : g[i] = f[i]
  BY <1>1, <1>3
<1>5. g[Len(cs) + 1] = Effect(nodes, o, f[Len(cs)], c)
  <2>1. Len(cs) + 1 \in 1 .. Len(r) /\ (Len(cs) + 1) - 1 = Len(cs) /\ Len(cs) \in 0 .. Len(cs)
    BY <1>1
  <2> QED BY <1>1, <1>2, <1>4, <2>1 DEF Follows
<1> QED BY <1>4, <1>5 DEF f, g, r

-----------------------------------------------------------------------------
(* What packed commands will do to the TAP.                                 *)

\* The TAP when the commands cs are executed.
Ends(nodes, o, t, cs) == Taps(nodes, o, t, cs)[Len(cs)]

\* Wherever the packet ends the TAP is in a state in which a call may begin, and
\* every capture is of the device's own node.
Held(nodes, o, t, cs) ==
    /\ \A i \in 0 .. Len(cs) : Taps(nodes, o, t, cs)[i].state \in VALID_STATES
    /\ \A i \in 1 .. Len(cs) : Captures(cs[i]) => o \in Taps(nodes, o, t, cs)[i - 1].capture

\* The greatest of some numbers is one of them.
LEMMA MaxOfSome ==
    ASSUME NEW n \in Nat, NEW S \in SUBSET (1 .. n), S # {}
    PROVE  Max(S) \in S
<1> DEFINE Great(U) == \E x \in U : \A y \in U : x >= y
           P == {m \in Nat : \A U \in SUBSET (1 .. m) : U # {} => Great(U)}
<1>1. 0 \in P
  <2>1. 1 .. 0 = {}
    OBVIOUS
  <2> HIDE DEF Great
  <2> QED BY <2>1
<1>2. ASSUME NEW m \in Nat, m \in P
      PROVE  m + 1 \in P
  <2> SUFFICES ASSUME NEW U \in SUBSET (1 .. m + 1), U # {} PROVE Great(U)
    OBVIOUS
  <2>1. CASE m + 1 \in U
    <3>1. \A y \in U : m + 1 >= y
      OBVIOUS
    <3> QED BY <2>1, <3>1
  <2>2. CASE m + 1 \notin U
    <3>1. U \in SUBSET (1 .. m)
      <4>1. \A y \in 1 .. m + 1 : y # m + 1 => y \in 1 .. m
        OBVIOUS
      <4> QED BY <2>2, <4>1
    <3> HIDE DEF Great
    <3> QED BY <1>2, <3>1
  <2> QED BY <2>1, <2>2
<1> HIDE DEF P
<1>3. \A m \in Nat : m \in P
  BY <1>1, <1>2, NatInductionOnSet
<1>4. Great(S)
  BY <1>3 DEF P
<1> QED BY <1>4 DEF Max

\* Without commands nothing happens.
LEMMA HeldNothing ==
    ASSUME NEW nodes \in SUBSET Opens, NEW o \in Opens, NEW t \in ValidTap
    PROVE  Held(nodes, o, t, <<>>) /\ Ends(nodes, o, t, <<>>) = t
<1>1. t \in AnyTap /\ t.state \in VALID_STATES
  BY ClockedStates DEF ValidTap, AnyTap, TapIn
<1>2. <<>> \in Seq(Given) /\ Len(<<>>) = 0
  BY EmptySeq
<1>3. Taps(nodes, o, t, <<>>)[0] = t
  BY <1>1, <1>2, TapsFollow DEF Follows
<1>4. \A i \in 0 .. 0 : i = 0
  OBVIOUS
<1> QED BY <1>1, <1>2, <1>3, <1>4 DEF Held, Ends

\* The TAP at the end is a TAP, in a state in which a call may begin.
LEMMA EndsTyped ==
    ASSUME NEW nodes \in SUBSET Opens, NEW o \in Opens, NEW t \in AnyTap, NEW cs \in Seq(Given),
           Held(nodes, o, t, cs)
    PROVE  /\ Ends(nodes, o, t, cs) \in AnyTap
           /\ Ends(nodes, o, t, cs).state \in VALID_STATES
<1>1. Len(cs) \in 0 .. Len(cs)
  BY LenProperties
<1> QED BY <1>1, TapsFollow DEF Ends, Held

\* One more command.
LEMMA HeldMore ==
    ASSUME NEW nodes \in SUBSET Opens, NEW o \in Opens, NEW t \in AnyTap, NEW cs \in Seq(Given), NEW c \in Given,
           Held(nodes, o, t, cs),
           Effect(nodes, o, Ends(nodes, o, t, cs), c).state \in VALID_STATES,
           Captures(c) => o \in Ends(nodes, o, t, cs).capture
    PROVE  /\ Held(nodes, o, t, Append(cs, c))
           /\ Ends(nodes, o, t, Append(cs, c)) = Effect(nodes, o, Ends(nodes, o, t, cs), c)
<1> DEFINE f == Taps(nodes, o, t, cs)
           r == Append(cs, c)
           g == Taps(nodes, o, t, r)
<1>1. /\ Len(r) = Len(cs) + 1 /\ Len(cs) \in Nat
      /\ r[Len(cs) + 1] = c /\ \A n \in 1 .. Len(cs) : r[n] = cs[n]
  <2> HIDE DEF Given
  <2> QED OBVIOUS
<1>2. /\ \A i \in 0 .. Len(cs) : g[i] = f[i]
      /\ g[Len(cs) + 1] = Effect(nodes, o, f[Len(cs)], c)
  BY TapsAppend
<1> HIDE DEF f, g, r
<1>3. Ends(nodes, o, t, cs) = f[Len(cs)]
  BY DEF Ends, f
<1>4. Ends(nodes, o, t, r) = Effect(nodes, o, f[Len(cs)], c)
  BY <1>1, <1>2 DEF Ends, g
<1>5. ASSUME NEW i \in 0 .. Len(r)
      PROVE  g[i].state \in VALID_STATES
  <2>1. CASE i = Len(cs) + 1
    BY <1>2, <1>3, <2>1
  <2>2. CASE i # Len(cs) + 1
    <3>1. i \in 0 .. Len(cs)
      BY <1>1, <2>2
    <3> QED BY <1>2, <3>1 DEF Held, f
  <2> QED BY <2>1, <2>2
<1>6. ASSUME NEW i \in 1 .. Len(r), Captures(r[i])
      PROVE  o \in g[i - 1].capture
  <2>1. CASE i = Len(cs) + 1
    <3>1. i - 1 = Len(cs) /\ i - 1 \in 0 .. Len(cs)
      BY <1>1, <2>1
    <3> QED BY <1>1, <1>2, <1>3, <1>6, <2>1, <3>1
  <2>2. CASE i # Len(cs) + 1
    <3>1. i \in 1 .. Len(cs) /\ i - 1 \in 0 .. Len(cs)
      BY <1>1, <2>2
    <3> QED BY <1>1, <1>2, <1>6, <3>1 DEF Held, f
  <2> QED BY <2>1, <2>2
<1> QED BY <1>3, <1>4, <1>5, <1>6 DEF Held, g, r

\* A value that was captured for a device was captured from its node.
CaughtOwn(got) ==
    /\ got \in [of : Opens \cup {Nobody}, from : SUBSET Opens]
    /\ got.of # Nobody => got.of \in got.from

\* What the server may make of a packet.
LEMMA OutcomeTyped ==
    ASSUME NEW o \in Opens, NEW t \in AnyTap, NEW cs \in Seq(Given), NEW got,
           Held(Nodes, o, t, cs), CaughtOwn(got), NEW e \in Outcomes(o, t, got, cs)
    PROVE  /\ e.tap \in ValidTap /\ CaughtOwn(e.caught) /\ e.refused \in BOOLEAN
           /\ ~e.refused => e.tap = Ends(Nodes, o, t, cs)
<1>1. Nodes \in SUBSET Opens
  BY DEF Nodes
<1> DEFINE at == Taps(Nodes, o, t, cs)
<1>2. Len(cs) \in Nat /\ \A i \in 0 .. Len(cs) : at[i] \in AnyTap
  BY <1>1, TapsFollow, LenProperties
<1>3. PICK n \in 0 .. Len(cs) :
          e = [tap |-> at[n], caught |-> Caught(o, at, cs, n, got), refused |-> n < Len(cs)]
  BY DEF Outcomes
<1>4. e.tap = at[n] /\ e.caught = Caught(o, at, cs, n, got) /\ e.refused = (n < Len(cs))
  <2> HIDE DEF at
  <2> QED BY <1>3
<1>5. at[n] \in ValidTap
  <2>1. at[n] \in AnyTap /\ at[n].state \in VALID_STATES
    BY <1>2 DEF Held
  <2> HIDE DEF at
  <2> QED BY <2>1 DEF AnyTap, ValidTap, TapIn
<1>6. CaughtOwn(Caught(o, at, cs, n, got))
  <2> DEFINE captures == {i \in 1 .. n : Captures(cs[i])}
  <2>1. CASE captures = {}
    BY <2>1 DEF Caught
  <2>2. CASE captures # {}
    <3>1. Max(captures) \in captures
      <4>1. n \in Nat /\ captures \in SUBSET (1 .. n)
        BY <1>2
      <4> HIDE DEF captures
      <4> QED BY <2>2, <4>1, MaxOfSome
    <3>2. PICK i \in 1 .. n : i = Max(captures) /\ Captures(cs[i])
      BY <3>1
    <3>3. Caught(o, at, cs, n, got) = [of |-> o, from |-> at[i - 1].capture]
      BY <2>2, <3>2 DEF Caught
    <3>4. i \in 1 .. Len(cs) /\ i - 1 \in 0 .. Len(cs)
      BY <1>2
    <3>5. o \in at[i - 1].capture
      BY <3>2, <3>4 DEF Held
    <3>6. at[i - 1].capture \in SUBSET Opens
      <4>1. at[i - 1] \in AnyTap
        BY <1>2, <3>4
      <4> HIDE DEF at
      <4> QED BY <4>1 DEF AnyTap, TapIn
    <3> HIDE DEF at
    <3> QED BY <3>3, <3>5, <3>6 DEF CaughtOwn
  <2> QED BY <2>1, <2>2
<1>7. ~(n < Len(cs)) => at[n] = Ends(Nodes, o, t, cs)
  <2>1. ~(n < Len(cs)) => n = Len(cs)
    BY <1>2
  <2> QED BY <2>1 DEF Ends
<1> HIDE DEF at
<1>8. e.refused \in BOOLEAN
  <2>1. (n < Len(cs)) \in BOOLEAN
    OBVIOUS
  <2> QED BY <1>4, <2>1
<1>9. ~e.refused => e.tap = Ends(Nodes, o, t, cs)
  BY <1>4, <1>7
<1> QED BY <1>4, <1>5, <1>6, <1>8, <1>9

-----------------------------------------------------------------------------
(* The calls on a session.                                                  *)

Remembered == [overlay : BOOLEAN, instruction : Nat, deferError : BOOLEAN]
Capture == [of : Opens \cup {Nobody}, from : SUBSET Opens]
Errors == {"none", "refused", "parameter", "state", "claimed", "pending", "version", "sequence"}
Sessions == [open : Remembered, state : VALID_STATES, tap : AnyTap, packed : Seq(Given),
             caught : Capture, error : Errors]

\* The TAP when what the session has packed is executed.
EndOf(s) == Ends(Nodes, locked, s.tap, s.packed)

\* No error is kept for the device.
NoError(m) == m.deferError = FALSE

\* What is true of a session after any call.
Sane(s) ==
    /\ s \in Sessions /\ Len(s.packed) <= MaxPacked
    /\ Held(Nodes, locked, s.tap, s.packed) /\ CaughtOwn(s.caught)
    /\ s.packed # <<>> => NoError(s.open)

\* What the device o with claims mine remembers, m and the state st, is what the
\* TAP will be, t: if it is the one that loads the instruction.
Agrees(o, mine, ver, m, st, t) ==
    t.by = o =>
        /\ m.instruction = t.ir
        /\ m.overlay = (t.ir = OverlayIr(mine))
        /\ st = t.state \/ (st = "RUN_TEST_IDLE" /\ t.state = "SELECT_DR_SCAN" /\ ver >= 12)

\* A scan of the overlay register, selected in the TAP t, writes all of it, with
\* a value that is claimed.
ScanClaimed(o, mine, t, c) ==
    c.op = "dr" /\ t.by = o /\ t.ir = OverlayIr(mine) =>
        c.whole /\ \E d \in mine : d.value = c.value

\* All that is packed is such.
ScansClaimed(nodes, o, mine, t, cs) ==
    \A i \in 1 .. Len(cs) : ScanClaimed(o, mine, Taps(nodes, o, t, cs)[i - 1], cs[i])

Tells(s) == Agrees(locked, claims[locked], version, s.open, s.state, EndOf(s))
Claimed(s) == ScansClaimed(Nodes, locked, claims[locked], s.tap, s.packed)

\* Fields of a session.
LEMMA SessionFields ==
    ASSUME NEW s \in Sessions
    PROVE  /\ s.open \in Remembered /\ s.state \in VALID_STATES /\ s.tap \in AnyTap
           /\ s.packed \in Seq(Given) /\ s.caught \in Capture /\ s.error \in Errors
  BY DEF Sessions

\* A scan more, claimed if it must be.
LEMMA ClaimedMore ==
    ASSUME NEW nodes \in SUBSET Opens, NEW o \in Opens, NEW mine, NEW t \in AnyTap, NEW cs \in Seq(Given), NEW c \in Given,
           ScansClaimed(nodes, o, mine, t, cs), ScanClaimed(o, mine, Ends(nodes, o, t, cs), c)
    PROVE  ScansClaimed(nodes, o, mine, t, Append(cs, c))
<1> DEFINE f == Taps(nodes, o, t, cs)
           r == Append(cs, c)
           g == Taps(nodes, o, t, r)
<1>1. /\ Len(r) = Len(cs) + 1 /\ Len(cs) \in Nat
      /\ r[Len(cs) + 1] = c /\ \A n \in 1 .. Len(cs) : r[n] = cs[n]
  <2> HIDE DEF Given
  <2> QED OBVIOUS
<1>2. \A i \in 0 .. Len(cs) : g[i] = f[i]
  BY TapsAppend
<1> HIDE DEF f, g, r
<1>3. Ends(nodes, o, t, cs) = f[Len(cs)]
  BY DEF Ends, f
<1>4. ASSUME NEW i \in 1 .. Len(r)
      PROVE  ScanClaimed(o, mine, g[i - 1], r[i])
  <2>1. CASE i = Len(cs) + 1
    <3>1. i - 1 = Len(cs) /\ i - 1 \in 0 .. Len(cs)
      BY <1>1, <2>1
    <3> QED BY <1>1, <1>2, <1>3, <2>1, <3>1
  <2>2. CASE i # Len(cs) + 1
    <3>1. i \in 1 .. Len(cs) /\ i - 1 \in 0 .. Len(cs)
      BY <1>1, <2>2
    <3>2. ScanClaimed(o, mine, f[i - 1], cs[i])
      BY <3>1 DEF ScansClaimed, f
    <3> QED BY <1>1, <1>2, <3>1, <3>2
  <2> QED BY <2>1, <2>2
<1> QED BY <1>4 DEF ScansClaimed, g, r

\* Nothing packed is nothing unclaimed.
LEMMA NothingClaimed == ASSUME NEW nodes, NEW o, NEW mine, NEW t PROVE ScansClaimed(nodes, o, mine, t, <<>>)
  BY DEF ScansClaimed

\* What is packed is sent, with cs: everything is executed, or there is an error.
LEMMA Sends ==
    ASSUME locked \in Opens, NEW s, Sane(s), s.error = "none", NEW cs, NEW q \in Seq(Given), q = s.packed \o cs,
           Held(Nodes, locked, s.tap, q), NEW r \in SendReceive(s, cs)
    PROVE  /\ Sane(r) /\ r.open = s.open /\ r.state = s.state /\ r.packed = <<>>
           /\ r.error \in {"none", "refused"}
           /\ r.error = "none" => EndOf(r) = Ends(Nodes, locked, s.tap, q)
           /\ Claimed(r) /\ r.tap \in ValidTap
<1>0. s \in Sessions /\ CaughtOwn(s.caught)
  BY DEF Sane
<1>f. /\ s.open \in Remembered /\ s.state \in VALID_STATES /\ s.tap \in AnyTap
      /\ s.packed \in Seq(Given) /\ s.caught \in Capture /\ s.error \in Errors
  BY <1>0, SessionFields
<1>1. PICK e \in Outcomes(locked, s.tap, s.caught, q) :
          r = [s EXCEPT !.tap = e.tap, !.caught = e.caught, !.packed = <<>>,
                        !.error = IF e.refused THEN "refused" ELSE @]
  BY DEF SendReceive
<1>2. /\ e.tap \in ValidTap /\ CaughtOwn(e.caught) /\ e.refused \in BOOLEAN
      /\ ~e.refused => e.tap = Ends(Nodes, locked, s.tap, q)
  BY <1>0, <1>f, OutcomeTyped
<1>3. s = [open |-> s.open, state |-> s.state, tap |-> s.tap, packed |-> s.packed,
           caught |-> s.caught, error |-> s.error]
  <2> HIDE DEF Given
  <2> QED BY <1>0 DEF Sessions
<1> DEFINE error == IF e.refused THEN "refused" ELSE "none"
<1>4. /\ r.open = s.open /\ r.state = s.state /\ r.tap = e.tap /\ r.packed = <<>>
      /\ r.caught = e.caught /\ r.error = error
      /\ r = [open |-> s.open, state |-> s.state, tap |-> e.tap, packed |-> <<>>,
              caught |-> e.caught, error |-> error]
  BY <1>1, <1>3
<1>5. error \in {"none", "refused"} /\ (error = "none" => ~e.refused) /\ error \in Errors
  <2>1. CASE e.refused
    BY <2>1 DEF Errors
  <2>2. CASE ~e.refused
    BY <2>2 DEF Errors
  <2> QED BY <2>1, <2>2
<1> HIDE DEF error
<1>6. e.tap \in AnyTap /\ e.caught \in Capture /\ <<>> \in Seq(Given)
  <2>1. e.tap \in AnyTap
    BY <1>2, ClockedStates DEF ValidTap, AnyTap, TapIn
  <2>2. e.caught \in Capture
    BY <1>2 DEF CaughtOwn, Capture
  <2> QED BY <2>1, <2>2, EmptySeq
<1>7. r \in Sessions
  BY <1>4, <1>5, <1>6, <1>f DEF Sessions
<1>8. Held(Nodes, locked, e.tap, <<>>) /\ Ends(Nodes, locked, e.tap, <<>>) = e.tap
  BY <1>2, HeldNothing DEF Nodes
<1>9. Len(<<>>) = 0 /\ 0 <= MaxPacked
  BY TapConstants
<1>10. Sane(r)
  BY <1>2, <1>4, <1>7, <1>8, <1>9 DEF Sane
<1>11. EndOf(r) = e.tap /\ Claimed(r)
  BY <1>4, <1>8, NothingClaimed DEF EndOf, Claimed
<1> QED BY <1>2, <1>4, <1>5, <1>10, <1>11

\* A command is given: packed or sent, it is the last to have its effect.
LEMMA Gives ==
    ASSUME locked \in Opens, NEW s, Sane(s), s.error = "none", NoError(s.open),
           NEW c \in Given, NEW defer \in BOOLEAN,
           Effect(Nodes, locked, EndOf(s), c).state \in VALID_STATES,
           Captures(c) => locked \in EndOf(s).capture,
           defer => Len(s.packed) < MaxPacked,
           NEW r \in Give(s, c, defer)
    PROVE  /\ Sane(r) /\ r.open = s.open /\ r.state = s.state
           /\ r.error \in {"none", "refused"}
           /\ r.error = "none" => EndOf(r) = Effect(Nodes, locked, EndOf(s), c)
           /\ Claimed(s) /\ (defer => ScanClaimed(locked, claims[locked], EndOf(s), c)) => Claimed(r)
<1>0. /\ s \in Sessions /\ Len(s.packed) <= MaxPacked /\ CaughtOwn(s.caught)
      /\ Held(Nodes, locked, s.tap, s.packed)
  BY DEF Sane
<1>f. /\ s.open \in Remembered /\ s.state \in VALID_STATES /\ s.tap \in AnyTap
      /\ s.packed \in Seq(Given) /\ s.caught \in Capture /\ s.error \in Errors
  BY <1>0, SessionFields
<1> DEFINE q == Append(s.packed, c)
<1>1. q \in Seq(Given) /\ q = s.packed \o <<c>> /\ Len(q) = Len(s.packed) + 1 /\ Len(s.packed) \in Nat
  <2>1. s.packed \in Seq(Given)
    BY <1>f
  <2> HIDE DEF Given
  <2> QED BY <2>1
<1>2. /\ Held(Nodes, locked, s.tap, q)
      /\ Ends(Nodes, locked, s.tap, q) = Effect(Nodes, locked, EndOf(s), c)
  <2>1. Nodes \in SUBSET Opens
    BY DEF Nodes
  <2> QED BY <1>0, <1>f, <2>1, HeldMore DEF EndOf
<1>3. CASE ~defer
  <2>1. r \in SendReceive(s, <<c>>)
    BY <1>3 DEF Give
  <2> HIDE DEF q
  <2>2. /\ Sane(r) /\ r.open = s.open /\ r.state = s.state /\ r.packed = <<>>
        /\ r.error \in {"none", "refused"}
        /\ r.error = "none" => EndOf(r) = Ends(Nodes, locked, s.tap, q)
        /\ Claimed(r)
    BY <1>1, <1>2, <2>1, Sends
  <2> QED BY <1>2, <2>2
<1>4. CASE defer
  <2>1. r = [s EXCEPT !.packed = q]
    BY <1>4 DEF Give
  <2> HIDE DEF q
  <2>2. s = [open |-> s.open, state |-> s.state, tap |-> s.tap, packed |-> s.packed,
             caught |-> s.caught, error |-> s.error]
    <3> HIDE DEF Given
    <3> QED BY <1>0 DEF Sessions
  <2>3. /\ r.open = s.open /\ r.state = s.state /\ r.tap = s.tap /\ r.packed = q
        /\ r.caught = s.caught /\ r.error = s.error
        /\ r = [open |-> s.open, state |-> s.state, tap |-> s.tap, packed |-> q,
                caught |-> s.caught, error |-> s.error]
    BY <2>1, <2>2
  <2>4. r \in Sessions
    BY <1>1, <1>f, <2>3 DEF Sessions
  <2>5. Len(q) <= MaxPacked
    BY <1>1, <1>4, TapConstants
  <2>6. Sane(r)
    BY <1>0, <1>2, <2>3, <2>4, <2>5 DEF Sane
  <2>7. EndOf(r) = Effect(Nodes, locked, EndOf(s), c)
    BY <1>2, <2>3 DEF EndOf
  <2>8. Claimed(s) /\ ScanClaimed(locked, claims[locked], EndOf(s), c) => Claimed(r)
    <3>1. Nodes \in SUBSET Opens
      BY DEF Nodes
    <3> QED BY <1>f, <2>3, <3>1, ClaimedMore DEF Claimed, EndOf, q
  <2> QED BY <1>4, <2>3, <2>6, <2>7, <2>8
<1> QED BY <1>3, <1>4

\* A session with another memory, state and result.
Revised(s, m, st, error) == [s EXCEPT !.open = m, !.state = st, !.error = error]

\* What a session remembers changes; what it has sent and packed does not.
LEMMA Changed ==
    ASSUME NEW s, Sane(s), NEW m \in Remembered, NEW st \in VALID_STATES, NEW error \in Errors, NEW r,
           r = Revised(s, m, st, error), s.packed # <<>> => NoError(m)
    PROVE  /\ Sane(r) /\ r.open = m /\ r.state = st /\ r.error = error
           /\ EndOf(r) = EndOf(s) /\ (Claimed(r) <=> Claimed(s)) /\ r.tap = s.tap /\ r.packed = s.packed
<1>0. /\ s \in Sessions /\ Len(s.packed) <= MaxPacked /\ CaughtOwn(s.caught)
      /\ Held(Nodes, locked, s.tap, s.packed)
      /\ s.packed # <<>> => NoError(m)
  BY DEF Sane
<1>f. /\ s.open \in Remembered /\ s.state \in VALID_STATES /\ s.tap \in AnyTap
      /\ s.packed \in Seq(Given) /\ s.caught \in Capture /\ s.error \in Errors
  BY <1>0, SessionFields
<1>1. s = [open |-> s.open, state |-> s.state, tap |-> s.tap, packed |-> s.packed,
           caught |-> s.caught, error |-> s.error]
  <2> HIDE DEF Given
  <2> QED BY <1>0 DEF Sessions
<1>2. /\ r.open = m /\ r.state = st /\ r.tap = s.tap /\ r.packed = s.packed
      /\ r.caught = s.caught /\ r.error = error
      /\ r = [open |-> m, state |-> st, tap |-> s.tap, packed |-> s.packed,
              caught |-> s.caught, error |-> error]
  BY <1>1 DEF Revised
<1>3. r \in Sessions
  BY <1>f, <1>2 DEF Sessions
<1>4. Sane(r)
  BY <1>0, <1>2, <1>3 DEF Sane
<1>5. EndOf(r) = EndOf(s) /\ (Claimed(r) <=> Claimed(s))
  BY <1>2 DEF EndOf, Claimed
<1> QED BY <1>2, <1>4, <1>5

\* The same change, as it is written for a session that keeps a part of these.
LEMMA ChangedParts ==
    ASSUME NEW s \in Sessions
    PROVE  /\ \A error : [s EXCEPT !.error = error] = Revised(s, s.open, s.state, error)
           /\ \A st : [s EXCEPT !.state = st] = Revised(s, s.open, st, s.error)
           /\ [[s EXCEPT !.open.deferError = FALSE] EXCEPT !.error = "pending"]
                  = Revised(s, [s.open EXCEPT !.deferError = FALSE], s.state, "pending")
           /\ \A i : LoadedIr(s, i)
                  = Revised(s, [s.open EXCEPT !.overlay = (i = OverlayIr(claims[locked])), !.instruction = i],
                              "UPDATE_IR", s.error)
<1>1. s = [open |-> s.open, state |-> s.state, tap |-> s.tap, packed |-> s.packed,
           caught |-> s.caught, error |-> s.error]
  <2> HIDE DEF Given
  <2> QED BY DEF Sessions
<1>2. s.open = [overlay |-> s.open.overlay, instruction |-> s.open.instruction, deferError |-> s.open.deferError]
  <2>1. s.open \in Remembered
    BY SessionFields
  <2> QED BY <2>1 DEF Remembered
<1>3. \A error : [s EXCEPT !.error = error] = Revised(s, s.open, s.state, error)
  BY <1>1 DEF Revised
<1>4. \A st : [s EXCEPT !.state = st] = Revised(s, s.open, st, s.error)
  BY <1>1 DEF Revised
<1>5. [[s EXCEPT !.open.deferError = FALSE] EXCEPT !.error = "pending"]
          = Revised(s, [s.open EXCEPT !.deferError = FALSE], s.state, "pending")
  BY <1>1 DEF Revised
<1>6. ASSUME NEW i
      PROVE  LoadedIr(s, i)
                = Revised(s, [s.open EXCEPT !.overlay = (i = OverlayIr(claims[locked])), !.instruction = i],
                              "UPDATE_IR", s.error)
  BY <1>1, <1>2 DEF LoadedIr, Revised
<1> QED BY <1>3, <1>4, <1>5, <1>6

\* A call that is refused by the client changes nothing but the error.
LEMMA Fails ==
    ASSUME NEW s, Sane(s), NEW error \in Errors, NEW r \in Fail(s, error)
    PROVE  Sane(r) /\ r.error = error
<1>1. s \in Sessions
  BY DEF Sane
<1>2. r = Revised(s, s.open, s.state, error)
  BY <1>1, ChangedParts DEF Fail
<1>3. s.open \in Remembered /\ s.state \in VALID_STATES
  BY <1>1, SessionFields
<1>4. s.packed # <<>> => NoError(s.open)
  BY DEF Sane
<1> QED BY <1>2, <1>3, <1>4, Changed

\* An error that was kept for this device is reported, once.
LEMMA PendingTold ==
    ASSUME NEW s, Sane(s), NEW r \in Pending(s)
    PROVE  Sane(r) /\ r.error = "pending"
<1>1. s \in Sessions
  BY DEF Sane
<1>2. r = Revised(s, [s.open EXCEPT !.deferError = FALSE], s.state, "pending")
  BY <1>1, ChangedParts DEF Fail, Pending
<1>3. s.open \in Remembered /\ s.state \in VALID_STATES
  BY <1>1, SessionFields
<1>4. [s.open EXCEPT !.deferError = FALSE] \in Remembered /\ NoError([s.open EXCEPT !.deferError = FALSE])
  BY <1>3 DEF Remembered, NoError
<1>5. "pending" \in Errors
  BY DEF Errors
<1> QED BY <1>2, <1>3, <1>4, <1>5, Changed

\* The TAP at the end of a session.
LEMMA EndOfTyped ==
    ASSUME locked \in Opens, NEW s, Sane(s)
    PROVE  /\ EndOf(s) \in AnyTap /\ EndOf(s).state \in VALID_STATES
           /\ EndOf(s) = [state |-> EndOf(s).state, ir |-> EndOf(s).ir, by |-> EndOf(s).by,
                          overlay |-> EndOf(s).overlay, capture |-> EndOf(s).capture]
<1>1. s \in Sessions /\ Held(Nodes, locked, s.tap, s.packed)
  BY DEF Sane
<1>2. s.tap \in AnyTap /\ s.packed \in Seq(Given)
  BY <1>1, SessionFields
<1>3. EndOf(s) \in AnyTap /\ EndOf(s).state \in VALID_STATES
  BY <1>1, <1>2, EndsTyped DEF EndOf, Nodes
<1> QED BY <1>3 DEF AnyTap, TapIn

\* What an access_ir of the instruction i has made of the session s: what is
\* remembered is what the TAP has, or will have, whatever was before.
Loaded(s, i, r) ==
    /\ Sane(r)
    /\ r.error = "none" =>
         /\ s.open.deferError = FALSE /\ r.open.deferError = FALSE
         /\ r.open.overlay = (i = OverlayIr(claims[locked])) /\ r.state = "UPDATE_IR"
         /\ EndOf(r).by = locked /\ EndOf(r).ir = i
         /\ EndOf(r).overlay = EndOf(s).overlay /\ EndOf(r).capture = EndOf(s).capture
         /\ Tells(r) /\ (Claimed(s) => Claimed(r))

\* access_ir, that succeeds or packs the command.
LEMMA AccessIrLoads ==
    ASSUME locked \in Opens, NEW s, Sane(s), s.error = "none",
           NEW i \in Instructions \cup {JTAG_USR0, JTAG_USR1}, NEW reads, reads \in BOOLEAN,
           NEW r \in AccessIr(s, i, reads)
    PROVE  Loaded(s, i, r)
<1>0. s \in Sessions /\ Len(s.packed) <= MaxPacked /\ s.packed \in Seq(Given) /\ s.open \in Remembered
  BY SessionFields DEF Sane
<1> DEFINE class == ClaimedClass(claims[locked], "IR", i, 0)
           c == [op |-> "ir", value |-> i]
           defer == DeferIr(s, class, reads)
<1>1. (\E error \in Errors \ {"none"} : r \in Fail(s, error)) \/ r \in Pending(s)
      \/ (s.open.deferError = FALSE /\ \E g \in Give(s, c, defer) : r = IF g.error = "none" THEN LoadedIr(g, i) ELSE g)
  <2>1. "parameter" \in Errors \ {"none"} /\ "state" \in Errors \ {"none"} /\ "claimed" \in Errors \ {"none"}
    BY DEF Errors
  <2>2. s.open.deferError \in BOOLEAN
    BY <1>0 DEF Remembered
  <2> QED BY <2>1, <2>2 DEF AccessIr
<1>2. CASE \E error \in Errors \ {"none"} : r \in Fail(s, error)
  BY <1>2, Fails DEF Loaded
<1>3. CASE r \in Pending(s)
  BY <1>3, PendingTold DEF Loaded
<1>4. ASSUME s.open.deferError = FALSE, NEW g \in Give(s, c, defer), r = IF g.error = "none" THEN LoadedIr(g, i) ELSE g
      PROVE  /\ Sane(r)
             /\ r.error = "none" =>
                  /\ r.open.deferError = FALSE
                  /\ r.open.overlay = (i = OverlayIr(claims[locked])) /\ r.state = "UPDATE_IR"
                  /\ EndOf(r).by = locked /\ EndOf(r).ir = i
                  /\ EndOf(r).overlay = EndOf(s).overlay /\ EndOf(r).capture = EndOf(s).capture
                  /\ Tells(r) /\ (Claimed(s) => Claimed(r))
  <2>1. c \in Given /\ ~Captures(c) /\ c.op = "ir" /\ c.value = i
    <3>1. c \in IrCommands
      BY DEF IrCommands
    <3> QED BY <3>1 DEF Given, Captures
  <2>2. defer \in BOOLEAN /\ (defer => Len(s.packed) < MaxPacked)
    BY DEF DeferIr, MayPack
  <2>3. ~ScanClaimed(locked, claims[locked], EndOf(s), c) => FALSE
    BY <2>1 DEF ScanClaimed
  <2> DEFINE e == Effect(Nodes, locked, EndOf(s), c)
  <2>4. /\ e.state = "UPDATE_IR" /\ e.ir = i /\ e.by = locked
        /\ e.overlay = EndOf(s).overlay /\ e.capture = EndOf(s).capture
    <3>1. e = [EndOf(s) EXCEPT !.ir = i, !.by = locked, !.state = "UPDATE_IR"]
      BY <2>1 DEF Effect
    <3> HIDE DEF e, c
    <3> QED BY <3>1, EndOfTyped
  <2>5. "UPDATE_IR" \in VALID_STATES
    BY DEF VALID_STATES
  <2> HIDE DEF c, defer
  <2>6. /\ Sane(g) /\ g.open = s.open /\ g.state = s.state
        /\ g.error \in {"none", "refused"}
        /\ g.error = "none" => EndOf(g) = e
        /\ Claimed(s) => Claimed(g)
    <3>1. NoError(s.open)
      BY <1>4 DEF NoError
    <3> QED BY <2>1, <2>2, <2>3, <2>4, <2>5, <3>1, Gives
  <2> HIDE DEF e
  <2>7. CASE g.error # "none"
    BY <1>4, <2>6, <2>7
  <2>8. CASE g.error = "none"
    <3> DEFINE selects == i = OverlayIr(claims[locked])
               m == [s.open EXCEPT !.overlay = selects, !.instruction = i]
    <3>0. selects \in BOOLEAN
      OBVIOUS
    <3>1. r = Revised(g, m, "UPDATE_IR", "none")
      <4>1. g \in Sessions
        BY <2>6 DEF Sane
      <4>2. r = LoadedIr(g, i)
        BY <1>4, <2>8
      <4>3. LoadedIr(g, i) = Revised(g, [g.open EXCEPT !.overlay = selects, !.instruction = i], "UPDATE_IR", g.error)
        BY <4>1, ChangedParts
      <4> QED BY <2>6, <2>8, <4>2, <4>3
    <3>a. selects = (i = OverlayIr(claims[locked]))
      OBVIOUS
    <3> HIDE DEF selects
    <3>2. m \in Remembered /\ m.deferError = FALSE /\ m.overlay = selects /\ m.instruction = i
      <4>1. i \in Nat
        BY TapConstants DEF JTAG_USR0, JTAG_USR1
      <4>2. s.open \in Remembered
        BY <1>0
      <4>3. s.open.deferError = FALSE
        BY <1>4
      <4> QED BY <3>0, <4>1, <4>2, <4>3 DEF Remembered
    <3> HIDE DEF m
    <3>3. "none" \in Errors
      BY DEF Errors
    <3>6. NoError(m)
      BY <3>2 DEF NoError
    <3>4. /\ Sane(r) /\ r.open = m /\ r.state = "UPDATE_IR"
          /\ EndOf(r) = EndOf(g) /\ (Claimed(r) <=> Claimed(g))
      BY <2>5, <2>6, <3>1, <3>2, <3>3, <3>6, Changed
    <3>5. Tells(r)
      BY <2>4, <2>6, <2>8, <3>a, <3>2, <3>4 DEF Tells, Agrees
    <3> QED BY <2>4, <2>6, <2>8, <3>a, <3>2, <3>4, <3>5
  <2> QED BY <2>7, <2>8
<1> HIDE DEF class, c, defer
<1>5. CASE s.open.deferError = FALSE /\ \E g \in Give(s, c, defer) : r = IF g.error = "none" THEN LoadedIr(g, i) ELSE g
  BY <1>4, <1>5 DEF Loaded
<1> QED BY <1>1, <1>2, <1>3, <1>5

\* A claim of exactly the value is behind every value that is safe.
LEMMA SafeIsClaimed ==
    ASSUME NEW mine, NEW value, NEW length, ClaimedClass(mine, "OVERLAY", value, length) = "SAFECLAIM"
    PROVE  \E c \in mine : c.value = value
  BY DEF ClaimedClass

\* What a scan of a data register does to the TAP.
LEMMA ScanEffect ==
    ASSUME NEW nodes \in SUBSET Opens, NEW o \in Opens, NEW t \in AnyTap, NEW c \in DrCommands
    PROVE  LET e == Effect(nodes, o, t, c) IN
           /\ e.by = t.by /\ e.ir = t.ir /\ e.state = "UPDATE_DR"
           /\ t.ir = JTAG_USR1 => e.overlay = c.value /\ e.capture = Forced(nodes, c.value)
<1>1. c.op = "dr"
  BY DEF DrCommands
<1>2. t = [state |-> t.state, ir |-> t.ir, by |-> t.by, overlay |-> t.overlay, capture |-> t.capture]
  BY DEF AnyTap, TapIn
<1>3. CASE t.ir = JTAG_USR1
  <2>1. Effect(nodes, o, t, c) =
            [t EXCEPT !.overlay = c.value, !.capture = Forced(nodes, c.value), !.state = "UPDATE_DR"]
    BY <1>1, <1>3 DEF Effect
  <2> QED BY <1>2, <2>1
<1>4. CASE t.ir # JTAG_USR1
  <2>1. Effect(nodes, o, t, c) = [t EXCEPT !.state = "UPDATE_DR"]
    BY <1>1, <1>4 DEF Effect
  <2> QED BY <1>2, <1>4, <2>1
<1> QED BY <1>3, <1>4

\* What a scan of value has made of the session s.
Scanned(s, value, r) ==
    /\ Sane(r)
    /\ r.error = "none" =>
         /\ s.open.deferError = FALSE /\ r.open = s.open /\ r.state = "UPDATE_DR"
         /\ EndOf(r).by = EndOf(s).by /\ EndOf(r).ir = EndOf(s).ir
         /\ EndOf(s).ir = JTAG_USR1 =>
              EndOf(r).overlay = value /\ EndOf(r).capture = Forced(Nodes, value)
         /\ Tells(s) => Tells(r) /\ (Claimed(s) => Claimed(r))

\* A scan of access_dr: with the overlay register selected it is packed only when
\* its value is claimed.
LEMMA ScanKeeps ==
    ASSUME locked \in Opens, NEW s, Sane(s), s.error = "none", NEW value, NEW whole, NEW reads, NEW capture, NEW length,
           [op |-> "dr", value |-> value, whole |-> whole, capture |-> capture] \in DrCommands,
           capture = TRUE => locked \in EndOf(s).capture,
           NEW r \in Scan(s, value, whole, reads, capture, length)
    PROVE  Scanned(s, value, r)
<1>0. s \in Sessions /\ Len(s.packed) <= MaxPacked /\ s.packed \in Seq(Given) /\ s.open \in Remembered
  BY SessionFields DEF Sane
<1> DEFINE class == OverlayClass(s, value, length)
           c == [op |-> "dr", value |-> value, whole |-> whole, capture |-> capture]
           defer == MayPack(s, reads) /\ ~(capture /\ pack = "auto") /\ class = "SAFECLAIM"
           Sent(g) == [g EXCEPT !.state = "UPDATE_DR"]
<1>1. (\E error \in Errors \ {"none"} : r \in Fail(s, error)) \/ r \in Pending(s)
      \/ (s.open.deferError = FALSE /\ (s.open.overlay => whole) /\ \E g \in Give(s, c, defer) : r = Sent(g))
  <2>1. "parameter" \in Errors \ {"none"} /\ "state" \in Errors \ {"none"} /\ "claimed" \in Errors \ {"none"}
    BY DEF Errors
  <2>2. s.open.deferError \in BOOLEAN /\ s.open.overlay \in BOOLEAN
    BY <1>0 DEF Remembered
  <2> QED BY <2>1, <2>2 DEF Scan
<1>2. CASE \E error \in Errors \ {"none"} : r \in Fail(s, error)
  BY <1>2, Fails DEF Scanned
<1>3. CASE r \in Pending(s)
  BY <1>3, PendingTold DEF Scanned
<1>4. ASSUME s.open.deferError = FALSE, s.open.overlay => whole, NEW g \in Give(s, c, defer), r = Sent(g)
      PROVE  /\ Sane(r)
             /\ r.error = "none" =>
                  /\ r.open = s.open /\ r.state = "UPDATE_DR"
                  /\ EndOf(r).by = EndOf(s).by /\ EndOf(r).ir = EndOf(s).ir
                  /\ EndOf(s).ir = JTAG_USR1 =>
                       EndOf(r).overlay = value /\ EndOf(r).capture = Forced(Nodes, value)
                  /\ Tells(s) => Tells(r) /\ (Claimed(s) => Claimed(r))
  <2>1. c \in Given /\ (Captures(c) => capture) /\ c \in DrCommands /\ c.value = value /\ c.whole = whole
    <3> QED BY DEF Given, Captures
  <2>2. defer \in BOOLEAN /\ (defer => Len(s.packed) < MaxPacked)
    BY DEF MayPack
  <2>3. ASSUME defer, Tells(s)
        PROVE  ScanClaimed(locked, claims[locked], EndOf(s), c)
    <3> SUFFICES ASSUME EndOf(s).by = locked, EndOf(s).ir = OverlayIr(claims[locked])
                 PROVE  c.whole /\ \E d \in claims[locked] : d.value = c.value
      BY DEF ScanClaimed
    <3>1. s.open.overlay
      BY <2>3 DEF Tells, Agrees
    <3>2. ClaimedClass(claims[locked], "OVERLAY", value, length) = "SAFECLAIM"
      BY <2>3, <3>1 DEF OverlayClass
    <3>3. \E d \in claims[locked] : d.value = value
      BY <3>2, SafeIsClaimed
    <3> HIDE DEF c
    <3> QED BY <1>4, <2>1, <3>1, <3>3
  <2> DEFINE e == Effect(Nodes, locked, EndOf(s), c)
  <2> HIDE DEF c, defer
  <2>4. /\ e.by = EndOf(s).by /\ e.ir = EndOf(s).ir /\ e.state = "UPDATE_DR"
        /\ EndOf(s).ir = JTAG_USR1 => e.overlay = value /\ e.capture = Forced(Nodes, value)
    <3>1. EndOf(s) \in AnyTap /\ Nodes \in SUBSET Opens
      BY EndOfTyped DEF Nodes
    <3> QED BY <2>1, <3>1, ScanEffect
  <2>5. "UPDATE_DR" \in VALID_STATES
    BY DEF VALID_STATES
  <2>6. /\ Sane(g) /\ g.open = s.open /\ g.state = s.state
        /\ g.error \in {"none", "refused"}
        /\ g.error = "none" => EndOf(g) = e
        /\ Claimed(s) /\ (defer => ScanClaimed(locked, claims[locked], EndOf(s), c)) => Claimed(g)
    <3>1. NoError(s.open)
      BY <1>4 DEF NoError
    <3> QED BY <2>1, <2>2, <2>4, <2>5, <3>1, Gives
  <2>7. /\ g \in Sessions /\ g.open \in Remembered /\ g.error \in Errors
        /\ g.packed # <<>> => NoError(g.open)
    BY <2>6, SessionFields DEF Sane
  <2>8. r = Revised(g, g.open, "UPDATE_DR", g.error)
    BY <1>4, <2>7, ChangedParts
  <2> HIDE DEF e
  <2>9. /\ Sane(r) /\ r.open = g.open /\ r.state = "UPDATE_DR" /\ r.error = g.error
        /\ EndOf(r) = EndOf(g) /\ (Claimed(r) <=> Claimed(g))
    BY <2>5, <2>6, <2>7, <2>8, Changed
  <2>10. ASSUME r.error = "none", Tells(s)
         PROVE  Tells(r)
    BY <2>4, <2>6, <2>9, <2>10 DEF Tells, Agrees
  <2>11. ASSUME Tells(s), Claimed(s)
         PROVE  Claimed(r)
    BY <2>3, <2>6, <2>9, <2>11
  <2> QED BY <2>4, <2>6, <2>9, <2>10, <2>11
<1> HIDE DEF class, c, defer
<1>5. CASE s.open.deferError = FALSE /\ (s.open.overlay => whole) /\ \E g \in Give(s, c, defer) : r = Sent(g)
  BY <1>4, <1>5 DEF Scanned
<1> QED BY <1>1, <1>2, <1>3, <1>5

\* The same for a scan that captures nothing.
LEMMA ScanUncaptured ==
    ASSUME locked \in Opens, NEW s, Sane(s), s.error = "none", NEW value, NEW whole, NEW reads, NEW length,
           [op |-> "dr", value |-> value, whole |-> whole, capture |-> FALSE] \in DrCommands,
           NEW r \in Scan(s, value, whole, reads, FALSE, length)
    PROVE  Scanned(s, value, r)
<1>1. PICK capture : capture = FALSE
  OBVIOUS
<1>2. /\ r \in Scan(s, value, whole, reads, capture, length)
      /\ [op |-> "dr", value |-> value, whole |-> whole, capture |-> capture] \in DrCommands
  BY <1>1
<1>3. capture = TRUE => locked \in EndOf(s).capture
  BY <1>1
<1> QED BY <1>2, <1>3, ScanKeeps

\* A call that is not an access_ir keeps what is remembered true, and what is
\* packed claimed.
Keeps(s, r) ==
    /\ Sane(r)
    /\ r.error = "none" /\ r.open.deferError = FALSE =>
         s.open.deferError = FALSE /\ (Tells(s) /\ Claimed(s) => Tells(r) /\ Claimed(r))

\* One call after another.
LEMMA AfterAnother ==
    ASSUME NEW s, NEW r, NEW t, Keeps(s, r), r.error = "none", Keeps(r, t)
    PROVE  Keeps(s, t)
  BY DEF Keeps

\* access_dr, of one scan or a batch.
LEMMA AccessDrKeeps ==
    ASSUME locked \in Opens, NEW s, Sane(s), s.error = "none", NEW value, NEW whole, NEW reads, NEW batch, NEW length,
           [op |-> "dr", value |-> value, whole |-> whole, capture |-> FALSE] \in DrCommands,
           NEW r \in AccessDr(s, value, whole, reads, batch, length)
    PROVE  Keeps(s, r)
<1> DEFINE One(q) == Scan(q, value, whole, reads, FALSE, length)
<1>1. ASSUME NEW q, Sane(q), q.error = "none", NEW t \in One(q)
      PROVE  Keeps(q, t)
  <2>1. Scanned(q, value, t)
    BY <1>1, ScanUncaptured
  <2> HIDE DEF One
  <2> QED BY <2>1 DEF Scanned, Keeps
<1>2. r \in One(s) \/ r \in Fail(s, "parameter") \/ r \in Then(One(s), One)
  BY DEF AccessDr
<1> HIDE DEF One
<1>3. CASE r \in One(s)
  BY <1>1, <1>3
<1>4. CASE r \in Fail(s, "parameter")
  <2>1. Sane(r) /\ r.error = "parameter"
    BY <1>4, Fails DEF Errors
  <2> QED BY <2>1 DEF Keeps
<1>5. CASE r \in Then(One(s), One)
  <2>1. PICK q \in One(s) : r \in IF q.error = "none" THEN One(q) ELSE {q}
    BY <1>5 DEF Then
  <2>2. Keeps(s, q) /\ Sane(q)
    BY <1>1 DEF Keeps
  <2>3. CASE q.error = "none"
    BY <1>1, <2>1, <2>2, <2>3, AfterAnother
  <2>4. CASE q.error # "none"
    BY <2>1, <2>2, <2>4
  <2> QED BY <2>3, <2>4
<1> QED BY <1>2, <1>3, <1>4, <1>5

\* check_transitions of the clock that calls give.
LEMMA OneClockChecked ==
    ASSUME NEW st, NEW irLength PROVE CheckTransitions(<<1>>, st, irLength).state = Clocked(st, 1)
<1> DEFINE z == [state |-> st, bits |-> 0, ok |-> TRUE]
           one == CheckedClock(irLength, z, 1)
           Is(f) == f = [i \in 0 .. Len(<<1>>) |-> IF i = 0 THEN z ELSE CheckedClock(irLength, f[i - 1], <<1>>[i])]
           g == CHOOSE f : Is(f)
           h == [i \in 0 .. 1 |-> IF i = 0 THEN z ELSE one]
<1>1. Len(<<1>>) = 1 /\ <<1>>[1] = 1
  OBVIOUS
<1>2. Is(h)
  <2>1. \A i \in 0 .. 1 : h[i] = IF i = 0 THEN z ELSE CheckedClock(irLength, h[i - 1], <<1>>[i])
    <3> HIDE DEF CheckedClock, z
    <3>1. h[0] = z /\ h[1] = CheckedClock(irLength, z, 1)
      OBVIOUS
    <3>2. \A i \in 0 .. 1 : i = 0 \/ (i = 1 /\ i - 1 = 0)
      OBVIOUS
    <3> HIDE DEF h
    <3> QED BY <1>1, <3>1, <3>2
  <2>2. h = [i \in 0 .. 1 |-> h[i]]
    OBVIOUS
  <2> HIDE DEF h
  <2> QED BY <1>1, <2>1, <2>2
<1>3. Is(g)
  BY <1>2
<1>4. CheckTransitions(<<1>>, st, irLength) =
          [g[Len(<<1>>)] EXCEPT !.ok = @ /\ g[Len(<<1>>)].state \notin InsideIrScan]
  BY DEF CheckTransitions
<1> HIDE DEF g, z
<1>5. g[0] = z /\ g[1] = CheckedClock(irLength, g[0], 1)
  BY <1>1, <1>3
<1>6. one.state = Clocked(st, 1) /\ z.state = st
  BY DEF CheckedClock, z
<1> HIDE DEF one
<1>7. [one EXCEPT !.ok = @ /\ one.state \notin InsideIrScan].state = one.state
  BY DEF one, CheckedClock
<1>8. g[1] = one
  BY <1>5 DEF one
<1> QED BY <1>1, <1>4, <1>6, <1>7, <1>8

\* What a call that gives the command c to a device without a kept error, and then
\* is in the state st, has made of the session s.
Driven(s, c, st, r) ==
    /\ Sane(r) /\ r.open = s.open /\ (r.error = "none" => EndOf(r) = Effect(Nodes, locked, EndOf(s), c) /\ r.state = st)
    /\ Keeps(s, r)

\* A command that is no scan keeps what is packed claimed, and what is remembered
\* true if the state it leads to is.
LEMMA GivesKept ==
    ASSUME locked \in Opens, NEW s, Sane(s), s.error = "none", s.open.deferError = FALSE,
           NEW c \in Given, c.op # "dr", NEW st \in VALID_STATES,
           Effect(Nodes, locked, EndOf(s), c).state \in VALID_STATES,
           Tells(s) => Agrees(locked, claims[locked], version, s.open, st, Effect(Nodes, locked, EndOf(s), c)),
           NEW defer, defer \in BOOLEAN, defer => Len(s.packed) < MaxPacked,
           NEW g \in Give(s, c, defer), NEW r,
           \/ r = Revised(g, g.open, st, g.error)
           \/ g.error # "none" /\ r = g
    PROVE  Driven(s, c, st, r)
<1> DEFINE e == Effect(Nodes, locked, EndOf(s), c)
<1>1. ~Captures(c) /\ ScanClaimed(locked, claims[locked], EndOf(s), c) /\ NoError(s.open)
  BY DEF Captures, ScanClaimed, NoError
<1>2. /\ Sane(g) /\ g.open = s.open /\ g.state = s.state
      /\ g.error = "none" => EndOf(g) = e
      /\ Claimed(s) => Claimed(g)
  BY <1>1, Gives
<1> HIDE DEF e
<1>3. CASE r = Revised(g, g.open, st, g.error)
  <2>1. /\ g \in Sessions /\ g.open \in Remembered /\ g.error \in Errors
        /\ g.packed # <<>> => NoError(g.open)
    BY <1>2, SessionFields DEF Sane
  <2>2. /\ Sane(r) /\ r.open = g.open /\ r.state = st /\ r.error = g.error
        /\ EndOf(r) = EndOf(g) /\ (Claimed(r) <=> Claimed(g))
    BY <1>2, <1>3, <2>1, Changed
  <2>3. ASSUME r.error = "none", Tells(s)
        PROVE  Tells(r)
    BY <1>2, <2>2, <2>3 DEF Tells, e
  <2> QED BY <1>2, <2>2, <2>3 DEF Driven, Keeps, e
<1>4. CASE g.error # "none" /\ r = g
  BY <1>2, <1>4 DEF Driven, Keeps
<1> QED BY <1>3, <1>4

\* A call that the client refuses, or that reports the kept error.
LEMMA RefusedKeeps ==
    ASSUME NEW s, Sane(s), NEW r, (\E error \in Errors \ {"none"} : r \in Fail(s, error)) \/ r \in Pending(s)
    PROVE  Sane(r) /\ r.error # "none" /\ Keeps(s, r)
<1>1. CASE \E error \in Errors \ {"none"} : r \in Fail(s, error)
  BY <1>1, Fails DEF Keeps
<1>2. CASE r \in Pending(s)
  BY <1>2, PendingTold DEF Keeps
<1> QED BY <1>1, <1>2

\* The TAP e is t after the clocks of run_test_idle.
IdleEffect(t, e, exit) ==
    e.ir = t.ir /\ e.by = t.by /\ e.state = IF exit THEN "SELECT_DR_SCAN" ELSE "RUN_TEST_IDLE"

\* What the other commands do to the TAP.
LEMMA OtherEffects ==
    ASSUME NEW nodes, NEW o, NEW t \in AnyTap
    PROVE  /\ \A exit : exit \in BOOLEAN => IdleEffect(t, Effect(nodes, o, t, [op |-> "idle", exit |-> exit]), exit)
           /\ LET e == Effect(nodes, o, t, [op |-> "irs"]) IN e.by = Nobody /\ e.state = "UPDATE_IR"
           /\ LET e == Effect(nodes, o, t, [op |-> "reset"]) IN e.by = Nobody /\ e.state = "TEST_LOGIC_RESET"
           /\ Effect(nodes, o, t, [op |-> "delay"]) = t
           /\ LET e == Effect(nodes, o, t, [op |-> "sequence", tms |-> <<1>>]) IN
                e.ir = t.ir /\ e.by = t.by /\ e.state = Clocked(t.state, 1)
<1>1. t = [state |-> t.state, ir |-> t.ir, by |-> t.by, overlay |-> t.overlay, capture |-> t.capture]
  BY DEF AnyTap, TapIn
<1>2. ASSUME NEW exit, exit \in BOOLEAN
      PROVE  IdleEffect(t, Effect(nodes, o, t, [op |-> "idle", exit |-> exit]), exit)
  <2>1. Effect(nodes, o, t, [op |-> "idle", exit |-> exit]) =
            [t EXCEPT !.state = IF exit THEN "SELECT_DR_SCAN" ELSE "RUN_TEST_IDLE"]
    BY DEF Effect
  <2> QED BY <1>1, <2>1 DEF IdleEffect
<1>3. Effect(nodes, o, t, [op |-> "irs"]) = [t EXCEPT !.ir = 0, !.by = Nobody, !.state = "UPDATE_IR"]
  BY DEF Effect
<1>4. Effect(nodes, o, t, [op |-> "reset"]) = [t EXCEPT !.state = "TEST_LOGIC_RESET", !.ir = 0, !.by = Nobody]
  BY DEF Effect
<1>5. Effect(nodes, o, t, [op |-> "delay"]) = t
  BY DEF Effect
<1>6. Effect(nodes, o, t, [op |-> "sequence", tms |-> <<1>>]) = [t EXCEPT !.state = Clocked(t.state, 1)]
  BY OneClock DEF Effect
<1> HIDE DEF Clocked
<1> QED BY <1>1, <1>2, <1>3, <1>4, <1>5, <1>6

\* Commands that are no scans.
LEMMA OtherCommands ==
    /\ \A exit \in BOOLEAN : [op |-> "idle", exit |-> exit] \in Given /\ [op |-> "idle", exit |-> exit].op # "dr"
    /\ \A op \in {"irs", "reset", "delay"} : [op |-> op] \in Given /\ [op |-> op].op # "dr"
    /\ [op |-> "sequence", tms |-> <<1>>] \in Given /\ [op |-> "sequence", tms |-> <<1>>].op # "dr"
<1>1. \A exit \in BOOLEAN : [op |-> "idle", exit |-> exit] \in IdleCommands /\ [op |-> "idle", exit |-> exit].op # "dr"
  BY DEF IdleCommands
<1>2. \A op \in {"irs", "reset", "delay"} : [op |-> op] \in BareCommands /\ [op |-> op].op # "dr"
  BY DEF BareCommands
<1>3. [op |-> "sequence", tms |-> <<1>>] \in ClockCommands /\ [op |-> "sequence", tms |-> <<1>>].op # "dr"
  BY DEF ClockCommands
<1> QED BY <1>1, <1>2, <1>3 DEF Given

\* m_defer_error is set or not.
LEMMA DeferOrNot ==
    ASSUME NEW s, Sane(s)
    PROVE  /\ s \in Sessions /\ s.open \in Remembered /\ s.open.deferError \in BOOLEAN
           /\ \A reads : MayPack(s, reads) \in BOOLEAN /\ (MayPack(s, reads) => Len(s.packed) < MaxPacked)
<1>1. s \in Sessions
  BY DEF Sane
<1>2. s.open \in Remembered
  BY <1>1, SessionFields
<1> QED BY <1>1, <1>2 DEF Remembered, MayPack

\* run_test_idle, as the server makes it.
LEMMA RunIdleKeeps ==
    ASSUME locked \in Opens, NEW s, Sane(s), s.error = "none", NEW exit, exit \in BOOLEAN,
           exit => version >= 12 \/ s.open.deferError \/ ~Valid(s),
           NEW r \in RunIdle(s, exit)
    PROVE  /\ Sane(r) /\ Keeps(s, r)
           /\ r.error = "none" /\ ~exit => r.state = "RUN_TEST_IDLE" /\ EndOf(r).state = "RUN_TEST_IDLE"
<1> DEFINE c == [op |-> "idle", exit |-> exit]
           defer == MayPack(s, FALSE)
           After(g) == IF g.error = "none" THEN [g EXCEPT !.state = "RUN_TEST_IDLE"] ELSE g
<1>1. \/ (\E error \in Errors \ {"none"} : r \in Fail(s, error)) \/ r \in Pending(s)
      \/ /\ Valid(s) /\ s.open.deferError = FALSE
         /\ \E g \in Give(s, c, defer) : r = After(g)
  <2>1. "state" \in Errors \ {"none"}
    BY DEF Errors
  <2> QED BY <2>1, DeferOrNot DEF RunIdle
<1>2. CASE (\E error \in Errors \ {"none"} : r \in Fail(s, error)) \/ r \in Pending(s)
  BY <1>2, RefusedKeeps
<1>3. ASSUME Valid(s), s.open.deferError = FALSE, NEW g \in Give(s, c, defer), r = After(g)
      PROVE  /\ Sane(r) /\ Keeps(s, r)
             /\ r.error = "none" /\ ~exit => r.state = "RUN_TEST_IDLE" /\ EndOf(r).state = "RUN_TEST_IDLE"
  <2>1. c \in Given /\ c.op # "dr"
    BY OtherCommands
  <2> DEFINE e == Effect(Nodes, locked, EndOf(s), c)
  <2>2. /\ e.ir = EndOf(s).ir /\ e.by = EndOf(s).by
        /\ e.state = IF exit THEN "SELECT_DR_SCAN" ELSE "RUN_TEST_IDLE"
    <3>1. EndOf(s) \in AnyTap
      BY EndOfTyped
    <3>2. IdleEffect(EndOf(s), e, exit)
      BY <3>1, OtherEffects
    <3> HIDE DEF e
    <3> QED BY <3>2 DEF IdleEffect
  <2>3. exit => version >= 12
    BY <1>3
  <2> HIDE DEF c, defer, After
  <2>4. {"SELECT_DR_SCAN", "RUN_TEST_IDLE"} \subseteq VALID_STATES
    BY DEF VALID_STATES
  <2>5. e.state \in VALID_STATES
    BY <2>2, <2>4
  <2>6. Tells(s) => Agrees(locked, claims[locked], version, s.open, "RUN_TEST_IDLE", e)
    BY <2>2, <2>3 DEF Tells, Agrees
  <2>7. defer \in BOOLEAN /\ (defer => Len(s.packed) < MaxPacked)
    BY DeferOrNot DEF defer
  <2>8. r = Revised(g, g.open, "RUN_TEST_IDLE", g.error) \/ (g.error # "none" /\ r = g)
    <3>1. g.error = "none" => r = [g EXCEPT !.state = "RUN_TEST_IDLE"]
      BY <1>3 DEF After
    <3>2. g.error # "none" => r = g
      BY <1>3 DEF After
    <3>3. ~Captures(c)
      BY <2>1 DEF Captures
    <3>4. Sane(g)
      BY <1>3, <2>1, <2>5, <2>7, <3>3, Gives DEF e, NoError
    <3>5. [g EXCEPT !.state = "RUN_TEST_IDLE"] = Revised(g, g.open, "RUN_TEST_IDLE", g.error)
      BY <3>4, DeferOrNot, ChangedParts
    <3> QED BY <3>1, <3>2, <3>5
  <2>9. Driven(s, c, "RUN_TEST_IDLE", r)
    BY <1>3, <2>1, <2>4, <2>5, <2>6, <2>7, <2>8, GivesKept DEF e
  <2> QED BY <2>2, <2>9 DEF Driven, Keeps, e
<1> HIDE DEF c, defer, After
<1>4. CASE /\ Valid(s) /\ s.open.deferError = FALSE
           /\ \E g \in Give(s, c, defer) : r = After(g)
  BY <1>3, <1>4
<1> QED BY <1>1, <1>2, <1>4

\* A call that gives a command that is no scan, to a device without a kept error.
LEMMA GivesOnly ==
    ASSUME locked \in Opens, NEW s, Sane(s), s.error = "none", s.open.deferError = FALSE,
           NEW c \in Given, c.op # "dr", NEW st \in VALID_STATES, NEW reads,
           Effect(Nodes, locked, EndOf(s), c).state \in VALID_STATES,
           Tells(s) => Agrees(locked, claims[locked], version, s.open, st, Effect(Nodes, locked, EndOf(s), c)),
           NEW g \in Give(s, c, MayPack(s, reads)), NEW r, r = [g EXCEPT !.state = st]
    PROVE  Keeps(s, r)
<1>1. MayPack(s, reads) \in BOOLEAN /\ (MayPack(s, reads) => Len(s.packed) < MaxPacked)
  BY DeferOrNot
<1> DEFINE defer == MayPack(s, reads)
<1>2. defer \in BOOLEAN /\ (defer => Len(s.packed) < MaxPacked) /\ g \in Give(s, c, defer)
  BY <1>1
<1> HIDE DEF defer
<1>3. Sane(g)
  BY <1>2, Gives DEF Captures, NoError
<1>4. r = Revised(g, g.open, st, g.error)
  BY <1>3, DeferOrNot, ChangedParts
<1>5. Driven(s, c, st, r)
  BY <1>2, <1>4, GivesKept
<1> QED BY <1>5 DEF Driven

\* The clock that leaves RUN_TEST_IDLE, when the TAP is there.
LEMMA ExitIdleKeeps ==
    ASSUME locked \in Opens, NEW s, Sane(s), s.error = "none",
           s.state = "RUN_TEST_IDLE", EndOf(s).state = "RUN_TEST_IDLE", NEW r \in ExitIdle(s)
    PROVE  Keeps(s, r)
<1> DEFINE c == [op |-> "sequence", tms |-> <<1>>]
           checked == CheckTransitions(<<1>>, s.state, IrLength)
           next == IF style[locked] = "individual" THEN checked.state ELSE UpdateState(<<1>>, s.state)
<1>1. \/ (\E error \in Errors \ {"none"} : r \in Fail(s, error)) \/ r \in Pending(s)
      \/ s.open.deferError = FALSE /\ \E g \in Give(s, c, MayPack(s, FALSE)) : r = [g EXCEPT !.state = next]
  <2>1. "version" \in Errors \ {"none"} /\ "sequence" \in Errors \ {"none"}
    BY DEF Errors
  <2> HIDE DEF c, checked, next
  <2>2. r \in AnySequence(s, <<1>>)
    BY DEF ExitIdle
  <2> QED BY <2>1, <2>2, DeferOrNot DEF AnySequence, c, checked, next
<1>2. CASE (\E error \in Errors \ {"none"} : r \in Fail(s, error)) \/ r \in Pending(s)
  BY <1>2, RefusedKeeps
<1>3. next = "SELECT_DR_SCAN"
  <2>1. checked.state = "SELECT_DR_SCAN"
    BY OneClockChecked, ClockedStates
  <2>2. UpdateState(<<1>>, s.state) = "SELECT_DR_SCAN"
    BY OneClock, ClockedStates
  <2> HIDE DEF checked
  <2> QED BY <2>1, <2>2
<1>4. "SELECT_DR_SCAN" \in VALID_STATES
  BY DEF VALID_STATES
<1>5. c \in Given /\ c.op # "dr"
  BY OtherCommands
<1>6. LET e == Effect(Nodes, locked, EndOf(s), c) IN
        e.ir = EndOf(s).ir /\ e.by = EndOf(s).by /\ e.state = "SELECT_DR_SCAN"
  <2>1. EndOf(s) \in AnyTap
    BY EndOfTyped
  <2> QED BY <2>1, OtherEffects, ClockedStates
<1> HIDE DEF c, next
<1>7. Tells(s) => Agrees(locked, claims[locked], version, s.open, "SELECT_DR_SCAN", Effect(Nodes, locked, EndOf(s), c))
  BY <1>6 DEF Tells, Agrees
<1>8. CASE s.open.deferError = FALSE /\ \E g \in Give(s, c, MayPack(s, FALSE)) : r = [g EXCEPT !.state = next]
  <2>1. PICK g \in Give(s, c, MayPack(s, FALSE)) : r = [g EXCEPT !.state = "SELECT_DR_SCAN"]
    BY <1>3, <1>8
  <2> QED BY <1>4, <1>5, <1>6, <1>7, <1>8, <2>1, GivesOnly
<1> QED BY <1>1, <1>2, <1>8

\* run_test_idle.
LEMMA RunTestIdleKeeps ==
    ASSUME locked \in Opens, NEW s, Sane(s), s.error = "none", NEW exit, exit \in BOOLEAN, version \in Nat,
           NEW r \in RunTestIdle(s, exit)
    PROVE  Keeps(s, r)
<1>1. CASE exit /\ version < 12 /\ Valid(s) /\ ~s.open.deferError
  <2>1. r \in Then(RunIdle(s, FALSE), ExitIdle)
    BY <1>1 DEF RunTestIdle
  <2>2. PICK q \in RunIdle(s, FALSE) : r \in IF q.error = "none" THEN ExitIdle(q) ELSE {q}
    BY <2>1 DEF Then
  <2>3. PICK no : no = FALSE
    OBVIOUS
  <2>4. /\ Sane(q) /\ Keeps(s, q)
        /\ q.error = "none" => q.state = "RUN_TEST_IDLE" /\ EndOf(q).state = "RUN_TEST_IDLE"
    <3>1. q \in RunIdle(s, no) /\ no \in BOOLEAN /\ ~no
      BY <2>2, <2>3
    <3> QED BY <3>1, RunIdleKeeps
  <2>5. CASE q.error = "none"
    BY <2>2, <2>4, <2>5, ExitIdleKeeps, AfterAnother
  <2>6. CASE q.error # "none"
    BY <2>2, <2>4, <2>6
  <2> QED BY <2>5, <2>6
<1>2. CASE ~(exit /\ version < 12 /\ Valid(s) /\ ~s.open.deferError)
  <2>1. r \in RunIdle(s, exit)
    BY <1>2 DEF RunTestIdle
  <2>2. exit => version >= 12 \/ s.open.deferError \/ ~Valid(s)
    BY <1>2
  <2> QED BY <2>1, <2>2, RunIdleKeeps
<1> QED BY <1>1, <1>2

\* test_logic_reset: the device has no instruction in the TAP any more.
LEMMA ResetKeeps ==
    ASSUME locked \in Opens, NEW s, Sane(s), s.error = "none", NEW r \in TestLogicReset(s)
    PROVE  Keeps(s, r)
<1> DEFINE c == [op |-> "reset"]
<1>1. \/ (\E error \in Errors \ {"none"} : r \in Fail(s, error)) \/ r \in Pending(s)
      \/ s.open.deferError = FALSE /\ \E g \in Give(s, c, MayPack(s, FALSE)) : r = [g EXCEPT !.state = "TEST_LOGIC_RESET"]
  <2>1. "version" \in Errors \ {"none"} /\ "parameter" \in Errors \ {"none"}
    BY DEF Errors
  <2> QED BY <2>1, DeferOrNot DEF TestLogicReset
<1>2. CASE (\E error \in Errors \ {"none"} : r \in Fail(s, error)) \/ r \in Pending(s)
  BY <1>2, RefusedKeeps
<1>3. c \in Given /\ c.op # "dr" /\ "TEST_LOGIC_RESET" \in VALID_STATES
  BY OtherCommands DEF VALID_STATES
<1>4. LET e == Effect(Nodes, locked, EndOf(s), c) IN e.by = Nobody /\ e.state = "TEST_LOGIC_RESET"
  BY EndOfTyped, OtherEffects
<1> HIDE DEF c
<1>5. Agrees(locked, claims[locked], version, s.open, "TEST_LOGIC_RESET", Effect(Nodes, locked, EndOf(s), c))
  <2>1. locked # Nobody
    BY TapConstants
  <2> DEFINE e == Effect(Nodes, locked, EndOf(s), c)
  <2>2. e.by = Nobody
    BY <1>4
  <2> HIDE DEF e
  <2>3. Agrees(locked, claims[locked], version, s.open, "TEST_LOGIC_RESET", e)
    BY <2>1, <2>2 DEF Agrees
  <2> QED BY <2>3 DEF e
<1>6. CASE s.open.deferError = FALSE /\ \E g \in Give(s, c, MayPack(s, FALSE)) : r = [g EXCEPT !.state = "TEST_LOGIC_RESET"]
  <2>1. PICK g \in Give(s, c, MayPack(s, FALSE)) : r = [g EXCEPT !.state = "TEST_LOGIC_RESET"]
    BY <1>6
  <2>2. Effect(Nodes, locked, EndOf(s), c).state \in VALID_STATES
    BY <1>3, <1>4
  <2> QED BY <1>3, <1>5, <1>6, <2>1, <2>2, GivesOnly
<1> QED BY <1>1, <1>2, <1>6

\* access_ir with the bits of the whole chain: the same.
LEMMA AccessIrsKeeps ==
    ASSUME locked \in Opens, NEW s, Sane(s), s.error = "none", NEW reads, NEW r \in AccessIrs(s, reads)
    PROVE  Keeps(s, r)
<1> DEFINE c == [op |-> "irs"]
<1>1. \/ (\E error \in Errors \ {"none"} : r \in Fail(s, error)) \/ r \in Pending(s)
      \/ s.open.deferError = FALSE /\ \E g \in Give(s, c, MayPack(s, reads)) : r = [g EXCEPT !.state = "UPDATE_IR"]
  <2>1. "version" \in Errors \ {"none"} /\ "state" \in Errors \ {"none"}
    BY DEF Errors
  <2> QED BY <2>1, DeferOrNot DEF AccessIrs
<1>2. CASE (\E error \in Errors \ {"none"} : r \in Fail(s, error)) \/ r \in Pending(s)
  BY <1>2, RefusedKeeps
<1>3. c \in Given /\ c.op # "dr" /\ "UPDATE_IR" \in VALID_STATES
  BY OtherCommands DEF VALID_STATES
<1>4. LET e == Effect(Nodes, locked, EndOf(s), c) IN e.by = Nobody /\ e.state = "UPDATE_IR"
  BY EndOfTyped, OtherEffects
<1> HIDE DEF c
<1>5. Agrees(locked, claims[locked], version, s.open, "UPDATE_IR", Effect(Nodes, locked, EndOf(s), c))
  <2>1. locked # Nobody
    BY TapConstants
  <2> DEFINE e == Effect(Nodes, locked, EndOf(s), c)
  <2>2. e.by = Nobody
    BY <1>4
  <2> HIDE DEF e
  <2>3. Agrees(locked, claims[locked], version, s.open, "UPDATE_IR", e)
    BY <2>1, <2>2 DEF Agrees
  <2> QED BY <2>3 DEF e
<1>6. CASE s.open.deferError = FALSE /\ \E g \in Give(s, c, MayPack(s, reads)) : r = [g EXCEPT !.state = "UPDATE_IR"]
  <2>1. PICK g \in Give(s, c, MayPack(s, reads)) : r = [g EXCEPT !.state = "UPDATE_IR"]
    BY <1>6
  <2>2. Effect(Nodes, locked, EndOf(s), c).state \in VALID_STATES
    BY <1>3, <1>4
  <2> QED BY <1>3, <1>5, <1>6, <2>1, <2>2, GivesOnly
<1> QED BY <1>1, <1>2, <1>6

\* delay.
LEMMA DelayKeeps ==
    ASSUME locked \in Opens, NEW s, Sane(s), s.error = "none", NEW r \in Delay(s)
    PROVE  Keeps(s, r)
<1> DEFINE c == [op |-> "delay"]
<1>1. \/ r \in Pending(s)
      \/ s.open.deferError = FALSE /\ r \in Give(s, c, MayPack(s, FALSE))
  BY DeferOrNot DEF Delay
<1>2. CASE r \in Pending(s)
  BY <1>2, RefusedKeeps
<1>3. c \in Given /\ c.op # "dr"
  BY OtherCommands
<1>4. Effect(Nodes, locked, EndOf(s), c) = EndOf(s)
  BY EndOfTyped, OtherEffects
<1> HIDE DEF c
<1>5. CASE s.open.deferError = FALSE /\ r \in Give(s, c, MayPack(s, FALSE))
  <2>1. EndOf(s).state \in VALID_STATES
    BY EndOfTyped
  <2>2. Sane(r) /\ r.state = s.state
    <3> DEFINE defer == MayPack(s, FALSE)
    <3>1. defer \in BOOLEAN /\ (defer => Len(s.packed) < MaxPacked) /\ r \in Give(s, c, defer)
      BY <1>5, DeferOrNot
    <3> HIDE DEF defer
    <3> QED BY <1>3, <1>4, <1>5, <2>1, <3>1, Gives DEF Captures, NoError
  <2>3. r = [r EXCEPT !.state = s.state] /\ s.state \in VALID_STATES
    <3>1. r \in Sessions
      BY <2>2, DeferOrNot
    <3>2. r = [open |-> r.open, state |-> r.state, tap |-> r.tap, packed |-> r.packed,
               caught |-> r.caught, error |-> r.error]
      <4> HIDE DEF Given
      <4> QED BY <3>1 DEF Sessions
    <3> QED BY <2>2, <3>2, SessionFields, DeferOrNot
  <2>4. Tells(s) => Agrees(locked, claims[locked], version, s.open, s.state, Effect(Nodes, locked, EndOf(s), c))
    BY <1>4 DEF Tells
  <2> QED BY <1>3, <1>4, <1>5, <2>1, <2>3, <2>4, GivesOnly
<1> QED BY <1>1, <1>2, <1>5

\* flush: what is packed is executed, or there is an error.
LEMMA FlushedKeeps ==
    ASSUME locked \in Opens, NEW s, Sane(s), s.error = "none", NEW r \in Flushed(s)
    PROVE  /\ Sane(r) /\ r.open = s.open /\ r.state = s.state /\ r.packed = <<>>
           /\ r.error = "none" => EndOf(r) = EndOf(s)
           /\ Claimed(r) /\ (r.error = "none" /\ Tells(s) => Tells(r))
<1>1. s \in Sessions /\ Held(Nodes, locked, s.tap, s.packed)
  BY DEF Sane
<1>2. s.packed \in Seq(Given) /\ s.tap \in AnyTap
  BY <1>1, SessionFields
<1>3. CASE s.packed = <<>>
  <2>1. r = s
    BY <1>3 DEF Flushed
  <2>2. Claimed(s)
    BY <1>3, NothingClaimed DEF Claimed
  <2> QED BY <1>3, <2>1, <2>2
<1>4. CASE s.packed # <<>>
  <2>1. r \in SendReceive(s, <<>>)
    BY <1>4 DEF Flushed
  <2> DEFINE q == s.packed
  <2>2. q \in Seq(Given) /\ q = s.packed \o <<>> /\ Held(Nodes, locked, s.tap, q)
    <3> HIDE DEF Given
    <3> QED BY <1>1, <1>2
  <2>3. EndOf(s) = Ends(Nodes, locked, s.tap, q)
    BY DEF EndOf
  <2> HIDE DEF q
  <2>4. /\ Sane(r) /\ r.open = s.open /\ r.state = s.state /\ r.packed = <<>>
        /\ r.error = "none" => EndOf(r) = Ends(Nodes, locked, s.tap, q)
        /\ Claimed(r)
    BY <2>1, <2>2, Sends
  <2>5. r.error = "none" /\ Tells(s) => Tells(r)
    BY <2>3, <2>4 DEF Tells
  <2> QED BY <2>3, <2>4, <2>5
<1> QED BY <1>3, <1>4

\* A call that begins with an access_ir makes what is remembered true.
Begins(s, r) ==
    /\ Sane(r)
    /\ r.error = "none" /\ r.open.deferError = FALSE =>
         s.open.deferError = FALSE /\ Tells(r) /\ (Claimed(s) => Claimed(r))

\* access_ir does.
LEMMA AccessIrBegins ==
    ASSUME locked \in Opens, NEW s, Sane(s), s.error = "none",
           NEW i \in Instructions, NEW reads, reads \in BOOLEAN, NEW r \in AccessIr(s, i, reads)
    PROVE  Begins(s, r)
<1>1. Loaded(s, i, r)
  BY AccessIrLoads
<1> QED BY <1>1 DEF Loaded, Begins

\* access_ir of bits does, if these are of one device.
LEMMA AccessIrBitsKeeps ==
    ASSUME locked \in Opens, NEW s, Sane(s), s.error = "none",
           NEW i \in Instructions, NEW reads, reads \in BOOLEAN, NEW r \in AccessIrBits(s, i, reads)
    PROVE  IF style[locked] = "whole" THEN Keeps(s, r) ELSE Begins(s, r)
<1>1. CASE style[locked] = "whole"
  <2>1. r \in AccessIrs(s, reads)
    BY <1>1 DEF AccessIrBits
  <2> QED BY <1>1, <2>1, AccessIrsKeeps
<1>2. CASE style[locked] # "whole" /\ ~reads
  <2>1. PICK no : no = FALSE
    OBVIOUS
  <2>2. r \in AccessIr(s, i, no) /\ no \in BOOLEAN
    BY <1>2, <2>1 DEF AccessIrBits
  <2> QED BY <1>2, <2>2, AccessIrBegins
<1>3. CASE style[locked] # "whole" /\ reads
  <2>1. PICK yes : yes = TRUE
    OBVIOUS
  <2>2. r \in Then(AccessIr(s, i, TRUE), Flushed)
    BY <1>3 DEF AccessIrBits
  <2>3. PICK q \in AccessIr(s, i, TRUE) : r \in IF q.error = "none" THEN Flushed(q) ELSE {q}
    BY <2>2 DEF Then
  <2>4. q \in AccessIr(s, i, yes) /\ yes \in BOOLEAN
    BY <2>1, <2>3
  <2>5. Begins(s, q) /\ Sane(q)
    BY <2>4, AccessIrBegins DEF Begins
  <2>6. CASE q.error = "none"
    <3>1. r \in Flushed(q)
      BY <2>3, <2>6
    <3>2. Sane(r) /\ r.open = q.open /\ Claimed(r) /\ (r.error = "none" /\ Tells(q) => Tells(r))
      BY <2>5, <2>6, <3>1, FlushedKeeps
    <3> QED BY <1>3, <2>5, <2>6, <3>2 DEF Begins
  <2>7. CASE q.error # "none"
    BY <1>3, <2>3, <2>5, <2>7
  <2> QED BY <2>6, <2>7
<1> QED BY <1>1, <1>2, <1>3

\* What access_overlay, with the value update, has made of the session s.
Overlaid(s, update, r) ==
    /\ Begins(s, r)
    /\ r.error = "none" =>
         /\ EndOf(r).overlay = Selected(Node[locked], update)
         /\ EndOf(r).ir = OverlaidIr(claims[locked])

\* access_overlay of a node whose claims are the hub's: its four calls write the
\* node's value, and capture only when the hub captures this node.
LEMMA AccessOverlayWrites ==
    ASSUME locked \in Opens, NEW s, Sane(s), s.error = "none", NEW update \in Values, NEW captures, captures \in BOOLEAN,
           style[locked] = "node" => OverlayIr(claims[locked]) = JTAG_USR1 /\ OverlaidIr(claims[locked]) = JTAG_USR0,
           NEW r \in AccessOverlay(s, update, captures)
    PROVE  Overlaid(s, update, r)
<1> DEFINE node == Node[locked]
           value == Selected(node, update)
           Load(q) == AccessIr(q, OverlayIr(claims[locked]), FALSE)
           Hub(q) == ForceCapture(q, node, captures)
           Write(q) == WriteOverlay(q, node, update, captures)
           Leave(q) == AccessIr(q, OverlaidIr(claims[locked]), FALSE)
<1>1. \/ (\E error \in Errors \ {"none"} : r \in Fail(s, error)) \/ r \in Pending(s)
      \/ style[locked] = "node" /\ s.open.deferError = FALSE
         /\ r \in Then(Then(Then(Load(s), Hub), Write), Leave)
  <2>1. "parameter" \in Errors \ {"none"} /\ "state" \in Errors \ {"none"}
    BY DEF Errors
  <2> QED BY <2>1, DeferOrNot DEF AccessOverlay
<1>2. CASE (\E error \in Errors \ {"none"} : r \in Fail(s, error)) \/ r \in Pending(s)
  BY <1>2, RefusedKeeps DEF Overlaid, Begins
<1>3. ASSUME style[locked] = "node", r \in Then(Then(Then(Load(s), Hub), Write), Leave)
      PROVE  Overlaid(s, update, r)
  <2>0. PICK no : no = FALSE
    OBVIOUS
  <2>1. /\ OverlayIr(claims[locked]) = JTAG_USR1 /\ OverlaidIr(claims[locked]) = JTAG_USR0
        /\ no \in BOOLEAN
    BY <1>3, <2>0
  <2>2. value \in Nat /\ node.force \in Nat
    <3>1. node \in [select : Nat, length : Nat, total : Nat, force : Nat] /\ update \in Nat
      BY TapConstants
    <3> HIDE DEF node
    <3>2. node.select \in Nat /\ node.force \in Nat
      BY <3>1
    <3> QED BY <3>1, <3>2 DEF Selected
  <2>3. ASSUME NEW q, Sane(q), q.error = "none", NEW t \in Load(q)
        PROVE  Loaded(q, JTAG_USR1, t)
    <3>1. t \in AccessIr(q, JTAG_USR1, no)
      BY <2>0, <2>1, <2>3
    <3> HIDE DEF Load
    <3> QED BY <2>1, <2>3, <3>1, AccessIrLoads
  <2>4. ASSUME NEW q, Sane(q), q.error = "none", NEW t \in Leave(q)
        PROVE  Loaded(q, JTAG_USR0, t)
    <3>1. t \in AccessIr(q, JTAG_USR0, no)
      BY <2>0, <2>1, <2>4
    <3> HIDE DEF Leave
    <3> QED BY <2>1, <2>4, <3>1, AccessIrLoads
  <2>5. ASSUME NEW q, Sane(q), q.error = "none", NEW t \in Hub(q)
        PROVE  IF captures THEN Scanned(q, node.force, t) ELSE t = q
    <3>1. CASE captures
      <4>1. t \in Scan(q, node.force, TRUE, FALSE, FALSE, node.total)
        BY <2>5, <3>1 DEF ForceCapture
      <4>2. PICK yes : yes = TRUE
        OBVIOUS
      <4>3. /\ t \in Scan(q, node.force, yes, no, FALSE, node.total)
            /\ [op |-> "dr", value |-> node.force, whole |-> yes, capture |-> FALSE] \in DrCommands
        <5>1. yes \in BOOLEAN
          BY <4>2
        <5>2. t \in Scan(q, node.force, yes, no, FALSE, node.total)
          BY <2>0, <4>1, <4>2
        <5>3. [op |-> "dr", value |-> node.force, whole |-> yes, capture |-> FALSE] \in DrCommands
          BY <2>2, <5>1 DEF DrCommands
        <5> QED BY <5>2, <5>3
      <4> HIDE DEF Hub, node
      <4> QED BY <2>5, <3>1, <4>3, ScanUncaptured
    <3>2. CASE ~captures
      BY <2>5, <3>2 DEF ForceCapture
    <3> QED BY <3>1, <3>2
  <2>6. ASSUME NEW q, Sane(q), q.error = "none", captures = TRUE => locked \in EndOf(q).capture, NEW t \in Write(q)
        PROVE  Scanned(q, value, t)
    <3>1. PICK yes : yes = TRUE
      OBVIOUS
    <3>2. /\ t \in Scan(q, value, yes, captures, captures, node.total)
          /\ [op |-> "dr", value |-> value, whole |-> yes, capture |-> captures] \in DrCommands
      <4>1. t \in Scan(q, value, yes, captures, captures, node.total)
        BY <2>6, <3>1 DEF WriteOverlay
      <4>2. yes \in BOOLEAN
        BY <3>1
      <4> HIDE DEF value
      <4>3. [op |-> "dr", value |-> value, whole |-> yes, capture |-> captures] \in DrCommands
        BY <2>2, <4>2 DEF DrCommands
      <4> QED BY <4>1, <4>3
    <3> HIDE DEF value, node, Write
    <3> QED BY <2>6, <3>2, ScanKeeps
  <2>7. locked \in Forced(Nodes, node.force)
    BY <1>3 DEF Forced, Nodes
  <2>8. PICK d \in Then(Then(Load(s), Hub), Write) : r \in IF d.error = "none" THEN Leave(d) ELSE {d}
    <3> HIDE DEF Load, Hub, Write, Leave
    <3> QED BY <1>3 DEF Then
  <2>9. PICK c \in Then(Load(s), Hub) : d \in IF c.error = "none" THEN Write(c) ELSE {c}
    <3> HIDE DEF Load, Hub, Write, Leave
    <3> QED BY <2>8 DEF Then
  <2>10. PICK b \in Load(s) : c \in IF b.error = "none" THEN Hub(b) ELSE {b}
    <3> HIDE DEF Load, Hub, Write, Leave
    <3> QED BY <2>9 DEF Then
  <2> HIDE DEF Load, Hub, Write, Leave, value, node
  <2>11. Loaded(s, JTAG_USR1, b)
    BY <2>3, <2>10
  <2>12. CASE b.error # "none"
    <3>1. c = b
      BY <2>10, <2>12
    <3>2. d = b
      BY <2>9, <2>12, <3>1
    <3>3. r = b
      BY <2>8, <2>12, <3>2
    <3> QED BY <2>11, <2>12, <3>3 DEF Loaded, Overlaid, Begins
  <2>13. CASE b.error = "none"
    <3>1. /\ Sane(b) /\ s.open.deferError = FALSE /\ b.open.deferError = FALSE
          /\ EndOf(b).ir = JTAG_USR1 /\ Tells(b) /\ (Claimed(s) => Claimed(b))
      BY <2>11, <2>13 DEF Loaded
    <3>2. IF captures THEN Scanned(b, node.force, c) ELSE c = b
      BY <2>5, <2>10, <2>13, <3>1
    <3>3. /\ Sane(c)
          /\ c.error = "none" =>
               /\ EndOf(c).ir = JTAG_USR1 /\ Tells(c) /\ (Claimed(s) => Claimed(c))
               /\ captures = TRUE => locked \in EndOf(c).capture
      <4>1. CASE captures
        <5>1. Scanned(b, node.force, c)
          BY <3>2, <4>1
        <5> QED BY <2>7, <3>1, <5>1 DEF Scanned
      <4>2. CASE ~captures
        <5>1. c = b
          BY <3>2, <4>2
        <5> QED BY <3>1, <4>2, <5>1
      <4> QED BY <4>1, <4>2
    <3>4. CASE c.error # "none"
      <4>1. d = c
        BY <2>9, <3>4
      <4>2. r = c
        BY <2>8, <3>4, <4>1
      <4> QED BY <3>3, <3>4, <4>2 DEF Overlaid, Begins
    <3>5. CASE c.error = "none"
      <4>1. d \in Write(c)
        BY <2>9, <3>5
      <4>2. Scanned(c, value, d)
        BY <2>6, <3>3, <3>5, <4>1
      <4>3. CASE d.error # "none"
        <5>1. r = d
          BY <2>8, <4>3
        <5> QED BY <4>2, <4>3, <5>1 DEF Scanned, Overlaid, Begins
      <4>4. CASE d.error = "none"
        <5>1. Sane(d) /\ EndOf(d).overlay = value /\ (Claimed(s) => Claimed(d))
          BY <3>3, <3>5, <4>2, <4>4 DEF Scanned
        <5>2. r \in Leave(d)
          BY <2>8, <4>4
        <5>3. Loaded(d, JTAG_USR0, r)
          BY <2>4, <4>4, <5>1, <5>2
        <5> QED BY <2>1, <3>1, <5>1, <5>3 DEF Loaded, Overlaid, Begins, value, node
      <4> QED BY <4>3, <4>4
    <3> QED BY <3>4, <3>5
  <2> QED BY <2>12, <2>13
<1> HIDE DEF Load, Hub, Write, Leave
<1> QED BY <1>1, <1>2, <1>3

-----------------------------------------------------------------------------
(* The inductive invariant.                                                 *)

\* What the variables are.
Typed ==
    /\ scenario \in Scenarios
    /\ open \in [Opens -> Remembered]
    /\ state \in VALID_STATES
    /\ tap \in ValidTap
    /\ locked \in Opens \cup {Nobody}
    /\ pack \in PackStyles
    /\ packed \in Seq(Given) /\ Len(packed) <= MaxPacked
    /\ CaughtOwn(caught)
    /\ told \in BOOLEAN
    /\ wrote \in Nat \cup {NoValue}

\* A node that is open has the overlay and the overlaid instruction of its hub.
HubClaimed == \A o \in Opens : style[o] = "node" /\ claims[o] # {} =>
    OverlayIr(claims[o]) = JTAG_USR1 /\ OverlaidIr(claims[o]) = JTAG_USR0

\* Commands are packed by the device that is locked, which is open.
LockedPacks ==
    /\ locked = Nobody => packed = <<>>
    /\ packed # <<>> => NoError(open[locked])
    /\ locked # Nobody => /\ style[locked] = "node" => claims[locked] # {}
                          /\ Held(Nodes, locked, tap, packed)

\* What the program may rely on while it is untroubled: what the device remembers
\* is what the TAP will be, scans packed for the overlay register are claimed, and
\* access_overlay has written, or will have.
Relies ==
    Untroubled =>
        LET t == Ends(Nodes, locked, tap, packed) IN
        /\ Agrees(locked, claims[locked], version, open[locked], state, t)
        /\ ScansClaimed(Nodes, locked, claims[locked], tap, packed)
        /\ wrote # NoValue => t.overlay = Selected(Node[locked], wrote) /\ t.ir = OverlaidIr(claims[locked])

TapInv == Typed /\ HubClaimed /\ LockedPacks /\ Relies

\* What is packed starts at a TAP in which a call may begin.
LEMMA HeldStart ==
    ASSUME NEW nodes \in SUBSET Opens, NEW o \in Opens, NEW t \in AnyTap, NEW cs \in Seq(Given), Held(nodes, o, t, cs)
    PROVE  t \in ValidTap
<1>1. Taps(nodes, o, t, cs)[0] = t
  BY TapsFollow DEF Follows
<1>2. 0 \in 0 .. Len(cs)
  BY LenProperties
<1>3. t.state \in VALID_STATES
  BY <1>1, <1>2 DEF Held
<1> QED BY <1>3 DEF AnyTap, ValidTap, TapIn

\* A call begins with what the variables are.
LEMMA SessionSane ==
    ASSUME TapInv, locked \in Opens
    PROVE  /\ Sane(Session) /\ Session.error = "none"
           /\ Session.open = open[locked] /\ Session.packed = packed
           /\ EndOf(Session) = Ends(Nodes, locked, tap, packed)
           /\ Untroubled => Tells(Session)
           /\ packed = <<>> \/ Untroubled => Claimed(Session)
<1> DEFINE now == IF packed = <<>> THEN NoCapture ELSE caught
           s == Session
<1>1. Typed /\ locked # Nobody /\ Held(Nodes, locked, tap, packed) /\ (packed # <<>> => NoError(open[locked]))
  BY TapConstants DEF TapInv, LockedPacks
<1>2. now \in Capture /\ CaughtOwn(now)
  <2>1. CaughtOwn(NoCapture)
    BY DEF NoCapture, CaughtOwn
  <2>2. CaughtOwn(caught)
    BY <1>1 DEF Typed
  <2> QED BY <2>1, <2>2 DEF CaughtOwn, Capture
<1> HIDE DEF now
<1>3. /\ s.open = open[locked] /\ s.state = state /\ s.tap = tap /\ s.packed = packed
      /\ s.caught = now /\ s.error = "none"
      /\ s = [open |-> open[locked], state |-> state, tap |-> tap, packed |-> packed,
              caught |-> now, error |-> "none"]
  BY DEF Session, now
<1> HIDE DEF s
<1>4. open[locked] \in Remembered /\ state \in VALID_STATES /\ packed \in Seq(Given) /\ Len(packed) <= MaxPacked
  BY <1>1 DEF Typed
<1>5. tap \in AnyTap /\ "none" \in Errors
  BY <1>1, ClockedStates DEF Typed, ValidTap, AnyTap, TapIn, Errors
<1>6. s \in Sessions
  BY <1>2, <1>3, <1>4, <1>5 DEF Sessions
<1>7. Sane(s)
  BY <1>1, <1>2, <1>3, <1>4, <1>6 DEF Sane
<1>8. EndOf(s) = Ends(Nodes, locked, tap, packed)
  BY <1>3 DEF EndOf
<1>9. Untroubled => Tells(s) /\ Claimed(s)
  BY <1>3, <1>8 DEF TapInv, Relies, Tells, Claimed
<1>10. packed = <<>> => Claimed(s)
  BY <1>3, NothingClaimed DEF Claimed
<1> QED BY <1>3, <1>7, <1>8, <1>9, <1>10 DEF s

\* The result r of a call is kept: it wrote w, and if loads it was an access_ir.
Ended(r, w, loads) ==
    /\ open' = [open EXCEPT ![locked] = r.open]
    /\ state' = r.state /\ tap' = r.tap /\ packed' = r.packed /\ caught' = r.caught
    /\ told' = (r.error # "none" \/ (told /\ ~(loads /\ packed = <<>>)))
    /\ wrote' = w
    /\ UNCHANGED <<scenario, claims, locked, pack>>

\* The result is one the program may rely on.
Relied(r, w, loads) ==
    /\ Sane(r) /\ w \in Nat \cup {NoValue}
    /\ r.error = "none" /\ r.open.deferError = FALSE /\ (told => loads /\ packed = <<>>) =>
         /\ Tells(r) /\ Claimed(r)
         /\ w # NoValue => EndOf(r).overlay = Selected(Node[locked], w) /\ EndOf(r).ir = OverlaidIr(claims[locked])

\* Then the invariant is kept.
LEMMA EndedKeeps ==
    ASSUME TapInv, locked \in Opens, NEW r, NEW w, NEW loads, Ended(r, w, loads), Relied(r, w, loads)
    PROVE  TapInv'
<1>1. Typed /\ locked # Nobody /\ HubClaimed /\ (style[locked] = "node" => claims[locked] # {})
  BY TapConstants DEF TapInv, LockedPacks
<1>2. /\ scenario' = scenario /\ claims' = claims /\ locked' = locked /\ pack' = pack
      /\ state' = r.state /\ tap' = r.tap /\ packed' = r.packed /\ caught' = r.caught /\ wrote' = w
      /\ open' = [open EXCEPT ![locked] = r.open]
      /\ told' = (r.error # "none" \/ (told /\ ~(loads /\ packed = <<>>)))
  BY DEF Ended
<1>3. /\ Len(r.packed) <= MaxPacked /\ CaughtOwn(r.caught) /\ Held(Nodes, locked, r.tap, r.packed)
      /\ r.open \in Remembered /\ r.state \in VALID_STATES /\ r.tap \in AnyTap /\ r.packed \in Seq(Given)
      /\ r.packed # <<>> => NoError(r.open)
  BY SessionFields DEF Relied, Sane
<1>4. r.tap \in ValidTap
  BY <1>3, HeldStart DEF Nodes
<1>5. open'[locked] = r.open /\ open' \in [Opens -> Remembered]
  BY <1>1, <1>2, <1>3 DEF Typed
<1>6. style' = style /\ version' = version /\ Nodes' = Nodes /\ PackStyles' = PackStyles
  BY <1>2 DEF style, version, Nodes, PackStyles
<1>7. Typed'
  <2>1. told' \in BOOLEAN
    BY <1>2
  <2> QED BY <1>1, <1>2, <1>3, <1>4, <1>5, <1>6, <2>1 DEF Typed, Relied
<1>8. HubClaimed'
  BY <1>1, <1>2, <1>6 DEF HubClaimed
<1>9. LockedPacks'
  BY <1>1, <1>2, <1>3, <1>5, <1>6 DEF LockedPacks
<1>10. Relies'
  <2> SUFFICES ASSUME Untroubled'
               PROVE  LET t == Ends(Nodes, locked, r.tap, r.packed) IN
                      /\ Agrees(locked, claims[locked], version, r.open, r.state, t)
                      /\ ScansClaimed(Nodes, locked, claims[locked], r.tap, r.packed)
                      /\ w # NoValue => t.overlay = Selected(Node[locked], w) /\ t.ir = OverlaidIr(claims[locked])
    BY <1>2, <1>5, <1>6 DEF Relies
  <2>1. told' = FALSE /\ r.open.deferError = FALSE
    <3>1. ~told' /\ ~open'[locked].deferError
      BY <1>2 DEF Untroubled
    <3>2. r.open.deferError \in BOOLEAN
      BY <1>3 DEF Remembered
    <3> QED BY <1>2, <1>5, <3>1, <3>2
  <2>2. r.error = "none" /\ (told => loads /\ packed = <<>>)
    BY <1>2, <2>1
  <2> QED BY <2>1, <2>2 DEF Relied, Tells, Claimed, EndOf
<1> QED BY <1>7, <1>8, <1>9, <1>10 DEF TapInv

\* A call that is not an access_ir leaves what may be relied on.
LEMMA KeepsRelied ==
    ASSUME TapInv, locked \in Opens, NEW r, Keeps(Session, r), NEW loads, loads = FALSE
    PROVE  Relied(r, NoValue, loads)
<1>1. Sane(r)
  BY DEF Keeps
<1>2. ASSUME r.error = "none" /\ r.open.deferError = FALSE /\ (told => loads /\ packed = <<>>)
      PROVE  Tells(r) /\ Claimed(r)
  <2>1. Session.open.deferError = FALSE /\ (Tells(Session) /\ Claimed(Session) => Tells(r) /\ Claimed(r))
    BY <1>2 DEF Keeps
  <2>2. Untroubled
    <3>1. open[locked].deferError = FALSE /\ ~told
      BY <1>2, <2>1, SessionSane
    <3>2. locked # Nobody
      BY TapConstants
    <3> QED BY <3>1, <3>2 DEF Untroubled
  <2> QED BY <2>1, <2>2, SessionSane
<1> QED BY <1>1, <1>2 DEF Relied

\* A call that begins with an access_ir makes it so.
LEMMA BeginsRelied ==
    ASSUME TapInv, locked \in Opens, NEW r, Begins(Session, r), NEW w \in Nat \cup {NoValue}, NEW loads,
           r.error = "none" /\ w # NoValue =>
               EndOf(r).overlay = Selected(Node[locked], w) /\ EndOf(r).ir = OverlaidIr(claims[locked])
    PROVE  Relied(r, w, loads)
<1>1. Sane(r)
  BY DEF Begins
<1>2. ASSUME r.error = "none" /\ r.open.deferError = FALSE /\ (told => loads /\ packed = <<>>)
      PROVE  Tells(r) /\ Claimed(r)
  <2>1. Session.open.deferError = FALSE /\ Tells(r) /\ (Claimed(Session) => Claimed(r))
    BY <1>2 DEF Begins
  <2>2. packed = <<>> \/ Untroubled
    <3>1. open[locked].deferError = FALSE /\ (~told \/ packed = <<>>)
      BY <1>2, <2>1, SessionSane
    <3>2. locked # Nobody
      BY TapConstants
    <3> QED BY <3>1, <3>2 DEF Untroubled
  <2> QED BY <2>1, <2>2, SessionSane
<1> QED BY <1>1, <1>2 DEF Relied

\* The end of a call that writes nothing, given by its name.
LEMMA DoneEnds ==
    ASSUME TapInv, NEW ss, NEW name, name # "flush", NEW loads, Done(ss, name, NoValue, loads)
    PROVE  locked \in Opens /\ \E r \in ss : Ended(r, NoValue, loads)
<1>1. locked \in Opens
  BY DEF Done, TapInv, Typed
<1>2. PICK r \in ss :
         /\ open' = [open EXCEPT ![locked] = r.open]
         /\ state' = r.state
         /\ tap' = r.tap
         /\ packed' = r.packed
         /\ caught' = r.caught
         /\ told' = (r.error # "none" \/ (told /\ ~(loads /\ packed = <<>>)))
         /\ wrote' = NoValue
  BY DEF Done
<1>3. UNCHANGED <<scenario, claims, locked, pack>>
  BY DEF Done
<1>4. Ended(r, NoValue, loads)
  BY <1>2, <1>3 DEF Ended
<1> QED BY <1>1, <1>4

\* A call that keeps what may be relied on.
LEMMA KeepingCall ==
    ASSUME TapInv, NEW ss, NEW name, name # "flush", Done(ss, name, NoValue, FALSE),
           \A r \in ss : locked \in Opens => Keeps(Session, r)
    PROVE  TapInv'
<1>1. PICK loads : loads = FALSE
  OBVIOUS
<1>2. Done(ss, name, NoValue, loads)
  BY <1>1
<1>3. PICK r \in ss : Ended(r, NoValue, loads)
  BY <1>2, DoneEnds
<1>4. locked \in Opens
  BY <1>2, DoneEnds
<1>5. Relied(r, NoValue, loads)
  BY <1>1, <1>4, KeepsRelied
<1> QED BY <1>3, <1>4, <1>5, EndedKeeps

\* access_ir of an instruction.
LEMMA AccessIrStep == ASSUME TapInv, CallAccessIr PROVE TapInv'
<1>1. PICK i, reads : i \in Instructions /\ reads \in BOOLEAN /\ Done(AccessIr(Session, i, reads), "ir", NoValue, TRUE)
  BY DEF CallAccessIr
<1>2. PICK loads : loads = TRUE
  OBVIOUS
<1>3. Done(AccessIr(Session, i, reads), "ir", NoValue, loads) /\ "ir" # "flush"
  BY <1>1, <1>2
<1>4. PICK r \in AccessIr(Session, i, reads) : Ended(r, NoValue, loads)
  BY <1>3, DoneEnds
<1>5. locked \in Opens
  BY <1>3, DoneEnds
<1>6. Begins(Session, r)
  BY <1>1, <1>4, <1>5, SessionSane, AccessIrBegins
<1>7. Relied(r, NoValue, loads)
  BY <1>5, <1>6, BeginsRelied
<1> QED BY <1>4, <1>5, <1>7, EndedKeeps

\* access_ir of the bits of the instruction registers.
LEMMA AccessIrBitsStep == ASSUME TapInv, CallAccessIrBits PROVE TapInv'
<1>1. PICK i, reads : i \in Instructions /\ reads \in BOOLEAN
          /\ Done(AccessIrBits(Session, i, reads), "bits", NoValue, style[locked] # "whole")
  BY DEF CallAccessIrBits
<1>2. PICK loads : loads = (style[locked] # "whole")
  OBVIOUS
<1>3. Done(AccessIrBits(Session, i, reads), "bits", NoValue, loads) /\ "bits" # "flush"
  BY <1>1, <1>2
<1>4. PICK r \in AccessIrBits(Session, i, reads) : Ended(r, NoValue, loads)
  BY <1>3, DoneEnds
<1>5. locked \in Opens
  BY <1>3, DoneEnds
<1>6. IF style[locked] = "whole" THEN Keeps(Session, r) ELSE Begins(Session, r)
  BY <1>1, <1>5, SessionSane, AccessIrBitsKeeps
<1>7. Relied(r, NoValue, loads)
  <2>1. CASE style[locked] = "whole"
    <3>1. loads = FALSE
      BY <1>2, <2>1
    <3> QED BY <1>5, <1>6, <2>1, <3>1, KeepsRelied
  <2>2. CASE style[locked] # "whole"
    BY <1>5, <1>6, <2>2, BeginsRelied
  <2> QED BY <2>1, <2>2
<1> QED BY <1>4, <1>5, <1>7, EndedKeeps

\* access_dr.
LEMMA AccessDrStep == ASSUME TapInv, CallAccessDr PROVE TapInv'
<1>1. PICK v, whole, reads, batch : v \in Values /\ whole \in BOOLEAN
          /\ Done(AccessDr(Session, IF whole THEN v ELSE 0, whole, reads, batch, Length), "dr", NoValue, FALSE)
  BY DEF CallAccessDr
<1> DEFINE value == IF whole THEN v ELSE 0
           ss == AccessDr(Session, value, whole, reads, batch, Length)
<1>2. value \in Nat
  BY <1>1, TapConstants
<1>3. [op |-> "dr", value |-> value, whole |-> whole, capture |-> FALSE] \in DrCommands
  <2> HIDE DEF value
  <2> QED BY <1>1, <1>2 DEF DrCommands
<1>4. ASSUME locked \in Opens, NEW r \in ss
      PROVE  Keeps(Session, r)
  <2> HIDE DEF value
  <2> QED BY <1>3, <1>4, SessionSane, AccessDrKeeps
<1>5. Done(ss, "dr", NoValue, FALSE) /\ "dr" # "flush"
  BY <1>1
<1> HIDE DEF ss
<1> QED BY <1>4, <1>5, KeepingCall

\* run_test_idle.
LEMMA RunTestIdleStep == ASSUME TapInv, CallRunTestIdle PROVE TapInv'
<1>1. PICK exit : exit \in BOOLEAN /\ Done(RunTestIdle(Session, exit), "idle", NoValue, FALSE)
  BY DEF CallRunTestIdle
<1>2. version \in Nat
  BY TapClaims DEF version, TapInv, Typed
<1>3. ASSUME locked \in Opens, NEW r \in RunTestIdle(Session, exit)
      PROVE  Keeps(Session, r)
  BY <1>1, <1>2, <1>3, SessionSane, RunTestIdleKeeps
<1>4. "idle" # "flush"
  OBVIOUS
<1> QED BY <1>1, <1>3, <1>4, KeepingCall

\* test_logic_reset and delay.
LEMMA ResetDelayStep == ASSUME TapInv, CallTestLogicReset \/ CallDelay PROVE TapInv'
<1>1. CASE CallTestLogicReset
  <2>1. Done(TestLogicReset(Session), "reset", NoValue, FALSE) /\ "reset" # "flush"
    BY <1>1 DEF CallTestLogicReset
  <2>2. ASSUME locked \in Opens, NEW r \in TestLogicReset(Session)
        PROVE  Keeps(Session, r)
    BY <2>2, SessionSane, ResetKeeps
  <2> QED BY <2>1, <2>2, KeepingCall
<1>2. CASE CallDelay
  <2>1. Done(Delay(Session), "delay", NoValue, FALSE) /\ "delay" # "flush"
    BY <1>2 DEF CallDelay
  <2>2. ASSUME locked \in Opens, NEW r \in Delay(Session)
        PROVE  Keeps(Session, r)
    BY <2>2, SessionSane, DelayKeeps
  <2> QED BY <2>1, <2>2, KeepingCall
<1> QED BY <1>1, <1>2

\* access_overlay.
LEMMA AccessOverlayStep == ASSUME TapInv, CallAccessOverlay PROVE TapInv'
<1>1. PICK v, captures : v \in Values /\ captures \in BOOLEAN
          /\ Done(AccessOverlay(Session, v, captures), "overlay", v, TRUE)
  BY DEF CallAccessOverlay
<1>2. PICK loads : loads = TRUE
  OBVIOUS
<1>3. Done(AccessOverlay(Session, v, captures), "overlay", v, loads)
  BY <1>1, <1>2
<1>4. locked \in Opens
  BY <1>3 DEF Done, TapInv, Typed
<1>5. PICK r, w : r \in AccessOverlay(Session, v, captures)
          /\ Ended(r, w, loads) /\ w = IF r.error # "none" THEN NoValue ELSE v
  <2>1. PICK r \in AccessOverlay(Session, v, captures) :
         /\ open' = [open EXCEPT ![locked] = r.open]
         /\ state' = r.state
         /\ tap' = r.tap
         /\ packed' = r.packed
         /\ caught' = r.caught
         /\ told' = (r.error # "none" \/ (told /\ ~(loads /\ packed = <<>>)))
         /\ wrote' = IF r.error # "none" THEN NoValue ELSE v
    BY <1>3 DEF Done
  <2>2. UNCHANGED <<scenario, claims, locked, pack>>
    BY <1>3 DEF Done
  <2>3. PICK w : w = IF r.error # "none" THEN NoValue ELSE v
    OBVIOUS
  <2>4. wrote' = w
    BY <2>1, <2>3
  <2>5. Ended(r, w, loads)
    BY <2>1, <2>2, <2>4 DEF Ended
  <2> QED BY <2>3, <2>5
<1>6. style[locked] = "node" => OverlayIr(claims[locked]) = JTAG_USR1 /\ OverlaidIr(claims[locked]) = JTAG_USR0
  <2>1. locked # Nobody
    BY <1>4, TapConstants
  <2> QED BY <1>4, <2>1 DEF TapInv, HubClaimed, LockedPacks
<1>7. Overlaid(Session, v, r)
  BY <1>1, <1>4, <1>5, <1>6, SessionSane, AccessOverlayWrites
<1>8. w \in Nat \cup {NoValue} /\ (r.error = "none" => w = v)
  <2>1. v \in Nat
    BY <1>1, TapConstants
  <2> QED BY <1>5, <2>1
<1>9. Relied(r, w, loads)
  BY <1>4, <1>7, <1>8, BeginsRelied DEF Overlaid
<1> QED BY <1>4, <1>5, <1>9, EndedKeeps

\* flush: the promise of access_overlay is kept.
LEMMA FlushStep == ASSUME TapInv, CallFlush PROVE TapInv'
<1>1. Done(Flushed(Session), "flush", NoValue, FALSE)
  BY DEF CallFlush
<1>2. PICK loads : loads = FALSE
  OBVIOUS
<1>3. Done(Flushed(Session), "flush", NoValue, loads)
  BY <1>1, <1>2
<1>4. locked \in Opens /\ locked # Nobody
  BY <1>3, TapConstants DEF Done, TapInv, Typed
<1>5. PICK r, w : r \in Flushed(Session) /\ Ended(r, w, loads) /\ w = IF r.error # "none" THEN NoValue ELSE wrote
  <2>1. PICK r \in Flushed(Session) :
         /\ open' = [open EXCEPT ![locked] = r.open]
         /\ state' = r.state
         /\ tap' = r.tap
         /\ packed' = r.packed
         /\ caught' = r.caught
         /\ told' = (r.error # "none" \/ (told /\ ~(loads /\ packed = <<>>)))
         /\ wrote' = IF r.error # "none" THEN NoValue ELSE wrote
    BY <1>3 DEF Done
  <2>2. UNCHANGED <<scenario, claims, locked, pack>>
    BY <1>3 DEF Done
  <2>3. PICK w : w = IF r.error # "none" THEN NoValue ELSE wrote
    OBVIOUS
  <2>4. wrote' = w
    BY <2>1, <2>3
  <2>5. Ended(r, w, loads)
    BY <2>1, <2>2, <2>4 DEF Ended
  <2> QED BY <2>3, <2>5
<1>6. /\ Sane(r) /\ r.open = Session.open
      /\ r.error = "none" => EndOf(r) = EndOf(Session)
      /\ Claimed(r) /\ (r.error = "none" /\ Tells(Session) => Tells(r))
  BY <1>4, <1>5, SessionSane, FlushedKeeps
<1>7. w \in Nat \cup {NoValue} /\ (r.error = "none" => w = wrote)
  BY <1>5 DEF TapInv, Typed
<1>8. Relied(r, w, loads)
  <2>1. ASSUME r.error = "none" /\ r.open.deferError = FALSE /\ (told => loads /\ packed = <<>>)
        PROVE  /\ Tells(r) /\ Claimed(r)
               /\ w # NoValue => EndOf(r).overlay = Selected(Node[locked], w) /\ EndOf(r).ir = OverlaidIr(claims[locked])
    <3>1. Untroubled
      <4>1. open[locked].deferError = FALSE /\ ~told
        BY <1>2, <1>4, <1>6, <2>1, SessionSane
      <4> QED BY <1>4, <4>1 DEF Untroubled
    <3>2. Tells(Session) /\ EndOf(r) = Ends(Nodes, locked, tap, packed)
      BY <1>4, <1>6, <2>1, <3>1, SessionSane
    <3> QED BY <1>6, <1>7, <2>1, <3>1, <3>2 DEF TapInv, Relies
  <2> QED BY <1>6, <1>7, <2>1 DEF Relied
<1> QED BY <1>4, <1>5, <1>8, EndedKeeps

\* The claims of the hub are read as such.
LEMMA HubOverlay ==
    OverlayIr(HubClaims(HUB_INFO)) = JTAG_USR1 /\ OverlaidIr(HubClaims(HUB_INFO)) = JTAG_USR0
<1> DEFINE hub == HubClaims(HUB_INFO)
           a == CHOOSE c \in hub : c.type = "IR_SHARED_OVERLAY"
           b == CHOOSE c \in hub : c.type \in OverlaidTypes
<1>1. \E c \in hub : c.type = "IR_SHARED_OVERLAY"
  BY DEF HubClaims, Claim
<1>2. \E c \in hub : c.type \in OverlaidTypes
  BY DEF HubClaims, Claim, OverlaidTypes
<1>3. /\ \A c \in hub : c.type = "IR_SHARED_OVERLAY" => c.value = JTAG_USR1
      /\ \A c \in hub : c.type \in OverlaidTypes => c.value = JTAG_USR0
  BY DEF HubClaims, Claim, OverlaidTypes
<1>4. OverlayIr(hub) = a.value /\ OverlaidIr(hub) = b.value
  <2> HIDE DEF hub
  <2> QED BY <1>1, <1>2 DEF OverlayIr, OverlaidIr
<1> HIDE DEF hub
<1>5. a \in hub /\ a.type = "IR_SHARED_OVERLAY" /\ b \in hub /\ b.type \in OverlaidTypes
  BY <1>1, <1>2
<1> HIDE DEF a, b
<1> QED BY <1>3, <1>4, <1>5 DEF hub

\* So are the claims of its nodes, whatever the program asked for.
LEMMA NodeOverlay ==
    ASSUME NEW node, NEW asked
    PROVE  LET mine == DeviceClaims(NodeClaims(HubClaims(HUB_INFO), node, asked)) IN
           OverlayIr(mine) = JTAG_USR1 /\ OverlaidIr(mine) = JTAG_USR0
<1> DEFINE hub == HubClaims(HUB_INFO)
           nodes == NodeClaims(hub, node, asked)
           mine == DeviceClaims(nodes)
           a == CHOOSE c \in mine : c.type = "IR_SHARED_OVERLAY"
           b == CHOOSE c \in mine : c.type \in OverlaidTypes
<1>1. OverlayIr(hub) = JTAG_USR1 /\ OverlaidIr(hub) = JTAG_USR0
  BY HubOverlay
<1>2. \A c \in mine : c \in nodes \/ c.type = "OVERLAY_SHARED"
  <2> HIDE DEF nodes
  <2> QED BY DEF DeviceClaims, Claim
<1>3. nodes \subseteq mine
  <2> HIDE DEF nodes
  <2> QED BY DEF DeviceClaims
<1> HIDE DEF mine, hub
<1>4. \A c \in nodes :
         \/ c = Claim("IR_SHARED_OVERLAY", JTAG_USR1, 0)
         \/ c = Claim("IR_SHARED_OVERLAID", JTAG_USR0, 0)
         \/ c.type \in {"IR", "IR_SHARED", "IR_WEAK"} \cup OverlayTypes
  BY <1>1 DEF NodeClaims, Claim, OverlayTypes
<1>5. /\ Claim("IR_SHARED_OVERLAY", JTAG_USR1, 0) \in nodes
      /\ Claim("IR_SHARED_OVERLAID", JTAG_USR0, 0) \in nodes
  BY <1>1 DEF NodeClaims
<1> HIDE DEF nodes
<1>6. /\ \A v : Claim("IR_SHARED_OVERLAY", v, 0).type = "IR_SHARED_OVERLAY" /\ Claim("IR_SHARED_OVERLAY", v, 0).value = v
      /\ \A v : Claim("IR_SHARED_OVERLAID", v, 0).type = "IR_SHARED_OVERLAID" /\ Claim("IR_SHARED_OVERLAID", v, 0).value = v
  BY DEF Claim
<1>7. OverlaidTypes = {"IR_OVERLAID", "IR_SHARED_OVERLAID"} /\ OverlayTypes = {"OVERLAY", "OVERLAY_SHARED", "OVERLAY_WEAK"}
  BY DEF OverlaidTypes, OverlayTypes
<1>8. /\ \A c \in mine : c.type = "IR_SHARED_OVERLAY" => c.value = JTAG_USR1
      /\ \A c \in mine : c.type \in OverlaidTypes => c.value = JTAG_USR0
  <2> SUFFICES ASSUME NEW c \in mine
               PROVE  /\ c.type = "IR_SHARED_OVERLAY" => c.value = JTAG_USR1
                      /\ c.type \in OverlaidTypes => c.value = JTAG_USR0
    OBVIOUS
  <2>1. CASE c = Claim("IR_SHARED_OVERLAY", JTAG_USR1, 0)
    BY <1>6, <1>7, <2>1
  <2>2. CASE c = Claim("IR_SHARED_OVERLAID", JTAG_USR0, 0)
    BY <1>6, <1>7, <2>2
  <2>3. CASE c.type \in {"IR", "IR_SHARED", "IR_WEAK"} \cup OverlayTypes
    BY <1>7, <2>3
  <2> QED BY <1>2, <1>4, <1>7, <2>1, <2>2, <2>3
<1>9. (\E c \in mine : c.type = "IR_SHARED_OVERLAY") /\ (\E c \in mine : c.type \in OverlaidTypes)
  BY <1>3, <1>5, <1>6, <1>7
<1>10. OverlayIr(mine) = a.value /\ OverlaidIr(mine) = b.value
  BY <1>9 DEF OverlayIr, OverlaidIr
<1>11. a \in mine /\ a.type = "IR_SHARED_OVERLAY" /\ b \in mine /\ b.type \in OverlaidTypes
  BY <1>9
<1> HIDE DEF a, b
<1> QED BY <1>8, <1>10, <1>11 DEF mine, nodes, hub

\* aji_open_device and aji_open_node.
LEMMA OpenStep == ASSUME TapInv, NEW o \in Opens, Open(o) PROVE TapInv'
<1> DEFINE asked == scenario.asked[o]
           mine == IF style[o] = "node" THEN NodeClaims(HubClaims(HUB_INFO), Node[o], asked) ELSE asked
<1>1. /\ locked = Nobody /\ claims' = [claims EXCEPT ![o] = DeviceClaims(mine)]
      /\ UNCHANGED <<scenario, open, state, tap, locked, pack, packed, caught, told, wrote>>
  BY DEF Open
<1>2. style[o] = "node" => OverlayIr(DeviceClaims(mine)) = JTAG_USR1 /\ OverlaidIr(DeviceClaims(mine)) = JTAG_USR0
  BY NodeOverlay
<1> HIDE DEF mine
<1>3. style' = style /\ version' = version /\ Nodes' = Nodes /\ PackStyles' = PackStyles
  BY <1>1 DEF style, version, Nodes, PackStyles
<1>4. Typed'
  BY <1>1, <1>3 DEF TapInv, Typed
<1>5. HubClaimed'
  <2> SUFFICES ASSUME NEW p \in Opens, style[p] = "node", claims'[p] # {}
               PROVE  OverlayIr(claims'[p]) = JTAG_USR1 /\ OverlaidIr(claims'[p]) = JTAG_USR0
    BY <1>3 DEF HubClaimed
  <2>1. claims'[p] = claims[p] \/ (p = o /\ claims'[p] = DeviceClaims(mine))
    BY <1>1
  <2> QED BY <1>2, <2>1 DEF TapInv, HubClaimed
<1>6. LockedPacks'
  BY <1>1 DEF TapInv, LockedPacks
<1>7. Relies'
  BY <1>1 DEF Relies, Untroubled
<1> QED BY <1>4, <1>5, <1>6, <1>7 DEF TapInv

\* The steps at which nothing is packed and nothing is written.
LEMMA BareState ==
    ASSUME Typed', HubClaimed', packed' = <<>>, wrote' = NoValue,
           locked' # Nobody => tap'.by # locked' /\ (style'[locked'] = "node" => claims'[locked'] # {})
    PROVE  TapInv'
<1>1. Nodes' \in SUBSET Opens /\ tap' \in ValidTap /\ locked' \in Opens \cup {Nobody}
  BY DEF Typed, Nodes
<1>2. ASSUME locked' # Nobody
      PROVE  /\ Held(Nodes', locked', tap', <<>>) /\ Ends(Nodes', locked', tap', <<>>) = tap'
             /\ ScansClaimed(Nodes', locked', claims'[locked'], tap', <<>>)
  BY <1>1, <1>2, HeldNothing, NothingClaimed
<1>3. LockedPacks'
  BY <1>2 DEF LockedPacks
<1>4. Relies'
  <2> SUFFICES ASSUME locked' # Nobody
               PROVE  LET t == Ends(Nodes', locked', tap', packed') IN
                      /\ Agrees(locked', claims'[locked'], version', open'[locked'], state', t)
                      /\ ScansClaimed(Nodes', locked', claims'[locked'], tap', packed')
                      /\ wrote' # NoValue' => t.overlay = Selected(Node[locked'], wrote') /\ t.ir = OverlaidIr(claims'[locked'])
    BY DEF Relies, Untroubled
  <2>1. NoValue' = NoValue
    BY DEF NoValue
  <2> QED BY <1>2, <2>1 DEF Agrees
<1> QED BY <1>3, <1>4 DEF TapInv

\* At the beginning.
LEMMA InitInv == Init => TapInv
<1> SUFFICES ASSUME Init PROVE TapInv
  OBVIOUS
<1>1. Typed
  <2>1. open \in [Opens -> Remembered]
    BY DEF Init, Remembered
  <2>2. tap \in ValidTap
    BY DEF Init, ValidTap, TapIn, VALID_STATES
  <2>3. packed \in Seq(Given) /\ Len(packed) <= MaxPacked
    <3>1. packed = <<>> /\ Len(<<>>) = 0 /\ MaxPacked \in Nat
      BY TapConstants DEF Init
    <3> QED BY <3>1, EmptySeq
  <2>4. CaughtOwn(caught)
    BY DEF Init, NoCapture, CaughtOwn
  <2> QED BY <2>1, <2>2, <2>3, <2>4 DEF Init, Typed, VALID_STATES, NoValue
<1>2. HubClaimed /\ LockedPacks /\ Relies
  BY DEF Init, HubClaimed, LockedPacks, Relies, Untroubled
<1> QED BY <1>1, <1>2 DEF TapInv

\* lock: nothing is known of the TAP but its state.
LEMMA LockStep == ASSUME TapInv, NEW o \in Opens, NEW p \in PackStyles, Lock(o, p) PROVE TapInv'
<1>1. /\ locked = Nobody /\ scenario' = scenario /\ claims' = claims /\ packed' = packed /\ caught' = caught
      /\ style[o] = "node" => claims[o] # {}
  BY DEF Lock
<1>2. packed = <<>> /\ Typed /\ HubClaimed
  BY <1>1 DEF TapInv, LockedPacks
<1>3. style' = style /\ version' = version /\ Nodes' = Nodes /\ PackStyles' = PackStyles
  BY <1>1 DEF style, version, Nodes, PackStyles
<1>4. HubClaimed'
  BY <1>1, <1>2, <1>3 DEF HubClaimed
<1>5. CASE open[o].deferError
  <2>1. open' = [open EXCEPT ![o].deferError = FALSE] /\ UNCHANGED <<state, locked, pack, tap, told, wrote>>
    BY <1>5 DEF Lock
  <2>2. open' \in [Opens -> Remembered]
    <3>1. open[o] \in Remembered /\ open \in [Opens -> Remembered]
      BY <1>2 DEF Typed
    <3>2. [open[o] EXCEPT !.deferError = FALSE] \in Remembered
      BY <3>1 DEF Remembered
    <3> QED BY <2>1, <3>1, <3>2
  <2>3. Typed'
    BY <1>1, <1>2, <1>3, <2>1, <2>2 DEF Typed
  <2>4. LockedPacks' /\ Relies'
    BY <1>1, <1>2, <2>1 DEF LockedPacks, Relies, Untroubled
  <2> QED BY <1>4, <2>3, <2>4 DEF TapInv
<1>6. CASE ~open[o].deferError
  <2>1. /\ locked' = o /\ pack' = p /\ state' = "UPDATE_IR" /\ open' = open
        /\ tap' = [tap EXCEPT !.by = Nobody] /\ told' = FALSE /\ wrote' = NoValue
    BY <1>6 DEF Lock
  <2>2. tap' \in ValidTap /\ tap'.by = Nobody
    BY <1>2, <2>1 DEF Typed, ValidTap, TapIn
  <2>3. "UPDATE_IR" \in VALID_STATES
    BY DEF VALID_STATES
  <2>4. Typed'
    BY <1>1, <1>2, <1>3, <2>1, <2>2, <2>3 DEF Typed, NoValue
  <2>5. o # Nobody
    BY TapConstants
  <2> QED BY <1>1, <1>2, <1>3, <1>4, <2>1, <2>2, <2>4, <2>5, BareState
<1> QED BY <1>5, <1>6

\* What is packed is sent by a step that is no call.
LEMMA SentAll ==
    ASSUME TapInv, locked \in Opens, NEW s \in SendReceive(Session, <<>>)
    PROVE  /\ Sane(s) /\ s.open = open[locked] /\ s.packed = <<>>
           /\ s.tap \in ValidTap
           /\ s.error = "none" => EndOf(s) = Ends(Nodes, locked, tap, packed)
<1> DEFINE q == packed
<1>1. /\ Sane(Session) /\ Session.error = "none" /\ Session.open = open[locked] /\ Session.packed = packed
      /\ EndOf(Session) = Ends(Nodes, locked, tap, packed)
  BY SessionSane
<1>2. Session.tap = tap
  BY DEF Session
<1>3. q \in Seq(Given) /\ q = Session.packed \o <<>> /\ Held(Nodes, locked, Session.tap, q)
  <2>1. packed \in Seq(Given) /\ Held(Nodes, locked, tap, packed)
    <3>1. locked # Nobody
      BY TapConstants
    <3> QED BY <3>1 DEF TapInv, Typed, LockedPacks
  <2> HIDE DEF Given
  <2> QED BY <1>1, <1>2, <2>1
<1> HIDE DEF q
<1>4. /\ Sane(s) /\ s.open = Session.open /\ s.packed = <<>> /\ s.tap \in ValidTap
      /\ s.error = "none" => EndOf(s) = Ends(Nodes, locked, Session.tap, q)
  <2>1. PICK begun : begun = Session
    OBVIOUS
  <2>2. /\ Sane(begun) /\ begun.error = "none" /\ q = begun.packed \o <<>>
        /\ Held(Nodes, locked, begun.tap, q) /\ s \in SendReceive(begun, <<>>)
    BY <1>1, <1>3, <2>1
  <2>3. /\ Sane(s) /\ s.open = begun.open /\ s.packed = <<>> /\ s.tap \in ValidTap
        /\ s.error = "none" => EndOf(s) = Ends(Nodes, locked, begun.tap, q)
    BY <1>3, <2>2, Sends
  <2> QED BY <2>1, <2>3
<1> QED BY <1>1, <1>2, <1>4 DEF q

\* send_deferred.
LEMMA SendDeferredStep == ASSUME TapInv, SendDeferred PROVE TapInv'
<1>1. locked \in Opens /\ locked # Nobody /\ packed # <<>>
  BY DEF SendDeferred, TapInv, Typed
<1>2. PICK s \in SendReceive(Session, <<>>) :
         /\ tap' = s.tap /\ packed' = <<>> /\ caught' = s.caught
         /\ open' = [open EXCEPT ![locked].deferError = (s.error # "none")]
  BY DEF SendDeferred
<1>3. UNCHANGED <<scenario, claims, state, locked, pack, told, wrote>>
  BY DEF SendDeferred
<1>4. /\ Sane(s) /\ s.open = open[locked] /\ s.packed = <<>> /\ s.tap \in ValidTap
      /\ s.error = "none" => EndOf(s) = Ends(Nodes, locked, tap, packed)
  BY <1>1, SentAll
<1>5. style' = style /\ version' = version /\ Nodes' = Nodes /\ PackStyles' = PackStyles
  BY <1>3 DEF style, version, Nodes, PackStyles
<1>6. Typed /\ HubClaimed /\ open[locked] \in Remembered /\ NoError(open[locked])
  BY <1>1 DEF TapInv, Typed, LockedPacks
<1> DEFINE erred == s.error # "none"
           m == [open[locked] EXCEPT !.deferError = erred]
<1>7. erred \in BOOLEAN
  OBVIOUS
<1>a. ~erred => s.error = "none"
  OBVIOUS
<1>b. open' = [open EXCEPT ![locked] = m]
  BY <1>2
<1> HIDE DEF erred
<1>8. /\ m \in Remembered /\ m.deferError = erred /\ m.instruction = open[locked].instruction
      /\ m.overlay = open[locked].overlay
  BY <1>6, <1>7 DEF Remembered
<1> HIDE DEF m
<1>9. open' \in [Opens -> Remembered] /\ open'[locked] = m
  BY <1>1, <1>6, <1>8, <1>b DEF Typed
<1>10. CaughtOwn(s.caught) /\ <<>> \in Seq(Given) /\ Len(<<>>) <= MaxPacked
  <2>1. Len(<<>>) = 0 /\ MaxPacked \in Nat
    BY TapConstants
  <2> QED BY <1>4, <2>1, EmptySeq DEF Sane
<1>11. Typed'
  BY <1>2, <1>3, <1>4, <1>5, <1>6, <1>9, <1>10 DEF Typed
<1>12. HubClaimed'
  BY <1>3, <1>5, <1>6 DEF HubClaimed
<1>13. /\ Held(Nodes, locked, s.tap, <<>>) /\ Ends(Nodes, locked, s.tap, <<>>) = s.tap
       /\ ScansClaimed(Nodes, locked, claims[locked], s.tap, <<>>)
  <2>1. Nodes \in SUBSET Opens
    BY DEF Nodes
  <2> QED BY <1>1, <1>4, <2>1, HeldNothing, NothingClaimed
<1>14. LockedPacks'
  BY <1>1, <1>2, <1>3, <1>5, <1>13 DEF TapInv, LockedPacks
<1>15. Relies'
  <2> SUFFICES ASSUME Untroubled'
               PROVE  LET t == s.tap IN
                      /\ Agrees(locked, claims[locked], version, m, state, t)
                      /\ wrote # NoValue => t.overlay = Selected(Node[locked], wrote) /\ t.ir = OverlaidIr(claims[locked])
    BY <1>2, <1>3, <1>5, <1>9, <1>13 DEF Relies
  <2>1. ~told /\ s.error = "none"
    <3>1. ~told' /\ ~open'[locked'].deferError
      BY DEF Untroubled
    <3> QED BY <1>3, <1>8, <1>9, <1>a, <3>1
  <2>2. Untroubled
    BY <1>1, <1>6, <2>1 DEF Untroubled, NoError
  <2>3. s.tap = Ends(Nodes, locked, tap, packed)
    BY <1>4, <1>13, <2>1 DEF EndOf
  <2> QED BY <1>8, <2>2, <2>3 DEF TapInv, Relies, Agrees
<1> QED BY <1>11, <1>12, <1>14, <1>15 DEF TapInv

\* unlock: what was packed is sent, and nothing is known of the TAP any more.
LEMMA UnlockStep == ASSUME TapInv, Unlock PROVE TapInv'
<1>1. locked \in Opens /\ locked # Nobody
  BY DEF Unlock, TapInv, Typed
<1>2. PICK s : /\ s \in Pending(Session) \/ s \in SendReceive(Session, <<>>)
               /\ tap' = [s.tap EXCEPT !.by = Nobody] /\ caught' = s.caught
               /\ open' = [open EXCEPT ![locked] = s.open]
  BY DEF Unlock
<1>3. /\ locked' = Nobody /\ packed' = <<>> /\ told' = FALSE /\ wrote' = NoValue
      /\ UNCHANGED <<scenario, claims, state, pack>>
  BY DEF Unlock
<1>4. Sane(s)
  BY <1>1, <1>2, SessionSane, PendingTold, SentAll
<1>5. s.tap \in ValidTap /\ s.open \in Remembered /\ CaughtOwn(s.caught)
  <2>1. s.tap \in AnyTap /\ s.packed \in Seq(Given) /\ s.open \in Remembered
    BY <1>4, SessionFields DEF Sane
  <2> QED BY <1>1, <1>4, <2>1, HeldStart DEF Sane, Nodes
<1>6. style' = style /\ version' = version /\ Nodes' = Nodes /\ PackStyles' = PackStyles
  BY <1>3 DEF style, version, Nodes, PackStyles
<1>7. tap' \in ValidTap
  BY <1>2, <1>5 DEF ValidTap, TapIn
<1>8. <<>> \in Seq(Given) /\ Len(<<>>) <= MaxPacked
  <2>1. Len(<<>>) = 0 /\ MaxPacked \in Nat
    BY TapConstants
  <2> QED BY <2>1, EmptySeq
<1>9. Typed'
  BY <1>1, <1>2, <1>3, <1>5, <1>6, <1>7, <1>8 DEF TapInv, Typed, NoValue
<1>10. HubClaimed'
  BY <1>3, <1>6 DEF TapInv, HubClaimed
<1> QED BY <1>3, <1>9, <1>10, BareState

\* Every step.
LEMMA TapInvStep == TapInv /\ [Next]_vars => TapInv'
<1> SUFFICES ASSUME TapInv, [Next]_vars PROVE TapInv'
  OBVIOUS
<1>1. CASE \E o \in Opens : Open(o)
  BY <1>1, OpenStep
<1>2. CASE \E o \in Opens, p \in PackStyles : Lock(o, p)
  BY <1>2, LockStep
<1>3. CASE CallAccessIr \/ CallAccessIrBits \/ CallAccessDr \/ CallRunTestIdle
  BY <1>3, AccessIrStep, AccessIrBitsStep, AccessDrStep, RunTestIdleStep
<1>4. CASE CallTestLogicReset \/ CallDelay \/ CallAccessOverlay \/ CallFlush
  BY <1>4, ResetDelayStep, AccessOverlayStep, FlushStep
<1>5. CASE SendDeferred \/ Unlock
  BY <1>5, SendDeferredStep, UnlockStep
<1>6. CASE UNCHANGED vars
  BY <1>6 DEF vars, TapInv, Typed, HubClaimed, LockedPacks, Relies, Untroubled, PackStyles, style, version, Nodes
<1> QED BY <1>1, <1>2, <1>3, <1>4, <1>5, <1>6 DEF Next

\* The commands calls give are among those of the type invariant.
LEMMA GivenAreCommands == Seq(Given) \subseteq Seq(Commands)
<1>1. Given \subseteq Commands
  <2>1. <<1>> \in Seq({0, 1})
    OBVIOUS
  <2>2. IrCommands \subseteq Commands /\ DrCommands \subseteq Commands /\ IdleCommands \subseteq Commands
    BY DEF Commands, IrCommands, DrCommands, IdleCommands
  <2>3. BareCommands \subseteq Commands
    BY DEF Commands, BareCommands
  <2>4. ClockCommands \subseteq Commands
    BY <2>1 DEF Commands, ClockCommands
  <2> QED BY <2>2, <2>3, <2>4 DEF Given
<1> HIDE DEF Given, Commands
<1> QED BY <1>1

\* The invariant is enough for the properties.
LEMMA TapInvTyped == TapInv => TypeOK
<1> SUFFICES ASSUME Typed PROVE TypeOK
  BY DEF TapInv
<1>1. packed \in Seq(Commands)
  BY GivenAreCommands DEF Typed
<1>2. tap \in [state : VALID_STATES, ir : Nat, by : Opens \cup {Nobody}, overlay : Nat, capture : SUBSET Opens]
  BY DEF Typed, ValidTap, TapIn
<1>3. caught \in [of : Opens \cup {Nobody}, from : SUBSET Opens]
  BY DEF Typed, CaughtOwn
<1> QED BY <1>1, <1>2, <1>3 DEF Typed, TypeOK, Remembered

\* When nothing is packed the TAP is where it will be.
LEMMA EndsNow == ASSUME TapInv, locked \in Opens, packed = <<>> PROVE Ends(Nodes, locked, tap, packed) = tap
<1>1. tap \in ValidTap /\ Nodes \in SUBSET Opens
  BY DEF TapInv, Typed, Nodes
<1> QED BY <1>1, HeldNothing

\* What is remembered is what is in the TAP, now that nothing is packed.
LEMMA TapInvRemembers == TapInv => RemembersTap
<1> SUFFICES ASSUME TapInv, Untroubled, packed = <<>>, tap.by = locked
             PROVE  /\ open[locked].instruction = tap.ir
                    /\ open[locked].overlay = (tap.ir = OverlayIr(claims[locked]))
                    /\ \/ state = tap.state
                       \/ state = "RUN_TEST_IDLE" /\ tap.state = "SELECT_DR_SCAN" /\ version >= 12
  BY TapInvTyped DEF RemembersTap
<1>1. locked \in Opens
  BY DEF TapInv, Typed, Untroubled
<1>2. Agrees(locked, claims[locked], version, open[locked], state, tap)
  BY <1>1, EndsNow DEF TapInv, Relies
<1> QED BY <1>2 DEF Agrees

\* Every scan packed for the overlay register is a claimed one.
LEMMA TapInvPacked == TapInv => PackedOverlayClaimed
<1> SUFFICES ASSUME TapInv, Untroubled, NEW i \in DOMAIN packed, packed[i].op = "dr", OverlayAt(i)
             PROVE  packed[i].whole /\ (Owns(packed[i].value) \/ Lookalike(packed[i].value))
  BY DEF PackedOverlayClaimed
<1>1. i \in 1 .. Len(packed)
  <2>1. packed \in Seq(Given)
    BY DEF TapInv, Typed
  <2> HIDE DEF Given
  <2> QED BY <2>1
<1>2. ScanClaimed(locked, claims[locked], Taps(Nodes, locked, tap, packed)[i - 1], packed[i])
  BY <1>1 DEF TapInv, Relies, ScansClaimed
<1>3. packed[i].whole /\ \E c \in claims[locked] : c.value = packed[i].value
  BY <1>2 DEF ScanClaimed, OverlayAt
<1> QED BY <1>3 DEF Owns, Lookalike

\* An access of the overlay register was of the own node's.
LEMMA TapInvOverlay == TapInv => OverlayAccess
<1> SUFFICES ASSUME TapInv PROVE CapturedFromNode /\ OverlayWritten
  BY DEF OverlayAccess
<1>1. CapturedFromNode
  BY DEF TapInv, Typed, CaughtOwn, CapturedFromNode
<1>2. ASSUME Untroubled, wrote # NoValue, packed = <<>>
      PROVE  tap.overlay = Selected(Node[locked], wrote) /\ tap.ir = OverlaidIr(claims[locked])
  <2>1. locked \in Opens
    BY <1>2 DEF TapInv, Typed, Untroubled
  <2> QED BY <1>2, <2>1, EndsNow DEF TapInv, Relies
<1> QED BY <1>1, <1>2 DEF OverlayWritten

\* What an open device remembers is what is in the TAP, also after packed commands
\* failed, unless the program was told: for any devices, claims, servers, packets and
\* any command the server refuses.
THEOREM RemembersTheTap == Spec => []RemembersTap
  BY InitInv, TapInvStep, TapInvRemembers, PTL DEF Spec

\* A scan packed for the overlay register, whatever was packed before it that selects
\* the register, writes all of it with a value that the program owns, or that one of
\* its weak or instruction claims has the number of.
THEOREM PackedIsClaimed == Spec => []PackedOverlayClaimed
  BY InitInv, TapInvStep, TapInvPacked, PTL DEF Spec

\* access_overlay captures from the device's own node, and writes the node's own
\* value and leaves the overlaid instruction.
THEOREM OwnNode == Spec => []OverlayAccess
  BY InitInv, TapInvStep, TapInvOverlay, PTL DEF Spec

-----------------------------------------------------------------------------
(* The calls of Hubs, which hand the lock from the chain to the device of  *)
(* a hub and back: for every device, however its hubs hang together.       *)

\* A list of whatever it has.
IsList(s) == s \in Seq({s[k] : k \in DOMAIN s})

LEMMA ListIs == ASSUME NEW T, NEW s \in Seq(T) PROVE IsList(s)
<1> DEFINE S == {s[k] : k \in DOMAIN s}
<1>1. Len(s) \in Nat /\ DOMAIN s = 1 .. Len(s) /\ s = [k \in 1 .. Len(s) |-> s[k]]
  OBVIOUS
<1>2. \A k \in 1 .. Len(s) : s[k] \in S
  BY <1>1
<1> HIDE DEF S
<1>3. s \in [1 .. Len(s) -> S]
  BY <1>1, <1>2
<1>4. s \in Seq(S)
  BY <1>1, <1>3
<1> QED BY <1>4 DEF IsList, S

\* All but the last.
LEMMA ShorterIs ==
    ASSUME NEW T, NEW s \in Seq(T), Len(s) > 0
    PROVE  /\ Front(s) \in Seq(T) /\ Len(Front(s)) = Len(s) - 1
           /\ \A k \in 1 .. Len(s) - 1 : Front(s)[k] = s[k]
<1>1. Len(s) \in Nat \ {0} /\ \A k \in 1 .. Len(s) - 1 : s[k] \in T
  OBVIOUS
<1> DEFINE n == Len(s) - 1
<1>2. n \in Int /\ 1 \in Int /\ \A k \in 1 .. n : s[k] \in T
  BY <1>1
<1>3. n \in Nat /\ Front(s) = SubSeq(s, 1, n)
  BY <1>1 DEF Front
<1> HIDE DEF n
<1>4. /\ SubSeq(s, 1, n) \in Seq(T)
      /\ Len(SubSeq(s, 1, n)) = IF 1 <= n THEN n - 1 + 1 ELSE 0
      /\ \A i \in 1 .. n - 1 + 1 : SubSeq(s, 1, n)[i] = s[1 + i - 1]
  BY <1>2, SubSeqProperties
<1>5. Len(SubSeq(s, 1, n)) = n /\ \A k \in 1 .. n : SubSeq(s, 1, n)[k] = s[k]
  BY <1>3, <1>4
<1> QED BY <1>3, <1>4, <1>5 DEF n

\* The innermost call is replaced.
LEMMA Replaced ==
    ASSUME NEW s, IsList(s), s # <<>>, NEW f
    PROVE  LET r == Append(Front(s), f) IN
           /\ IsList(r) /\ r # <<>> /\ Len(r) = Len(s) /\ Len(s) \in Nat \ {0}
           /\ Last(r) = f /\ r[Len(s)] = f /\ \A k \in 1 .. Len(s) - 1 : r[k] = s[k]
           /\ DOMAIN r = 1 .. Len(s)
<1> DEFINE T == {s[k] : k \in DOMAIN s} \cup {f}
           a == Front(s)
           r == Append(a, f)
<1>1. s \in Seq(T) /\ f \in T /\ Len(s) \in Nat \ {0}
  BY DEF IsList
<1> HIDE DEF T
<1>2. a \in Seq(T) /\ Len(a) = Len(s) - 1 /\ \A k \in 1 .. Len(s) - 1 : a[k] = s[k]
  BY <1>1, ShorterIs
<1> HIDE DEF a
<1>3. /\ r \in Seq(T) /\ Len(r) = Len(s) /\ r[Len(s)] = f /\ \A k \in 1 .. Len(s) - 1 : r[k] = s[k]
      /\ DOMAIN r = 1 .. Len(s)
  BY <1>1, <1>2
<1> HIDE DEF r
<1>4. IsList(r) /\ r # <<>> /\ Last(r) = f
  BY <1>1, <1>3, ListIs DEF Last
<1> QED BY <1>1, <1>3, <1>4 DEF r, a

\* It calls another one.
LEMMA Called ==
    ASSUME NEW s, IsList(s), s # <<>>, NEW g, NEW f
    PROVE  LET r == Front(s) \o <<g, f>> IN
           /\ IsList(r) /\ r # <<>> /\ Len(r) = Len(s) + 1 /\ Len(s) \in Nat \ {0}
           /\ Last(r) = f /\ r[Len(s) + 1] = f /\ r[Len(s)] = g /\ \A k \in 1 .. Len(s) - 1 : r[k] = s[k]
           /\ DOMAIN r = 1 .. Len(s) + 1
<1> DEFINE T == {s[k] : k \in DOMAIN s} \cup {f, g}
           a == Front(s)
           b == <<g, f>>
           r == a \o b
<1>1. s \in Seq(T) /\ f \in T /\ g \in T /\ Len(s) \in Nat \ {0}
  BY DEF IsList
<1> HIDE DEF T
<1>2. a \in Seq(T) /\ Len(a) = Len(s) - 1 /\ \A k \in 1 .. Len(s) - 1 : a[k] = s[k]
  BY <1>1, ShorterIs
<1>3. b \in Seq(T) /\ Len(b) = 2 /\ b[1] = g /\ b[2] = f
  BY <1>1
<1> HIDE DEF a, b
<1>4. /\ r \in Seq(T) /\ Len(r) = Len(s) + 1 /\ DOMAIN r = 1 .. Len(s) + 1
      /\ \A k \in 1 .. Len(s) - 1 : r[k] = s[k]
      /\ r[Len(s)] = g /\ r[Len(s) + 1] = f
  <2>1. /\ r \in Seq(T) /\ Len(r) = Len(a) + Len(b)
        /\ \A i \in 1 .. Len(a) + Len(b) : r[i] = IF i <= Len(a) THEN a[i] ELSE b[i - Len(a)]
    BY <1>2, <1>3, ConcatProperties
  <2> HIDE DEF r
  <2>2. DOMAIN r = 1 .. Len(r)
    BY <2>1
  <2>3. Len(r) = Len(s) + 1
    BY <1>1, <1>2, <1>3, <2>1
  <2>4. ASSUME NEW k \in 1 .. Len(s) - 1 PROVE r[k] = s[k]
    <3>1. k <= Len(a) /\ k \in 1 .. Len(a) + Len(b) /\ a[k] = s[k]
      BY <1>1, <1>2, <1>3
    <3> QED BY <2>1, <3>1
  <2>5. r[Len(s)] = g /\ r[Len(s) + 1] = f
    BY <1>1, <1>2, <1>3, <2>1
  <2> QED BY <2>1, <2>2, <2>3, <2>4, <2>5
<1> HIDE DEF r
<1>6. IsList(r) /\ r # <<>> /\ Last(r) = f
  BY <1>1, <1>4, ListIs DEF Last
<1> QED BY <1>1, <1>4, <1>6 DEF r, a, b

\* It returns to its caller.
LEMMA Popped ==
    ASSUME NEW s, IsList(s), Len(s) > 1, NEW g
    PROVE  LET r == Append(Front(Front(s)), g) IN
           /\ IsList(r) /\ r # <<>> /\ Len(r) = Len(s) - 1 /\ Len(s) \in Nat
           /\ Last(r) = g /\ r[Len(s) - 1] = g /\ \A k \in 1 .. Len(s) - 2 : r[k] = s[k]
           /\ DOMAIN r = 1 .. Len(s) - 1
<1> DEFINE T == {s[k] : k \in DOMAIN s} \cup {g}
           a == Front(s)
<1>1. s \in Seq(T) /\ g \in T /\ Len(s) \in Nat
  <2>1. s \in Seq(T) /\ g \in T
    BY DEF IsList
  <2> HIDE DEF T
  <2>2. Len(s) \in Nat
    BY <2>1, LenProperties
  <2> QED BY <2>1, <2>2
<1> HIDE DEF T
<1>2. a \in Seq(T) /\ Len(a) = Len(s) - 1 /\ \A k \in 1 .. Len(s) - 1 : a[k] = s[k]
  BY <1>1, ShorterIs
<1> HIDE DEF a
<1>3. IsList(a) /\ a # <<>>
  BY <1>1, <1>2, ListIs
<1>4. /\ IsList(Append(Front(a), g)) /\ Append(Front(a), g) # <<>> /\ Len(Append(Front(a), g)) = Len(a)
      /\ Last(Append(Front(a), g)) = g /\ Append(Front(a), g)[Len(a)] = g
      /\ \A k \in 1 .. Len(a) - 1 : Append(Front(a), g)[k] = a[k]
      /\ DOMAIN Append(Front(a), g) = 1 .. Len(a)
  BY <1>3, Replaced
<1> DEFINE r == Append(Front(a), g)
<1> HIDE DEF r
<1>5. /\ IsList(r) /\ r # <<>> /\ Len(r) = Len(a) /\ Last(r) = g /\ r[Len(a)] = g
      /\ \A k \in 1 .. Len(a) - 1 : r[k] = a[k]
      /\ DOMAIN r = 1 .. Len(a)
  BY <1>4 DEF r
<1>6. /\ IsList(r) /\ r # <<>> /\ Len(r) = Len(s) - 1 /\ Len(s) \in Nat
      /\ Last(r) = g /\ r[Len(s) - 1] = g /\ \A k \in 1 .. Len(s) - 2 : r[k] = s[k]
      /\ DOMAIN r = 1 .. Len(s) - 1
  BY <1>1, <1>2, <1>5
<1> QED BY <1>6 DEF r, a

\* A path that leads to another.
LEMMA PrefixIs ==
    ASSUME NEW a \in Seq(Nat), NEW b \in Seq(Nat)
    PROVE  IsPrefix(a, b) <=> Len(a) <= Len(b) /\ \A i \in 1 .. Len(a) : a[i] = b[i]
<1>0. Len(a) \in Nat /\ Len(b) \in Nat
  OBVIOUS
<1>1. SubSeq(a, 1, Len(a)) = a
  OBVIOUS
<1> SUFFICES ASSUME Len(a) <= Len(b)
             PROVE  SubSeq(b, 1, Len(a)) = a <=> \A i \in 1 .. Len(a) : a[i] = b[i]
  BY <1>0, <1>1 DEF IsPrefix
<1> DEFINE c == SubSeq(b, 1, Len(a))
<1>2. c \in Seq(Nat) /\ Len(c) = Len(a) /\ \A i \in 1 .. Len(a) : c[i] = b[i]
  BY <1>0
<1> HIDE DEF c
<1>3. (\A i \in 1 .. Len(a) : a[i] = c[i]) => a = c
  BY <1>2, SeqEqual
<1> QED BY <1>2, <1>3 DEF c

\* The hub behind a bridge.
LEMMA PathGrows ==
    ASSUME NEW p \in Seq(Nat), NEW i \in Nat
    PROVE  /\ Append(p, i) \in Seq(Nat) /\ Len(Append(p, i)) = Len(p) + 1 /\ Len(p) \in Nat
           /\ Front(Append(p, i)) = p /\ Append(p, i) # <<>>
           /\ \A q \in Seq(Nat) : IsPrefix(q, p) => IsPrefix(q, Append(p, i))
           /\ IsPrefix(Append(p, i), Append(p, i))
<1> DEFINE r == Append(p, i)
<1>1. r \in Seq(Nat) /\ Len(r) = Len(p) + 1 /\ Len(p) \in Nat /\ \A k \in 1 .. Len(p) : r[k] = p[k]
  OBVIOUS
<1>2. r # <<>>
  BY <1>1
<1> HIDE DEF r
<1>3. Front(r) = p
  BY <1>1 DEF Front
<1>4. ASSUME NEW q \in Seq(Nat), IsPrefix(q, p)
      PROVE  IsPrefix(q, r)
  <2>1. Len(q) <= Len(p) /\ Len(q) \in Nat /\ \A k \in 1 .. Len(q) : q[k] = p[k]
    BY <1>4, PrefixIs
  <2>2. Len(q) <= Len(r) /\ \A k \in 1 .. Len(q) : q[k] = r[k]
    BY <1>1, <2>1
  <2> QED BY <1>1, <2>2, PrefixIs
<1>5. IsPrefix(r, r)
  BY <1>1, PrefixIs
<1>6. r \in Seq(Nat) /\ Len(r) = Len(p) + 1 /\ Len(p) \in Nat
  BY <1>1
<1> QED BY <1>2, <1>3, <1>4, <1>5, <1>6 DEF r

\* A path that leads to p leads to the hub that has the bridge, or is p.
LEMMA PathBack ==
    ASSUME NEW p \in Seq(Nat), p # <<>>
    PROVE  /\ Front(p) \in Seq(Nat) /\ Len(Front(p)) = Len(p) - 1 /\ Len(p) \in Nat \ {0} /\ IsPrefix(Front(p), p)
           /\ \A q \in Seq(Nat) : IsPrefix(q, p) /\ q # p => IsPrefix(q, Front(p))
           /\ \A q \in Seq(Nat) : IsPrefix(q, p) /\ Len(q) = Len(p) - 1 => q = Front(p)
           /\ \A q \in Seq(Nat) : IsPrefix(q, p) /\ Len(q) = Len(p) => q = p
<1> DEFINE a == Front(p)
<1>1. a \in Seq(Nat) /\ Len(a) = Len(p) - 1 /\ Len(p) \in Nat \ {0} /\ \A k \in 1 .. Len(p) - 1 : a[k] = p[k]
  <2>1. Len(p) \in Nat \ {0}
    BY EmptySeq
  <2> QED BY <2>1, ShorterIs
<1> HIDE DEF a
<1>2. IsPrefix(a, p)
  <2>1. Len(a) <= Len(p) /\ \A i \in 1 .. Len(a) : a[i] = p[i]
    BY <1>1
  <2> QED BY <1>1, <2>1, PrefixIs
<1>3. ASSUME NEW q \in Seq(Nat), IsPrefix(q, p), Len(q) = Len(p) PROVE q = p
  <2>1. \A k \in 1 .. Len(q) : q[k] = p[k]
    BY <1>3, PrefixIs
  <2> QED BY <1>3, <2>1, SeqEqual
<1>4. ASSUME NEW q \in Seq(Nat), IsPrefix(q, p), q # p PROVE IsPrefix(q, a)
  <2>1. Len(q) <= Len(p) /\ Len(q) \in Nat /\ \A k \in 1 .. Len(q) : q[k] = p[k]
    BY <1>4, PrefixIs
  <2>2. Len(q) # Len(p)
    BY <1>3, <1>4
  <2>3. Len(q) <= Len(a) /\ \A k \in 1 .. Len(q) : q[k] = a[k]
    BY <1>1, <2>1, <2>2
  <2> QED BY <1>1, <2>3, PrefixIs
<1>5. ASSUME NEW q \in Seq(Nat), IsPrefix(q, p), Len(q) = Len(p) - 1 PROVE q = a
  <2>1. \A k \in 1 .. Len(q) : q[k] = p[k]
    BY <1>5, PrefixIs
  <2>2. Len(q) = Len(a) /\ \A k \in 1 .. Len(q) : q[k] = a[k]
    BY <1>1, <1>5, <2>1
  <2> QED BY <1>1, <2>2, SeqEqual
<1> QED BY <1>1, <1>2, <1>3, <1>4, <1>5 DEF a

\* A path that leads to one that leads to another leads there; every path begins with none.
LEMMA PathsCompose ==
    ASSUME NEW a \in Seq(Nat), NEW b \in Seq(Nat), NEW c \in Seq(Nat)
    PROVE  /\ IsPrefix(a, b) /\ IsPrefix(b, c) => IsPrefix(a, c)
           /\ IsPrefix(<<>>, c) /\ IsPrefix(c, c)
           /\ IsPrefix(a, b) => Len(a) <= Len(b)
<1>1. IsPrefix(a, b) => Len(a) <= Len(b)
  BY DEF IsPrefix
<1>2. <<>> \in Seq(Nat) /\ Len(<<>>) = 0 /\ Len(c) \in Nat
  OBVIOUS
<1>3. IsPrefix(<<>>, c)
  <2> DEFINE e == <<>>
  <2>1. e \in Seq(Nat) /\ Len(e) = 0
    BY <1>2
  <2> HIDE DEF e
  <2>2. Len(e) <= Len(c) /\ \A i \in 1 .. Len(e) : e[i] = c[i]
    BY <1>2, <2>1
  <2>3. IsPrefix(e, c)
    BY <2>1, <2>2, PrefixIs
  <2> QED BY <2>3 DEF e
<1>4. ASSUME IsPrefix(a, b), IsPrefix(b, c) PROVE IsPrefix(a, c)
  <2>1. /\ Len(a) <= Len(b) /\ Len(b) <= Len(c) /\ Len(a) \in Nat /\ Len(b) \in Nat
        /\ \A k \in 1 .. Len(a) : a[k] = b[k]
        /\ \A k \in 1 .. Len(b) : b[k] = c[k]
    BY <1>4, PrefixIs
  <2>2. Len(a) <= Len(c) /\ \A k \in 1 .. Len(a) : a[k] = c[k]
    BY <1>2, <2>1
  <2> QED BY <2>2, PrefixIs
<1>5. IsPrefix(c, c)
  <2>1. Len(c) <= Len(c) /\ \A i \in 1 .. Len(c) : c[i] = c[i]
    BY <1>2
  <2> QED BY <2>1, PrefixIs
<1> QED BY <1>1, <1>3, <1>4, <1>5

-----------------------------------------------------------------------------
(* The calls of read_hub_information, the hubs they read, and the lock.     *)

\* f is a call, whatever overlay it reads with.
FrameTyped(f) ==
    f \in [hub : Seq(Nat), at : {"open", "pass", "identify", "nodes", "scan", "back", "child", "returned"},
           i : Nat, bits : {f.bits}, select : {f.select}, error : BOOLEAN]

\* The calls are those of the hubs on one path.
CallsNest ==
    /\ IsList(stack)
    /\ \A k \in DOMAIN stack :
         /\ FrameTyped(stack[k])
         /\ Len(stack[k].hub) = k - 1 /\ stack[k].hub \in DOMAIN hubs /\ IsPrefix(stack[k].hub, Top.hub)
    /\ InHub("returned") => Len(stack) = 1

HubTyped == [open : BOOLEAN, known : BOOLEAN, nodes : {"null", "garbage", "read"}]

\* A hub has those above it; one that is not known to be a hub is still being read.
HubsHang ==
    /\ DOMAIN hubs \subseteq Seq(Nat) /\ hubs \in [DOMAIN hubs -> HubTyped]
    /\ \A p \in DOMAIN hubs :
         /\ p # <<>> => Front(p) \in DOMAIN hubs
         /\ hubs[p].known => p \in DOMAIN Tree
         /\ ~hubs[p].known => stack # <<>> /\ IsPrefix(p, Top.hub)
    /\ stack = <<>> => DOMAIN hubs = {}

\* NoHolder but the innermost call has given the lock to a device, which is its own.
LockHeld ==
    /\ \/ lock \in {Chain, NoHolder}
       \/ /\ lock = Device(Top.hub) /\ hubs[Top.hub].open
          /\ \E at \in {"identify", "nodes", "scan", "back"} : InHub(at)
    /\ InHub("identify") \/ InHub("nodes") => lock = Device(Top.hub)
    /\ InHub("pass") => hubs[Top.hub].open

CallTyped == call \in [op : {call.op}, at : {"idle", "read"}, id : {call.id}, room : {call.room}, faults : {call.faults}]

\* A hub whose nodes were not read, or which was not opened, has failed, or is being read.
FailuresKnown ==
    \A p \in DOMAIN hubs :
       /\ hubs[p].known /\ hubs[p].nodes = "null" /\ NodesAt(p) # <<>> =>
            p \in failed \/ (Top.hub = p /\ (InHub("nodes") \/ (InHub("back") /\ Top.error)))
       /\ ~hubs[p].open =>
            p \in failed \/ ~world.possible \/ (Top.hub = p /\ InHub("open"))

HubsRead ==
    /\ CallsNest /\ HubsHang /\ LockHeld /\ FailuresKnown
    /\ CallTyped /\ (stack = <<>> <=> call.at = "idle")
    /\ failed \subseteq Seq(Nat) /\ leaked \subseteq DOMAIN Tree \cup {<<>>}
    /\ world \in Worlds /\ (stack # <<>> => result = NoResult)

\* What there is of the innermost call.
LEMMA TopIs ==
    ASSUME HubsRead, stack # <<>>
    PROVE  /\ Len(stack) \in Nat \ {0} /\ DOMAIN stack = 1 .. Len(stack) /\ Top = stack[Len(stack)]
           /\ FrameTyped(Top) /\ Top.hub \in DOMAIN hubs /\ Top.hub \in Seq(Nat) /\ Len(Top.hub) = Len(stack) - 1
           /\ hubs[Top.hub] \in HubTyped
           /\ \A k \in DOMAIN stack : stack[k].hub \in Seq(Nat)
<1>1. IsList(stack)
  BY DEF HubsRead, CallsNest
<1>2. Len(stack) \in Nat \ {0} /\ DOMAIN stack = 1 .. Len(stack)
  <2>1. stack \in Seq({stack[k] : k \in DOMAIN stack})
    BY <1>1 DEF IsList
  <2> QED BY <2>1, EmptySeq, LenProperties
<1>3. Top = stack[Len(stack)] /\ Len(stack) \in DOMAIN stack
  BY <1>2 DEF Top, Last
<1>4. /\ FrameTyped(Top) /\ Top.hub \in DOMAIN hubs /\ Len(Top.hub) = Len(stack) - 1
  BY <1>3 DEF HubsRead, CallsNest
<1>5. Top.hub \in Seq(Nat) /\ hubs[Top.hub] \in HubTyped
  BY <1>4 DEF HubsRead, HubsHang
<1>6. \A k \in DOMAIN stack : stack[k].hub \in Seq(Nat)
  BY DEF HubsRead, CallsNest, FrameTyped
<1> QED BY <1>2, <1>3, <1>4, <1>5, <1>6, ZenonT(30)

\* The call is as it was, but for the bound.
LEMMA CallGoesOn ==
    ASSUME CallTyped, UNCHANGED call \/ Fault
    PROVE  CallTyped' /\ call'.at = call.at
<1>1. CASE UNCHANGED call
  BY <1>1 DEF CallTyped
<1>2. CASE Fault
  BY <1>2 DEF CallTyped, Fault
<1> QED BY <1>1, <1>2

\* A call goes on, fails, has returned, goes on after a call, or calls.
LEMMA FrameGoes ==
    ASSUME NEW f, FrameTyped(f), NEW at \in {"pass", "identify", "nodes", "scan", "back"}
    PROVE  /\ FrameTyped([f EXCEPT !.at = at])
           /\ [f EXCEPT !.at = at].at = at /\ [f EXCEPT !.at = at].hub = f.hub /\ [f EXCEPT !.at = at].error = f.error
<1> DEFINE Ats == {"open", "pass", "identify", "nodes", "scan", "back", "child", "returned"}
           g == [f EXCEPT !.at = at]
<1>1. f \in [hub : Seq(Nat), at : Ats, i : Nat, bits : {f.bits}, select : {f.select}, error : BOOLEAN]
  BY DEF FrameTyped
<1>2. f.i \in Nat /\ f.i + 1 \in Nat
  BY <1>1
<1>3. g \in [hub : Seq(Nat), at : Ats, i : Nat, bits : {f.bits}, select : {f.select}, error : BOOLEAN]
  BY <1>1, <1>2 DEF Continued
<1>4. g.at = at /\ g.hub = f.hub /\ g.error = f.error
  BY <1>1 DEF Continued
<1> HIDE DEF g
<1>5. g.bits = f.bits /\ g.select = f.select
  BY <1>3
<1>6. FrameTyped(g)
  BY <1>3, <1>5 DEF FrameTyped
<1> QED BY <1>4, <1>6 DEF g

LEMMA FrameFails ==
    ASSUME NEW f, FrameTyped(f)
    PROVE  /\ FrameTyped([f EXCEPT !.at = "back", !.error = TRUE])
           /\ [f EXCEPT !.at = "back", !.error = TRUE].at = "back" /\ [f EXCEPT !.at = "back", !.error = TRUE].hub = f.hub /\ [f EXCEPT !.at = "back", !.error = TRUE].error
<1> DEFINE Ats == {"open", "pass", "identify", "nodes", "scan", "back", "child", "returned"}
           g == [f EXCEPT !.at = "back", !.error = TRUE]
<1>1. f \in [hub : Seq(Nat), at : Ats, i : Nat, bits : {f.bits}, select : {f.select}, error : BOOLEAN]
  BY DEF FrameTyped
<1>2. f.i \in Nat /\ f.i + 1 \in Nat
  BY <1>1
<1>3. g \in [hub : Seq(Nat), at : Ats, i : Nat, bits : {f.bits}, select : {f.select}, error : BOOLEAN]
  BY <1>1, <1>2 DEF Continued
<1>4. g.at = "back" /\ g.hub = f.hub /\ g.error
  BY <1>1 DEF Continued
<1> HIDE DEF g
<1>5. g.bits = f.bits /\ g.select = f.select
  BY <1>3
<1>6. FrameTyped(g)
  BY <1>3, <1>5 DEF FrameTyped
<1> QED BY <1>4, <1>6 DEF g

LEMMA FrameEnds ==
    ASSUME NEW f, FrameTyped(f), NEW error \in BOOLEAN
    PROVE  /\ FrameTyped([f EXCEPT !.at = "returned", !.error = error])
           /\ [f EXCEPT !.at = "returned", !.error = error].at = "returned" /\ [f EXCEPT !.at = "returned", !.error = error].hub = f.hub
<1> DEFINE Ats == {"open", "pass", "identify", "nodes", "scan", "back", "child", "returned"}
           g == [f EXCEPT !.at = "returned", !.error = error]
<1>1. f \in [hub : Seq(Nat), at : Ats, i : Nat, bits : {f.bits}, select : {f.select}, error : BOOLEAN]
  BY DEF FrameTyped
<1>2. f.i \in Nat /\ f.i + 1 \in Nat
  BY <1>1
<1>3. g \in [hub : Seq(Nat), at : Ats, i : Nat, bits : {f.bits}, select : {f.select}, error : BOOLEAN]
  BY <1>1, <1>2 DEF Continued
<1>4. g.at = "returned" /\ g.hub = f.hub
  BY <1>1 DEF Continued
<1> HIDE DEF g
<1>5. g.bits = f.bits /\ g.select = f.select
  BY <1>3
<1>6. FrameTyped(g)
  BY <1>3, <1>5 DEF FrameTyped
<1> QED BY <1>4, <1>6 DEF g

LEMMA FrameContinues ==
    ASSUME NEW f, FrameTyped(f), NEW error \in BOOLEAN
    PROVE  /\ FrameTyped(Continued(f, error))
           /\ Continued(f, error).at = "scan" /\ Continued(f, error).hub = f.hub
<1> DEFINE Ats == {"open", "pass", "identify", "nodes", "scan", "back", "child", "returned"}
           g == Continued(f, error)
<1>1. f \in [hub : Seq(Nat), at : Ats, i : Nat, bits : {f.bits}, select : {f.select}, error : BOOLEAN]
  BY DEF FrameTyped
<1>2. f.i \in Nat /\ f.i + 1 \in Nat
  BY <1>1
<1>3. g \in [hub : Seq(Nat), at : Ats, i : Nat, bits : {f.bits}, select : {f.select}, error : BOOLEAN]
  BY <1>1, <1>2 DEF Continued
<1>4. g.at = "scan" /\ g.hub = f.hub
  BY <1>1 DEF Continued
<1> HIDE DEF g
<1>5. g.bits = f.bits /\ g.select = f.select
  BY <1>3
<1>6. FrameTyped(g)
  BY <1>3, <1>5 DEF FrameTyped
<1> QED BY <1>4, <1>6 DEF g

LEMMA FrameCalls ==
    ASSUME NEW f, FrameTyped(f), NEW i \in Nat
    PROVE  /\ FrameTyped([f EXCEPT !.at = "child", !.i = i])
           /\ [f EXCEPT !.at = "child", !.i = i].at = "child" /\ [f EXCEPT !.at = "child", !.i = i].hub = f.hub
<1> DEFINE Ats == {"open", "pass", "identify", "nodes", "scan", "back", "child", "returned"}
           g == [f EXCEPT !.at = "child", !.i = i]
<1>1. f \in [hub : Seq(Nat), at : Ats, i : Nat, bits : {f.bits}, select : {f.select}, error : BOOLEAN]
  BY DEF FrameTyped
<1>2. f.i \in Nat /\ f.i + 1 \in Nat
  BY <1>1
<1>3. g \in [hub : Seq(Nat), at : Ats, i : Nat, bits : {f.bits}, select : {f.select}, error : BOOLEAN]
  BY <1>1, <1>2 DEF Continued
<1>4. g.at = "child" /\ g.hub = f.hub
  BY <1>1 DEF Continued
<1> HIDE DEF g
<1>5. g.bits = f.bits /\ g.select = f.select
  BY <1>3
<1>6. FrameTyped(g)
  BY <1>3, <1>5 DEF FrameTyped
<1> QED BY <1>4, <1>6 DEF g

\* The innermost call goes on, after it has changed its hub or not.
LEMMA StepKeeps ==
    ASSUME HubsRead, stack # <<>>,
           NEW g, FrameTyped(g), g.hub = Top.hub, g.at # "returned", Step(g),
           NEW h \in HubTyped, hubs' = [hubs EXCEPT ![Top.hub] = h],
           h.known => Top.hub \in DOMAIN Tree,
           h.known /\ h.nodes = "null" /\ NodesAt(Top.hub) # <<>> =>
               Top.hub \in failed \/ g.at = "nodes" \/ (g.at = "back" /\ g.error),
           ~h.open => Top.hub \in failed \/ ~world.possible \/ g.at = "open",
           \/ lock' \in {Chain, NoHolder} /\ g.at \notin {"identify", "nodes"}
           \/ lock' = Device(Top.hub) /\ h.open /\ g.at \in {"identify", "nodes", "scan", "back"},
           g.at = "pass" => h.open,
           UNCHANGED call \/ Fault, UNCHANGED <<world, result, failed, leaked>>
    PROVE  HubsRead'
<1> DEFINE p == Top.hub
<1>1. /\ Len(stack) \in Nat \ {0} /\ DOMAIN stack = 1 .. Len(stack) /\ Top = stack[Len(stack)]
      /\ p \in DOMAIN hubs /\ p \in Seq(Nat) /\ Len(p) = Len(stack) - 1
      /\ \A k \in DOMAIN stack : stack[k].hub \in Seq(Nat)
  BY TopIs, ZenonT(30)
<1>2. IsList(stack)
  BY DEF HubsRead, CallsNest
<1>3. /\ IsList(stack') /\ stack' # <<>> /\ Last(stack') = g /\ stack'[Len(stack)] = g
      /\ \A k \in 1 .. Len(stack) - 1 : stack'[k] = stack[k]
      /\ DOMAIN stack' = 1 .. Len(stack) /\ Len(stack') = Len(stack)
  BY <1>2, Replaced DEF Step
<1>4. Top' = g /\ Top'.hub = p
  BY <1>3 DEF Top
<1>5. DOMAIN hubs' = DOMAIN hubs /\ hubs'[p] = h /\ \A q \in DOMAIN hubs : q # p => hubs'[q] = hubs[q]
  BY <1>1, ZenonT(30)
<1>6. Tree' = Tree /\ \A q : NodesAt(q)' = NodesAt(q)
  BY DEF Tree, NodesAt
<1>7. CallsNest'
  <2>1. ASSUME NEW k \in DOMAIN stack'
        PROVE  /\ FrameTyped(stack'[k])
               /\ Len(stack'[k].hub) = k - 1 /\ stack'[k].hub \in DOMAIN hubs' /\ IsPrefix(stack'[k].hub, Top'.hub)
    <3>1. k \in DOMAIN stack /\ stack'[k].hub = stack[k].hub /\ FrameTyped(stack'[k])
      <4>1. CASE k = Len(stack)
        BY <1>1, <1>3, <4>1, ZenonT(30)
      <4>2. CASE k # Len(stack)
        <5>0. Len(stack) \in Nat /\ k \in 1 .. Len(stack)
          BY <1>1, <1>3, <2>1, ZenonT(30)
        <5>1. k \in 1 .. Len(stack) - 1
          BY <4>2, <5>0
        <5>2. stack'[k] = stack[k] /\ k \in DOMAIN stack
          BY <1>1, <1>3, <5>1, ZenonT(30)
        <5> QED BY <5>2 DEF HubsRead, CallsNest
      <4> QED BY <4>1, <4>2
    <3>2. Len(stack[k].hub) = k - 1 /\ stack[k].hub \in DOMAIN hubs /\ IsPrefix(stack[k].hub, p)
      BY <3>1 DEF HubsRead, CallsNest
    <3> QED BY <1>4, <1>5, <3>1, <3>2
  <2>2. ~InHub("returned")'
    BY <1>4 DEF InHub
  <2> QED BY <1>3, <2>1, <2>2 DEF CallsNest
<1>8. HubsHang'
  <2>1. DOMAIN hubs' \subseteq Seq(Nat)
    BY <1>5 DEF HubsRead, HubsHang
  <2>2. hubs' \in [DOMAIN hubs' -> HubTyped]
    BY <1>1, <1>5, ZenonT(30) DEF HubsRead, HubsHang
  <2>3. ASSUME NEW q \in DOMAIN hubs'
        PROVE  /\ q # <<>> => Front(q) \in DOMAIN hubs'
               /\ hubs'[q].known => q \in DOMAIN Tree'
               /\ ~hubs'[q].known => stack' # <<>> /\ IsPrefix(q, Top'.hub)
    <3>1. /\ q # <<>> => Front(q) \in DOMAIN hubs
          /\ hubs[q].known => q \in DOMAIN Tree
          /\ ~hubs[q].known => IsPrefix(q, p)
      BY <1>5, <2>3 DEF HubsRead, HubsHang
    <3>2. IsPrefix(p, p)
      BY <1>1, PathsCompose, ZenonT(30)
    <3> QED BY <1>3, <1>4, <1>5, <1>6, <3>1, <3>2
  <2> QED BY <1>3, <2>1, <2>2, <2>3 DEF HubsHang
<1>9. LockHeld'
  <2>1. Device(Top.hub)' = Device(p) /\ Chain' = Chain /\ NoHolder' = NoHolder
    BY <1>4 DEF Device, Chain, NoHolder
  <2> QED BY <1>3, <1>4, <1>5, <2>1 DEF LockHeld, InHub
<1>10. FailuresKnown'
  <2>1. ASSUME NEW q \in DOMAIN hubs'
        PROVE  /\ hubs'[q].known /\ hubs'[q].nodes = "null" /\ NodesAt(q)' # <<>> =>
                     q \in failed' \/ (Top'.hub = q /\ (InHub("nodes")' \/ (InHub("back")' /\ Top'.error)))
               /\ ~hubs'[q].open =>
                     q \in failed' \/ ~world'.possible \/ (Top'.hub = q /\ InHub("open")')
    <3>1. CASE q = p
      BY <1>3, <1>4, <1>5, <1>6, <3>1 DEF InHub
    <3>2. CASE q # p
      <4>1. /\ hubs[q].known /\ hubs[q].nodes = "null" /\ NodesAt(q) # <<>> => q \in failed
            /\ ~hubs[q].open => q \in failed \/ ~world.possible
        BY <1>5, <2>1, <3>2 DEF HubsRead, FailuresKnown
      <4> QED BY <1>5, <1>6, <2>1, <3>2, <4>1
    <3> QED BY <3>1, <3>2
  <2> QED BY <2>1 DEF FailuresKnown
<1>11. CallTyped' /\ call'.at = call.at
  BY CallGoesOn DEF HubsRead
<1>12. /\ (stack' = <<>> <=> call'.at = "idle")
       /\ failed' \subseteq Seq(Nat) /\ leaked' \subseteq DOMAIN Tree' \cup {<<>>}
       /\ world' \in Worlds /\ (stack' # <<>> => result' = NoResult')
  <2>1. NoResult' = NoResult
    BY DEF NoResult, NoCall, NoNode
  <2> QED BY <1>3, <1>6, <1>11, <2>1 DEF HubsRead
<1> QED BY <1>7, <1>8, <1>9, <1>10, <1>11, <1>12 DEF HubsRead

\* The innermost call returns, and the lock is with no device.
LEMMA ReturnedKeeps ==
    ASSUME HubsRead, stack # <<>>, ~InHub("returned"), NEW error \in BOOLEAN, Returned(hubs, error),
           hubs[Top.hub].known /\ hubs[Top.hub].nodes = "null" /\ NodesAt(Top.hub) # <<>> =>
               Top.hub \in failed \/ error,
           ~hubs[Top.hub].open => Top.hub \in failed \/ ~world.possible \/ error,
           lock' \in {Chain, NoHolder},
           UNCHANGED call \/ Fault, UNCHANGED <<world, result, leaked>>
    PROVE  HubsRead'
<1> DEFINE p == Top.hub
           n == Len(stack)
<1>1. /\ n \in Nat \ {0} /\ DOMAIN stack = 1 .. n /\ Top = stack[n] /\ FrameTyped(Top)
      /\ p \in DOMAIN hubs /\ p \in Seq(Nat) /\ Len(p) = n - 1
      /\ \A k \in DOMAIN stack : stack[k].hub \in Seq(Nat)
  BY TopIs, ZenonT(30)
<1>2. IsList(stack)
  BY DEF HubsRead, CallsNest
<1>3. failed \subseteq failed' /\ failed' \subseteq Seq(Nat) /\ (error => p \in failed')
  BY <1>1, ZenonT(30) DEF Returned, HubsRead
<1>4. Tree' = Tree /\ \A q : NodesAt(q)' = NodesAt(q)
  BY DEF Tree, NodesAt
\* Whichever hubs are left, and whichever call goes on, at the hub of p or of the bridge to it.
<1>5. ASSUME NEW f, FrameTyped(f), f.at \in {"returned", "scan"}, f.at = "returned" => Len(stack') = 1,
             IsList(stack'), stack' # <<>>, Last(stack') = f, DOMAIN stack' = 1 .. Len(stack'),
             Len(stack') \in Nat, stack'[Len(stack')] = f,
             \A k \in DOMAIN stack' : k < Len(stack') => k \in DOMAIN stack /\ stack'[k] = stack[k],
             \A k \in DOMAIN stack' : /\ Len(stack'[k].hub) = k - 1
                                      /\ stack'[k].hub \in DOMAIN hubs' /\ IsPrefix(stack'[k].hub, f.hub),
             DOMAIN hubs' \subseteq DOMAIN hubs, hubs' = [q \in DOMAIN hubs' |-> hubs[q]],
             \A q \in DOMAIN hubs' : /\ q # <<>> => Front(q) \in DOMAIN hubs'
                                     /\ ~hubs[q].known => IsPrefix(q, f.hub)
      PROVE  HubsRead'
  <2>1. Top' = f
    BY <1>5 DEF Top
  <2>2. CallsNest'
    <3>1. ASSUME NEW k \in DOMAIN stack'
          PROVE  FrameTyped(stack'[k])
      <4>1. CASE k < Len(stack')
        BY <1>5, <3>1, <4>1 DEF HubsRead, CallsNest
      <4>2. CASE ~(k < Len(stack'))
        <5>1. k = Len(stack')
          BY <1>5, <3>1, <4>2
        <5> QED BY <1>5, <5>1
      <4> QED BY <4>1, <4>2
    <3> QED BY <1>5, <2>1, <3>1 DEF CallsNest, InHub
  <2>3. \A q \in DOMAIN hubs' : q \in DOMAIN hubs /\ hubs'[q] = hubs[q]
    BY <1>5
  <2>4. HubsHang'
    <3>1. DOMAIN hubs' \subseteq Seq(Nat) /\ \A q \in DOMAIN hubs' : hubs'[q] \in HubTyped
      BY <1>5, <2>3 DEF HubsRead, HubsHang
    <3>2. hubs' \in [DOMAIN hubs' -> HubTyped]
      BY <1>5, <3>1
    <3>3. ASSUME NEW q \in DOMAIN hubs'
          PROVE  /\ q # <<>> => Front(q) \in DOMAIN hubs'
                 /\ hubs'[q].known => q \in DOMAIN Tree'
                 /\ ~hubs'[q].known => stack' # <<>> /\ IsPrefix(q, Top'.hub)
      BY <1>4, <1>5, <2>1, <2>3, <3>3 DEF HubsRead, HubsHang
    <3> QED BY <1>5, <3>1, <3>2, <3>3 DEF HubsHang
  <2>5. LockHeld'
    <3>1. Chain' = Chain /\ NoHolder' = NoHolder
      BY DEF Chain, NoHolder
    <3> QED BY <1>5, <2>1, <3>1 DEF LockHeld, InHub
  <2>6. FailuresKnown'
    <3>1. ASSUME NEW q \in DOMAIN hubs'
          PROVE  /\ hubs'[q].known /\ hubs'[q].nodes = "null" /\ NodesAt(q)' # <<>> => q \in failed'
                 /\ ~hubs'[q].open => q \in failed' \/ ~world'.possible
      <4>1. CASE q = p
        BY <1>3, <1>4, <2>3, <3>1, <4>1
      <4>2. CASE q # p
        <5>1. /\ hubs[q].known /\ hubs[q].nodes = "null" /\ NodesAt(q) # <<>> => q \in failed
              /\ ~hubs[q].open => q \in failed \/ ~world.possible
          BY <2>3, <3>1, <4>2 DEF HubsRead, FailuresKnown
        <5> QED BY <1>3, <1>4, <2>3, <3>1, <5>1
      <4> QED BY <4>1, <4>2
    <3> QED BY <3>1 DEF FailuresKnown
  <2>7. CallTyped' /\ call'.at = call.at
    BY CallGoesOn DEF HubsRead
  <2>8. NoResult' = NoResult
    BY DEF NoResult, NoCall, NoNode
  <2>9. /\ (stack' = <<>> <=> call'.at = "idle")
        /\ failed' \subseteq Seq(Nat) /\ leaked' \subseteq DOMAIN Tree' \cup {<<>>}
        /\ world' \in Worlds /\ (stack' # <<>> => result' = NoResult')
    BY <1>3, <1>4, <1>5, <2>7, <2>8 DEF HubsRead
  <2> QED BY <2>2, <2>4, <2>5, <2>6, <2>7, <2>9 DEF HubsRead
<1>6. CASE n = 1
  <2> DEFINE f == [Top EXCEPT !.at = "returned", !.error = error]
  <2>1. FrameTyped(f) /\ f.at = "returned" /\ f.hub = p
    BY <1>1, FrameEnds, ZenonT(30)
  <2>2. stack' = <<f>> /\ hubs' = hubs
    BY <1>6 DEF Returned
  <2> HIDE DEF f
  <2>3. Len(stack') = 1 /\ stack' # <<>> /\ DOMAIN stack' = 1 .. 1 /\ stack'[1] = f /\ stack' \in Seq({f})
    BY <2>2
  <2>4. Last(stack') = f /\ IsList(stack')
    BY <2>3, ListIs DEF Last
  <2>5. IsPrefix(p, p) /\ Len(p) = 0
    BY <1>1, <1>6, PathsCompose
  <2>6. hubs = [q \in DOMAIN hubs |-> hubs[q]]
    BY DEF HubsRead, HubsHang
  <2>7. \A q \in DOMAIN hubs : /\ q # <<>> => Front(q) \in DOMAIN hubs
                               /\ ~hubs[q].known => IsPrefix(q, p)
    BY DEF HubsRead, HubsHang
  <2>8. ASSUME NEW k \in DOMAIN stack'
        PROVE  /\ k = 1 /\ stack'[k] = f
               /\ Len(stack'[k].hub) = k - 1 /\ stack'[k].hub \in DOMAIN hubs' /\ IsPrefix(stack'[k].hub, f.hub)
    <3>1. k = 1 /\ stack'[k] = f
      BY <2>3, <2>8
    <3>2. f.hub = p /\ Len(p) = 0 /\ p \in DOMAIN hubs /\ IsPrefix(p, p) /\ hubs' = hubs
      BY <1>1, <2>1, <2>2, <2>5, ZenonT(30)
    <3> QED BY <3>1, <3>2
  <2>9. \A k \in DOMAIN stack' : k < Len(stack') => k \in DOMAIN stack /\ stack'[k] = stack[k]
    BY <2>3, <2>8
  <2> QED BY <1>5, <2>1, <2>2, <2>3, <2>4, <2>6, <2>7, <2>8, <2>9
<1>7. CASE n # 1
  <2> DEFINE c == stack[n - 1]
             f == Continued(c, error)
  <2>1. n \in Nat /\ n > 1 /\ n - 1 \in DOMAIN stack /\ n - 2 \in Nat
    <3>1. n \in Nat /\ n # 0 /\ DOMAIN stack = 1 .. n
      BY <1>1, ZenonT(30)
    <3> HIDE DEF n
    <3>2. n > 1 /\ n - 2 \in Nat /\ n - 1 \in 1 .. n
      BY <1>7, <3>1
    <3> QED BY <3>1, <3>2
  <2>2. FrameTyped(c) /\ c.hub \in DOMAIN hubs /\ Len(c.hub) = n - 2 /\ IsPrefix(c.hub, p) /\ c.hub \in Seq(Nat)
    <3>1. Len(c.hub) = (n - 1) - 1 /\ FrameTyped(c) /\ c.hub \in DOMAIN hubs /\ IsPrefix(c.hub, p) /\ c.hub \in Seq(Nat)
      BY <1>1, <2>1, ZenonT(30) DEF HubsRead, CallsNest
    <3> QED BY <2>1, <3>1
  <2>3. FrameTyped(f) /\ f.at = "scan" /\ f.hub = c.hub
    BY <2>2, FrameContinues
  <2>4. stack' = Append(Front(Front(stack)), f)
    BY <1>7 DEF Returned
  <2> HIDE DEF f
  <2>5. /\ IsList(stack') /\ stack' # <<>> /\ Len(stack') = n - 1 /\ Last(stack') = f /\ stack'[n - 1] = f
        /\ \A k \in 1 .. n - 2 : stack'[k] = stack[k]
        /\ DOMAIN stack' = 1 .. n - 1
    BY <1>2, <2>1, <2>4, Popped
  <2>6. p # <<>>
    <3>1. Len(p) = n - 1
      BY <1>1, ZenonT(30)
    <3> HIDE DEF n, p
    <3>2. Len(p) # 0
      BY <2>1, <3>1
    <3> QED BY <3>2, EmptySeq
  <2>7. c.hub = Front(p)
    <3>1. \A q \in Seq(Nat) : IsPrefix(q, p) /\ Len(q) = Len(p) - 1 => q = Front(p)
      BY <1>1, <2>6, PathBack, ZenonT(30)
    <3>2. Len(c.hub) = Len(p) - 1
      <4>1. Len(c.hub) = n - 2 /\ Len(p) = n - 1
        BY <1>1, <2>2, ZenonT(30)
      <4> HIDE DEF n, c, p
      <4> QED BY <2>1, <4>1
    <3> QED BY <2>2, <3>1, <3>2
  <2>0. \A q \in Seq(Nat) : IsPrefix(q, p) /\ q # p => IsPrefix(q, Front(p))
    BY <1>1, <2>6, PathBack, ZenonT(30)
  <2> HIDE DEF c
  <2>8. ASSUME NEW k \in DOMAIN stack'
        PROVE  /\ stack'[k].hub = stack[k].hub /\ k \in DOMAIN stack /\ (k < Len(stack') => stack'[k] = stack[k])
               /\ Len(stack'[k].hub) = k - 1 /\ Len(stack'[k].hub) < Len(p)
               /\ stack'[k].hub \in DOMAIN hubs /\ stack'[k].hub \in Seq(Nat) /\ IsPrefix(stack'[k].hub, f.hub)
    <3>0. k \in 1 .. n - 1 /\ DOMAIN stack = 1 .. n
      BY <1>1, <2>5, <2>8, ZenonT(30)
    <3>1. k \in 1 .. n - 1 /\ k \in DOMAIN stack
      <4> HIDE DEF n
      <4> QED BY <2>1, <3>0
    <3>2. Len(stack[k].hub) = k - 1 /\ stack[k].hub \in DOMAIN hubs /\ stack[k].hub \in Seq(Nat) /\ IsPrefix(stack[k].hub, p)
      BY <1>1, <3>1, ZenonT(30) DEF HubsRead, CallsNest
    <3>3. stack'[k].hub = stack[k].hub /\ (k < n - 1 => stack'[k] = stack[k])
      <4>1. CASE k = n - 1
        BY <2>1, <2>3, <2>5, <4>1 DEF c
      <4>2. CASE k # n - 1
        <5>1. k \in 1 .. n - 2
          BY <2>1, <3>1, <4>2
        <5> QED BY <2>5, <5>1
      <4> QED BY <4>1, <4>2
    <3>4. k - 1 < n - 1 /\ k - 1 # n - 1
      BY <2>1, <3>1
    <3>5. stack[k].hub # p
      BY <1>1, <3>2, <3>4, ZenonT(30)
    <3>6. IsPrefix(stack[k].hub, Front(p))
      BY <2>0, <3>2, <3>5
    <3> QED BY <1>1, <2>3, <2>5, <2>7, <3>1, <3>2, <3>3, <3>4, <3>6, ZenonT(30)
  <2>9. \A k \in DOMAIN stack' : k < Len(stack') => k \in DOMAIN stack /\ stack'[k] = stack[k]
    BY <2>8
  <2>10. Len(stack') \in Nat /\ DOMAIN stack' = 1 .. Len(stack') /\ stack'[Len(stack')] = f
    BY <2>1, <2>5
  <2>11. ASSUME NEW q \in DOMAIN hubs, ~hubs[q].known, q # p
         PROVE  IsPrefix(q, f.hub)
    <3>1. IsPrefix(q, p) /\ q \in Seq(Nat)
      BY <2>11 DEF HubsRead, HubsHang
    <3> QED BY <2>0, <2>3, <2>7, <2>11, <3>1
  <2>12. CASE hubs[p].known
    <3>1. hubs' = hubs
      BY <1>7, <2>12 DEF Returned
    <3>2. hubs = [q \in DOMAIN hubs |-> hubs[q]]
      BY DEF HubsRead, HubsHang
    <3>3. \A q \in DOMAIN hubs : /\ q # <<>> => Front(q) \in DOMAIN hubs
                                 /\ ~hubs[q].known => IsPrefix(q, f.hub)
      BY <2>11, <2>12 DEF HubsRead, HubsHang
    <3>4. \A k \in DOMAIN stack' : /\ Len(stack'[k].hub) = k - 1
                                   /\ stack'[k].hub \in DOMAIN hubs' /\ IsPrefix(stack'[k].hub, f.hub)
      BY <2>8, <3>1
    <3> QED BY <1>5, <2>3, <2>5, <2>9, <2>10, <3>1, <3>2, <3>3, <3>4
  <2>13. CASE ~hubs[p].known
    <3> DEFINE D == DOMAIN hubs \ Destroyed(p)
    <3>1. hubs' = [q \in D |-> hubs[q]]
      BY <1>7, <2>13 DEF Returned, Restrict
    <3>2. \A q : q \in D <=> q \in DOMAIN hubs /\ ~IsPrefix(p, q)
      BY DEF Destroyed
    <3> HIDE DEF D
    <3>3. DOMAIN hubs' = D /\ hubs' = [q \in DOMAIN hubs' |-> hubs[q]] /\ D \subseteq DOMAIN hubs
      BY <3>1, <3>2
    <3>4. ASSUME NEW q \in D
          PROVE  /\ q # <<>> => Front(q) \in D
                 /\ ~hubs[q].known => IsPrefix(q, f.hub)
      <4>1. q \in DOMAIN hubs /\ ~IsPrefix(p, q) /\ q \in Seq(Nat) /\ (q # <<>> => Front(q) \in DOMAIN hubs)
        BY <3>2, <3>4 DEF HubsRead, HubsHang
      <4>2. q # p
        BY <1>1, <4>1, PathsCompose, ZenonT(30)
      <4>3. ASSUME q # <<>>, IsPrefix(p, Front(q)) PROVE FALSE
        <5>1. Front(q) \in Seq(Nat) /\ IsPrefix(Front(q), q)
          BY <4>1, <4>3, PathBack
        <5>2. IsPrefix(p, q)
          BY <1>1, <4>1, <4>3, <5>1, PathsCompose, ZenonT(30)
        <5> QED BY <4>1, <5>2
      <4> QED BY <2>11, <3>2, <4>1, <4>2, <4>3
    <3>5. ASSUME NEW k \in DOMAIN stack' PROVE stack'[k].hub \in D
      <4>1. stack'[k].hub \in DOMAIN hubs /\ stack'[k].hub \in Seq(Nat) /\ Len(stack'[k].hub) < Len(p)
        BY <2>8, <3>5
      <4> DEFINE h == stack'[k].hub
      <4> HIDE DEF h
      <4>2. h \in Seq(Nat) /\ Len(h) < Len(p)
        BY <4>1 DEF h
      <4>3. Len(h) \in Nat /\ Len(p) \in Nat
        BY <1>1, <4>2, LenProperties, ZenonT(30)
      <4>4. IsPrefix(p, h) => Len(p) <= Len(h)
        BY <1>1, <4>2, PathsCompose, ZenonT(30)
      <4>5. ~IsPrefix(p, h)
        BY <4>2, <4>3, <4>4
      <4> QED BY <3>2, <4>1, <4>5 DEF h
    <3>6. \A k \in DOMAIN stack' : /\ Len(stack'[k].hub) = k - 1
                                   /\ stack'[k].hub \in DOMAIN hubs' /\ IsPrefix(stack'[k].hub, f.hub)
      BY <2>8, <3>3, <3>5
    <3> QED BY <1>5, <2>3, <2>5, <2>9, <2>10, <3>3, <3>4, <3>6
  <2> QED BY <2>12, <2>13
<1> QED BY <1>6, <1>7

\* A field of a hub.
LEMMA HubField ==
    ASSUME NEW h, h \in HubTyped
    PROVE  /\ LET g == [h EXCEPT !.open = TRUE] IN
              g \in HubTyped /\ g.open /\ (g.known <=> h.known) /\ g.nodes = h.nodes
           /\ LET g == [h EXCEPT !.known = TRUE] IN
              g \in HubTyped /\ g.known /\ (g.open <=> h.open) /\ g.nodes = h.nodes
           /\ \A n \in {"read", "garbage"} :
                LET g == [h EXCEPT !.nodes = n] IN
                g \in HubTyped /\ g.nodes = n /\ (g.open <=> h.open) /\ (g.known <=> h.known)
BY DEF HubTyped

\* Before a device is given the lock, and where it must have it.
LEMMA LockIs ==
    ASSUME HubsRead, stack # <<>>
    PROVE  /\ Top.at \notin {"identify", "nodes", "scan", "back"} => lock \in {Chain, NoHolder}
           /\ lock \in {Chain, NoHolder} \/ (lock = Device(Top.hub) /\ hubs[Top.hub].open)
           /\ Top.at \in {"identify", "nodes"} => lock = Device(Top.hub) /\ hubs[Top.hub].open
<1>1. LockHeld
  BY DEF HubsRead
<1>2. Device(Top.hub) \notin {Chain, NoHolder}
  BY DEF Device, Chain, NoHolder
<1> QED BY <1>1, <1>2 DEF LockHeld, InHub

\* What is known of the hub of the innermost call.
LEMMA HubIs ==
    ASSUME HubsRead, stack # <<>>
    PROVE  /\ hubs[Top.hub].known => Top.hub \in DOMAIN Tree
           /\ Top.at = "pass" => hubs[Top.hub].open
           /\ ~hubs[Top.hub].open => Top.hub \in failed \/ ~world.possible \/ Top.at = "open"
           /\ hubs[Top.hub].known /\ hubs[Top.hub].nodes = "null" /\ NodesAt(Top.hub) # <<>> =>
                Top.hub \in failed \/ Top.at = "nodes" \/ (Top.at = "back" /\ Top.error)
<1>1. Top.hub \in DOMAIN hubs
  BY TopIs, ZenonT(30)
<1> QED BY <1>1 DEF HubsRead, HubsHang, LockHeld, FailuresKnown, InHub

\* Each step of read_hub_information keeps what the calls know.
LEMMA OpenDeviceKeeps == ASSUME HubsRead, OpenDevice PROVE HubsRead'
<1> DEFINE p == Top.hub
<1>1. stack # <<>> /\ Top.at = "open" /\ ~InHub("returned") /\ UNCHANGED <<world, result, leaked>>
  BY DEF OpenDevice, InHub
<1>2. lock' \in {Chain, NoHolder}
  <2>1. lock \in {Chain, NoHolder}
    BY <1>1, LockIs
  <2>2. lock' \in {lock, NoHolder}
    BY DEF OpenDevice, FaultOfAny
  <2> QED BY <2>1, <2>2
<1>3. CASE ~world.possible /\ Returned(hubs, FALSE) /\ UNCHANGED <<call, lock>>
  BY <1>1, <1>2, <1>3, HubIs, ReturnedKeeps
<1>4. CASE world.possible /\ lock = Chain /\ hubs' = [hubs EXCEPT ![p].open = TRUE]
           /\ Step([Top EXCEPT !.at = "pass"]) /\ UNCHANGED <<call, failed, lock>>
  <2> DEFINE g == [Top EXCEPT !.at = "pass"]
             h == [hubs[p] EXCEPT !.open = TRUE]
  <2>1. FrameTyped(g) /\ g.hub = p /\ g.at = "pass"
    BY <1>1, TopIs, FrameGoes, ZenonT(30)
  <2>2. h \in HubTyped /\ h.open /\ (h.known <=> hubs[p].known) /\ h.nodes = hubs[p].nodes
    BY <1>1, TopIs, HubField, ZenonT(30)
  <2>3. hubs' = [hubs EXCEPT ![p] = h] /\ Step(g)
    BY <1>4
  <2> HIDE DEF g, h
  <2>4. h.known => p \in DOMAIN Tree
    BY <1>1, <2>2, HubIs
  <2>5. h.known /\ h.nodes = "null" /\ NodesAt(p) # <<>> => p \in failed
    BY <1>1, <2>2, HubIs
  <2> QED BY <1>1, <1>2, <1>4, <2>1, <2>2, <2>3, <2>4, <2>5, StepKeeps, ZenonT(30)
<1>5. CASE Returned(hubs, TRUE) /\ (UNCHANGED call \/ Fault)
  BY <1>1, <1>2, <1>5, ReturnedKeeps
<1> QED BY <1>3, <1>4, <1>5 DEF OpenDevice, FaultOfAny

LEMMA PassToHubKeeps == ASSUME HubsRead, PassToHub PROVE HubsRead'
<1> DEFINE p == Top.hub
<1>1. stack # <<>> /\ Top.at = "pass" /\ ~InHub("returned") /\ UNCHANGED <<world, result, leaked>>
  BY DEF PassToHub, InHub
<1>2. CASE lock' = Device(p) /\ Step([Top EXCEPT !.at = "identify"]) /\ UNCHANGED <<hubs, call, failed>>
  <2> DEFINE g == [Top EXCEPT !.at = "identify"]
             h == hubs[p]
  <2>1. FrameTyped(g) /\ g.hub = p /\ g.at = "identify"
    BY <1>1, TopIs, FrameGoes, ZenonT(30)
  <2>2. h \in HubTyped /\ h.open
    BY <1>1, TopIs, HubIs, ZenonT(30)
  <2>3. hubs' = [hubs EXCEPT ![p] = h] /\ Step(g)
    BY <1>2 DEF HubsRead, HubsHang
  <2> HIDE DEF g
  <2>4. h.known => p \in DOMAIN Tree
    BY <1>1, HubIs
  <2>5. h.known /\ h.nodes = "null" /\ NodesAt(p) # <<>> => p \in failed
    BY <1>1, HubIs
  <2> HIDE DEF h
  <2> QED BY <1>1, <1>2, <2>1, <2>2, <2>3, <2>4, <2>5, StepKeeps, ZenonT(30)
<1>3. CASE lock' = NoHolder /\ Fault /\ Returned(hubs, TRUE)
  BY <1>1, <1>3, ReturnedKeeps
<1> QED BY <1>2, <1>3 DEF PassToHub

LEMMA IdentifyKeeps == ASSUME HubsRead, Identify PROVE HubsRead'
<1> DEFINE p == Top.hub
           found == [hubs EXCEPT ![p].known = TRUE]
           h == [hubs[p] EXCEPT !.known = TRUE]
<1>1. stack # <<>> /\ Top.at = "identify" /\ UNCHANGED <<world, result, failed, leaked>>
  BY DEF Identify, InHub
<1>2. /\ FrameTyped(Top) /\ hubs[p] \in HubTyped /\ p \in DOMAIN hubs
      /\ lock = Device(p) /\ hubs[p].open /\ (hubs[p].known => p \in DOMAIN Tree)
      /\ (hubs[p].known /\ hubs[p].nodes = "null" /\ NodesAt(p) # <<>> => p \in failed)
  BY <1>1, TopIs, LockIs, HubIs, ZenonT(30)
<1>3. h \in HubTyped /\ h.known /\ h.open /\ h.nodes = hubs[p].nodes /\ found = [hubs EXCEPT ![p] = h]
  BY <1>2, HubField
<1>4. hubs = [hubs EXCEPT ![p] = hubs[p]]
  BY DEF HubsRead, HubsHang
<1>5. (UNCHANGED call \/ Fault) /\ lock' \in {lock, NoHolder}
  BY DEF Identify, FaultOfAny
<1>6. CASE /\ hubs' = hubs
           /\ Step([Top EXCEPT !.at = "back", !.error = TRUE]) \/ Step([Top EXCEPT !.at = "back"])
  <2>1. PICK g : FrameTyped(g) /\ g.at = "back" /\ g.hub = p /\ Step(g)
    <3> DEFINE f == [Top EXCEPT !.at = "back", !.error = TRUE]
               b == [Top EXCEPT !.at = "back"]
    <3>1. FrameTyped(f) /\ f.at = "back" /\ f.hub = p
      BY <1>2, FrameFails, ZenonT(30)
    <3>2. FrameTyped(b) /\ b.at = "back" /\ b.hub = p
      BY <1>2, FrameGoes
    <3>3. Step(f) \/ Step(b)
      BY <1>6
    <3> HIDE DEF f, b
    <3> QED BY <3>1, <3>2, <3>3
  <2> QED BY <1>1, <1>2, <1>4, <1>5, <1>6, <2>1, StepKeeps
<1>7. CASE p \in DOMAIN Tree /\ hubs' = found /\ Step([Top EXCEPT !.at = "back", !.error = TRUE])
  <2> HIDE DEF h, found
  <2>1. PICK g : FrameTyped(g) /\ g.at = "back" /\ g.hub = p /\ g.error /\ Step(g)
    BY <1>2, <1>7, FrameFails, ZenonT(30)
  <2> QED BY <1>1, <1>2, <1>3, <1>5, <1>7, <2>1, StepKeeps
<1>8. CASE p \in DOMAIN Tree /\ hubs' = found /\ Step([Top EXCEPT !.at = AfterIdcode(p)]) /\ lock' = lock
  <2> HIDE DEF h, found
  <2>1. PICK g : FrameTyped(g) /\ g.at = AfterIdcode(p) /\ g.hub = p /\ Step(g)
    <3>1. AfterIdcode(p) \in {"scan", "nodes"}
      BY DEF AfterIdcode
    <3> DEFINE at == AfterIdcode(p)
               g == [Top EXCEPT !.at = at]
    <3>2. Step(g)
      BY <1>8
    <3>4. at \in {"pass", "identify", "nodes", "scan", "back"}
      BY <3>1
    <3> HIDE DEF at
    <3>3. FrameTyped(g) /\ g.at = at /\ g.hub = p
      BY <1>2, <3>4, FrameGoes
    <3> HIDE DEF g
    <3> QED BY <3>2, <3>3 DEF at
  <2>2. g.at \in {"scan", "nodes"} /\ (NodesAt(p) # <<>> => g.at = "nodes")
    BY <2>1 DEF AfterIdcode
  <2> QED BY <1>1, <1>2, <1>3, <1>5, <1>8, <2>1, <2>2, StepKeeps
<1> QED BY <1>6, <1>7, <1>8, ZenonT(30) DEF Identify

LEMMA ReadNodesKeeps == ASSUME HubsRead, ReadNodes PROVE HubsRead'
<1> DEFINE p == Top.hub
<1>1. stack # <<>> /\ Top.at = "nodes" /\ UNCHANGED <<world, result, failed, leaked>>
  BY DEF ReadNodes, InHub
<1>2. /\ FrameTyped(Top) /\ hubs[p] \in HubTyped /\ p \in DOMAIN hubs
      /\ lock = Device(p) /\ hubs[p].open /\ (hubs[p].known => p \in DOMAIN Tree)
  BY <1>1, TopIs, LockIs, HubIs, ZenonT(30)
<1>3. PICK n \in {"read", "garbage"} :
         \E g : /\ hubs' = [hubs EXCEPT ![p].nodes = n] /\ (UNCHANGED call \/ Fault)
               /\ FrameTyped(g) /\ g.at \in {"scan", "back"} /\ g.hub = p /\ Step(g)
  <2> DEFINE f == [Top EXCEPT !.at = "back", !.error = TRUE]
             b == [Top EXCEPT !.at = "scan"]
  <2>1. FrameTyped(f) /\ f.at = "back" /\ f.hub = p
    BY <1>2, FrameFails, ZenonT(30)
  <2>2. FrameTyped(b) /\ b.at = "scan" /\ b.hub = p
    BY <1>2, FrameGoes
  <2>3. \/ hubs' = [hubs EXCEPT ![p].nodes = "read"] /\ Step(b) /\ UNCHANGED call
        \/ hubs' = [hubs EXCEPT ![p].nodes = "garbage"] /\ Step(f) /\ Fault
    BY DEF ReadNodes, FaultOfAny
  <2> HIDE DEF f, b
  <2> QED BY <2>1, <2>2, <2>3
<1> DEFINE h == [hubs[p] EXCEPT !.nodes = n]
<1>4. h \in HubTyped /\ h.nodes = n /\ h.open /\ (h.known <=> hubs[p].known) /\ hubs' = [hubs EXCEPT ![p] = h]
  <2>1. hubs' = [hubs EXCEPT ![p].nodes = n]
    BY <1>3
  <2>2. h \in HubTyped /\ h.nodes = n /\ (h.open <=> hubs[p].open) /\ (h.known <=> hubs[p].known)
    BY <1>2, HubField
  <2> QED BY <1>2, <2>1, <2>2
<1> HIDE DEF h
<1>5. PICK g : /\ UNCHANGED call \/ Fault
               /\ FrameTyped(g) /\ g.at \in {"scan", "back"} /\ g.hub = p /\ Step(g)
  BY <1>3
<1>6. lock' \in {lock, NoHolder}
  BY DEF ReadNodes, FaultOfAny
<1> QED BY <1>1, <1>2, <1>3, <1>4, <1>5, <1>6, StepKeeps

LEMMA BackKeeps == ASSUME HubsRead, Back PROVE HubsRead'
<1>1. stack # <<>> /\ Top.at = "back" /\ ~InHub("returned") /\ UNCHANGED <<world, result, leaked>>
  BY DEF Back, InHub
<1>2. BackToChain(Top.hub) /\ Returned(hubs, Top.error)
  BY DEF Back
<1>3. lock' \in {Chain, NoHolder} /\ (UNCHANGED call \/ Fault)
  BY <1>1, <1>2, LockIs DEF BackToChain
<1>4. Top.error \in BOOLEAN
  BY <1>1, TopIs, ZenonT(30) DEF FrameTyped
<1> QED BY <1>1, <1>2, <1>3, <1>4, HubIs, ReturnedKeeps

\* Some bridge comes first.
LEMMA FirstIs ==
    ASSUME NEW S, S \subseteq Nat, S # {}
    PROVE  (CHOOSE j \in S : \A k \in S : j <= k) \in S
<1> DEFINE R == OpToRel(<, Nat)
<1>1. IsWellFoundedOn(R, Nat)
  BY NatLessThanWellFounded, ZenonT(30)
<1>2. PICK j \in S : \A k \in S : ~(<<k, j>> \in R)
  <2> HIDE DEF R
  <2> QED BY <1>1, WFMin, Zenon
<1>3. ASSUME NEW k \in S PROVE j <= k
  <2>1. ~(k < j)
    BY <1>2, <1>3 DEF OpToRel
  <2> QED BY <1>3, <2>1
<1> QED BY <1>3

\* The hub behind a bridge is read by a call of its own.
LEMMA ChildKeeps ==
    ASSUME HubsRead, stack # <<>>, Top.at = "scan", NEW i \in Nat,
           NEW g, FrameTyped(g), g.at = "child", g.hub = Top.hub,
           NEW c, FrameTyped(c), c.at = "open", c.hub = Append(Top.hub, i),
           hubs' = [q \in DOMAIN hubs \cup {c.hub} |-> IF q = c.hub THEN NewHub ELSE hubs[q]],
           stack' = Front(stack) \o <<g, c>>,
           lock' \in {Chain, NoHolder}, UNCHANGED call \/ Fault, UNCHANGED <<world, result, failed, leaked>>
    PROVE  HubsRead'
<1> DEFINE p == Top.hub
           r == c.hub
           n == Len(stack)
<1>1. /\ n \in Nat \ {0} /\ DOMAIN stack = 1 .. n /\ p \in DOMAIN hubs /\ p \in Seq(Nat) /\ Len(p) = n - 1
      /\ \A k \in DOMAIN stack : stack[k].hub \in Seq(Nat)
  BY TopIs, ZenonT(30)
<1>2. IsList(stack)
  BY DEF HubsRead, CallsNest
<1>3. /\ r \in Seq(Nat) /\ Len(r) = n /\ Front(r) = p /\ r # <<>> /\ IsPrefix(r, r) /\ IsPrefix(p, r)
      /\ \A q \in Seq(Nat) : IsPrefix(q, p) => IsPrefix(q, r)
  <2>1. /\ r \in Seq(Nat) /\ Len(r) = Len(p) + 1 /\ Front(r) = p /\ r # <<>> /\ IsPrefix(r, r)
        /\ \A q \in Seq(Nat) : IsPrefix(q, p) => IsPrefix(q, r)
    BY <1>1, PathGrows, ZenonT(30)
  <2>2. Len(r) = n
    <3>1. n \in Nat /\ Len(p) = n - 1 /\ Len(r) = Len(p) + 1
      BY <1>1, <2>1, ZenonT(30)
    <3> HIDE DEF n, p, r
    <3> QED BY <3>1
  <2>3. IsPrefix(p, p)
    BY <1>1, PathsCompose, ZenonT(30)
  <2> QED BY <1>1, <2>1, <2>2, <2>3, ZenonT(30)
<1>4. /\ IsList(stack') /\ stack' # <<>> /\ Len(stack') = n + 1 /\ Last(stack') = c /\ stack'[n + 1] = c /\ stack'[n] = g
      /\ \A k \in 1 .. n - 1 : stack'[k] = stack[k]
      /\ DOMAIN stack' = 1 .. n + 1
  BY <1>2, Called
<1>5. Top' = c
  BY <1>4 DEF Top
<1>6. DOMAIN hubs' = DOMAIN hubs \cup {r} /\ hubs'[r] = NewHub /\ \A q \in DOMAIN hubs : q # r => hubs'[q] = hubs[q]
  OBVIOUS
<1>7. Tree' = Tree /\ \A q : NodesAt(q)' = NodesAt(q)
  BY DEF Tree, NodesAt
<1>8. NewHub \in HubTyped /\ ~NewHub.known /\ ~NewHub.open
  BY DEF NewHub, HubTyped
<1>9. CallsNest'
  <2>1. ASSUME NEW k \in DOMAIN stack'
        PROVE  /\ FrameTyped(stack'[k])
               /\ Len(stack'[k].hub) = k - 1 /\ stack'[k].hub \in DOMAIN hubs' /\ IsPrefix(stack'[k].hub, r)
    <3>0. n \in Nat /\ k \in 1 .. n + 1
      BY <1>1, <1>4, <2>1, ZenonT(30)
    <3>1. k \in 1 .. n - 1 \/ k = n \/ k = n + 1
      <4> HIDE DEF n
      <4> QED BY <3>0
    <3>2. CASE k \in 1 .. n - 1
      <4>1. k \in DOMAIN stack /\ stack'[k] = stack[k]
        <5>1. k \in 1 .. n
          <6> HIDE DEF n
          <6> QED BY <3>0, <3>2
        <5> QED BY <1>1, <1>4, <3>2, <5>1, ZenonT(30)
      <4>2. /\ FrameTyped(stack[k]) /\ Len(stack[k].hub) = k - 1 /\ stack[k].hub \in DOMAIN hubs
            /\ IsPrefix(stack[k].hub, p) /\ stack[k].hub \in Seq(Nat)
        BY <1>1, <4>1, ZenonT(30) DEF HubsRead, CallsNest
      <4> QED BY <1>3, <1>6, <4>1, <4>2
    <3>3. CASE k = n
      BY <1>1, <1>3, <1>4, <1>6, <3>3, ZenonT(30)
    <3>4. CASE k = n + 1
      <4>1. k - 1 = n
        <5> HIDE DEF n
        <5> QED BY <3>0, <3>4
      <4> QED BY <1>3, <1>4, <1>6, <3>4, <4>1, ZenonT(30)
    <3> QED BY <3>1, <3>2, <3>3, <3>4, ZenonT(30)
  <2> QED BY <1>4, <1>5, <2>1 DEF CallsNest, InHub
<1>10. HubsHang'
  <2>1. DOMAIN hubs' \subseteq Seq(Nat)
    BY <1>3, <1>6 DEF HubsRead, HubsHang
  <2>2. hubs' \in [DOMAIN hubs' -> HubTyped]
    <3>1. \A q \in DOMAIN hubs' : hubs'[q] \in HubTyped
      BY <1>6, <1>8 DEF HubsRead, HubsHang
    <3> QED BY <1>6, <3>1
  <2>3. ASSUME NEW q \in DOMAIN hubs'
        PROVE  /\ q # <<>> => Front(q) \in DOMAIN hubs'
               /\ hubs'[q].known => q \in DOMAIN Tree'
               /\ ~hubs'[q].known => stack' # <<>> /\ IsPrefix(q, Top'.hub)
    <3>1. CASE q = r
      BY <1>1, <1>3, <1>4, <1>5, <1>6, <1>8, <3>1, ZenonT(30)
    <3>2. CASE q # r
      <4>1. q \in DOMAIN hubs /\ hubs'[q] = hubs[q] /\ q \in Seq(Nat)
        BY <1>6, <2>1, <2>3, <3>2
      <4>2. /\ q # <<>> => Front(q) \in DOMAIN hubs
            /\ hubs[q].known => q \in DOMAIN Tree
            /\ ~hubs[q].known => IsPrefix(q, p)
        BY <4>1 DEF HubsRead, HubsHang
      <4> QED BY <1>3, <1>4, <1>5, <1>6, <1>7, <4>1, <4>2
    <3> QED BY <3>1, <3>2
  <2> QED BY <1>4, <2>1, <2>2, <2>3 DEF HubsHang
<1>11. LockHeld'
  <2>1. Chain' = Chain /\ NoHolder' = NoHolder
    BY DEF Chain, NoHolder
  <2> QED BY <1>4, <1>5, <2>1 DEF LockHeld, InHub
<1>12. FailuresKnown'
  <2>1. ASSUME NEW q \in DOMAIN hubs'
        PROVE  /\ hubs'[q].known /\ hubs'[q].nodes = "null" /\ NodesAt(q)' # <<>> => q \in failed'
               /\ ~hubs'[q].open => q \in failed' \/ ~world'.possible \/ (Top'.hub = q /\ InHub("open")')
    <3>1. CASE q = r
      BY <1>4, <1>5, <1>6, <1>8, <3>1 DEF InHub
    <3>2. CASE q # r
      <4>1. q \in DOMAIN hubs /\ hubs'[q] = hubs[q]
        BY <1>6, <2>1, <3>2
      <4>2. /\ hubs[q].known /\ hubs[q].nodes = "null" /\ NodesAt(q) # <<>> => q \in failed
            /\ ~hubs[q].open => q \in failed \/ ~world.possible
        BY <4>1 DEF HubsRead, FailuresKnown, InHub
      <4> QED BY <1>7, <4>1, <4>2
    <3> QED BY <3>1, <3>2
  <2> QED BY <2>1 DEF FailuresKnown
<1>13. CallTyped' /\ call'.at = call.at
  BY CallGoesOn DEF HubsRead
<1>14. NoResult' = NoResult
  BY DEF NoResult, NoCall, NoNode
<1>15. /\ (stack' = <<>> <=> call'.at = "idle")
       /\ failed' \subseteq Seq(Nat) /\ leaked' \subseteq DOMAIN Tree' \cup {<<>>}
       /\ world' \in Worlds /\ (stack' # <<>> => result' = NoResult')
  BY <1>4, <1>7, <1>13, <1>14 DEF HubsRead
<1> QED BY <1>9, <1>10, <1>11, <1>12, <1>13, <1>15 DEF HubsRead

\* The next bridge, or none.
LEMMA NextHubKeeps ==
    ASSUME HubsRead, ScanNodes
    PROVE  HubsRead'
<1> DEFINE p == Top.hub
           bridges == {i \in Top.i .. Len(NodesAt(p)) - 1 : NodesAt(p)[i + 1] = Bridge}
           i == CHOOSE j \in bridges : \A k \in bridges : j <= k
           child == ChildFrame(Top, i)
<1>1. stack # <<>> /\ Top.at = "scan" /\ UNCHANGED <<world, result, failed, leaked>>
  BY ZenonT(30) DEF ScanNodes, InHub
<1>2. /\ FrameTyped(Top) /\ hubs[p] \in HubTyped /\ p \in DOMAIN hubs /\ p \in Seq(Nat)
      /\ lock \in {Chain, NoHolder} \/ (lock = Device(p) /\ hubs[p].open)
      /\ (hubs[p].known => p \in DOMAIN Tree) /\ (~hubs[p].open => p \in failed \/ ~world.possible)
      /\ (hubs[p].known /\ hubs[p].nodes = "null" /\ NodesAt(p) # <<>> => p \in failed)
  BY <1>1, TopIs, LockIs, HubIs, ZenonT(30)
<1>3. CASE Step([Top EXCEPT !.at = "back"]) /\ UNCHANGED <<lock, hubs, call>>
  <2> HIDE DEF bridges, i, child
  <2>1. PICK g : FrameTyped(g) /\ g.at = "back" /\ g.hub = p /\ Step(g)
    <3> DEFINE g == [Top EXCEPT !.at = "back"]
    <3>1. FrameTyped(g) /\ g.at = "back" /\ g.hub = p /\ Step(g)
      BY <1>2, <1>3, FrameGoes
    <3> HIDE DEF g
    <3> QED BY <3>1
  <2>2. hubs = [hubs EXCEPT ![p] = hubs[p]]
    BY DEF HubsRead, HubsHang
  <2> QED BY <1>1, <1>2, <1>3, <2>1, <2>2, StepKeeps
<1>4. CASE /\ bridges # {}
           /\ hubs' = [q \in DOMAIN hubs \cup {child.hub} |-> IF q = child.hub THEN NewHub ELSE hubs[q]]
           /\ BackToChain(p)
           /\ stack' = Front(stack) \o <<[Top EXCEPT !.at = "child", !.i = i], child>>
  <2>1. Len(NodesAt(p)) \in Nat
    <3>1. world \in Worlds
      BY DEF HubsRead
    <3>2. \A q \in DOMAIN Tree : Tree[q].nodes \in Seq(Idcodes)
      BY <3>1, HubsWorlds DEF WorldTyped, Tree
    <3>3. NodesAt(p) \in Seq(Idcodes)
      BY <3>2 DEF NodesAt
    <3> QED BY <3>3, LenProperties
  <2>2. Top.i \in Nat
    BY <1>2 DEF FrameTyped
  <2>3. i \in Nat
    <3>1. bridges \subseteq Nat
      BY <2>1, <2>2
    <3> HIDE DEF bridges
    <3> QED BY <1>4, <3>1, FirstIs, ZenonT(30)
  <2> DEFINE g == [Top EXCEPT !.at = "child", !.i = i]
  <2> HIDE DEF bridges, i
  <2>4. FrameTyped(g) /\ g.at = "child" /\ g.hub = p
    BY <1>2, <2>3, FrameCalls, ZenonT(30)
  <2>5. FrameTyped(child) /\ child.at = "open" /\ child.hub = Append(p, i)
    BY <1>2, <2>3, PathGrows DEF ChildFrame, Frame, FrameTyped
  <2> HIDE DEF g, child
  <2>6. lock' \in {Chain, NoHolder} /\ (UNCHANGED call \/ Fault)
    BY <1>2, <1>4 DEF BackToChain
  <2>7. /\ hubs' = [q \in DOMAIN hubs \cup {child.hub} |-> IF q = child.hub THEN NewHub ELSE hubs[q]]
        /\ stack' = Front(stack) \o <<g, child>>
    BY <1>4 DEF g
  <2> QED BY <1>1, <2>3, <2>4, <2>5, <2>6, <2>7, ChildKeeps
<1>5. \/ Step([Top EXCEPT !.at = "back"]) /\ UNCHANGED <<lock, hubs, call>>
      \/ /\ bridges # {}
         /\ hubs' = [q \in DOMAIN hubs \cup {child.hub} |-> IF q = child.hub THEN NewHub ELSE hubs[q]]
         /\ BackToChain(p)
         /\ stack' = Front(stack) \o <<[Top EXCEPT !.at = "child", !.i = i], child>>
  <2> HIDE DEF bridges
  <2> QED BY ZenonT(30) DEF ScanNodes, bridges
<1> QED BY <1>3, <1>4, <1>5, ZenonT(30)

\* What a call of the program gets.
ResultIs(r, error) == {"op", "error", "asked"} \subseteq DOMAIN r /\ r.error = error

\* That of an error, with what else is set in it.
LEMMA ErrorIs ==
    ASSUME NEW error
    PROVE  /\ ResultIs(Error(error), error)
           /\ \A list : ResultIs([Error(error) EXCEPT !.list = list], error)
           /\ \A list, count, written :
                ResultIs([Error(error) EXCEPT !.list = list, !.count = count, !.written = written], error)
           /\ \A opened : ResultIs([Error(error) EXCEPT !.opened = opened], error)
BY DEF ResultIs, Error, NoResult

\* A call of the program ends.
HubEnds ==
    \/ ListNodes \/ ListHierNodes \/ ReadFailed \/ OpenNodeOfTop \/ OpenNodeOfHub \/ OpenHubItself

Fine == {"ok", "no_match", "too_many_devices", "too_many_hierarchies"}

\* It puts all hubs back, or returns an error that is none of the program's doing; or it
\* uses a pointer that was never set.
LEMMA EndsHow ==
    ASSUME HubEnds
    PROVE  /\ InHub("returned")
           /\ \/ \E r, error : Return(r, TRUE) /\ ResultIs(r, error) /\ error \in Fine \cup {"error"}
              \/ \E r, error : Return(r, FALSE) /\ ResultIs(r, error) /\ error \in {"error", "internal_error"}
              \/ Crash /\ ~Top.error /\ Way \in DOMAIN hubs /\ (ReadsNull(Way) \/ (call.op = "open_hub" /\ ~hubs[Way].open))
<1> DEFINE Put == \E r, error : Return(r, TRUE) /\ ResultIs(r, error) /\ error \in Fine \cup {"error"}
           Left == \E r, error : Return(r, FALSE) /\ ResultIs(r, error) /\ error \in {"error", "internal_error"}
<1>1. ASSUME NEW r, NEW error \in Fine \cup {"error"}, Return(r, TRUE), ResultIs(r, error) PROVE Put
  BY <1>1
<1>2. ASSUME NEW error \in {"error", "internal_error"}, Return(Error(error), FALSE) PROVE Left
  BY <1>2, ErrorIs, ZenonT(30)
<1>3. ASSUME NEW error \in Fine \cup {"error"}, Return(Error(error), TRUE) PROVE Put
  BY <1>1, <1>3, ErrorIs, ZenonT(30)
<1>4. ASSUME NEW node, OpensNode(node) PROVE Put
  <2>1. CASE Return(Error("error"), TRUE)
    BY <1>3, <2>1, ZenonT(30)
  <2>2. CASE Return([Error("ok") EXCEPT !.opened = node], TRUE)
    BY <1>1, <2>2, ErrorIs, ZenonT(30) DEF Fine
  <2> QED BY <1>4, <2>1, <2>2 DEF OpensNode
<1>5. CASE ListNodes
  <2> DEFINE list == [k \in 1 .. NodeCount(<<>>) |-> Entry(<<>>, k - 1)]
  <2>1. InHub("returned") /\ Return(IF Top.error THEN Error("error")
              ELSE IF NodeCount(<<>>) > call.room THEN Error("too_many_devices")
              ELSE [Error("ok") EXCEPT !.list = list], TRUE)
    BY <1>5 DEF ListNodes, Read
  <2> HIDE DEF list
  <2> HIDE DEF Put, Left
  <2>2. ASSUME Return([Error("ok") EXCEPT !.list = list], TRUE) PROVE Put
    BY <1>1, <2>2, ErrorIs, ZenonT(30) DEF Fine
  <2>3. Return(Error("error"), TRUE) \/ Return(Error("too_many_devices"), TRUE) => Put
    BY <1>3, ZenonT(30) DEF Fine
  <2> QED BY <2>1, <2>2, <2>3 DEF Put
<1>6. CASE ListHierNodes
  <2> DEFINE list == HierIds[<<>>]
             written == Len(list) + IF WritesNext[<<>>] THEN 1 ELSE 0
             r(error) == [Error(error) EXCEPT !.list = list, !.count = HierIdCount, !.written = written]
  <2>1. InHub("returned") /\ Return(IF Top.error THEN Error("error")
              ELSE IF HierIdCount > call.room THEN Error("too_many_devices")
              ELSE r(IF TooDeep[<<>>] THEN "too_many_hierarchies" ELSE "ok"), TRUE)
    BY <1>6 DEF ListHierNodes, Read
  <2>2. \A error : ResultIs(r(error), error)
    <3> HIDE DEF list, written
    <3> QED BY ErrorIs, ZenonT(30)
  <2> HIDE DEF r, Put, Left
  <2>3. Return(r("too_many_hierarchies"), TRUE) \/ Return(r("ok"), TRUE) => Put
    BY <1>1, <2>2, ZenonT(30) DEF Fine
  <2>4. Return(Error("error"), TRUE) \/ Return(Error("too_many_devices"), TRUE) => Put
    BY <1>3, ZenonT(30) DEF Fine
  <2> QED BY <2>1, <2>3, <2>4 DEF Put
<1>7. CASE ReadFailed
  BY <1>2, <1>7 DEF ReadFailed
<1>8. ASSUME Lost PROVE Put \/ Left
  <2>1. Return(Error("internal_error"), FALSE) \/ Return(Error("no_match"), TRUE)
    BY <1>8 DEF Lost
  <2> HIDE DEF Put, Left
  <2> QED BY <1>2, <1>3, <2>1, ZenonT(30) DEF Fine
<1>9. CASE OpenNodeOfTop
  <2>1. InHub("returned") /\ ((\E node : OpensNode(node)) \/ Return(Error("no_match"), TRUE))
    BY <1>9 DEF OpenNodeOfTop, Read
  <2> HIDE DEF Put, Left
  <2> QED BY <1>3, <1>4, <2>1 DEF Fine, Put
<1>10. CASE OpenNodeOfHub
  <2>1. /\ InHub("returned") /\ ~Top.error
        /\ \/ Lost \/ (\E node : OpensNode(node)) \/ Return(Error("no_match"), TRUE)
           \/ Way \in DOMAIN hubs /\ ReadsNull(Way) /\ Crash
    BY <1>10 DEF OpenNodeOfHub, Read
  <2> HIDE DEF Put, Left
  <2> QED BY <1>3, <1>4, <1>8, <2>1 DEF Fine, Put, Left
<1>11. CASE OpenHubItself
  <2>1. /\ InHub("returned") /\ ~Top.error /\ call.op = "open_hub"
        /\ \/ Lost \/ (\E node : OpensNode(node))
           \/ Way \in DOMAIN hubs /\ ~hubs[Way].open /\ Crash
    BY <1>11 DEF OpenHubItself, Read
  <2> HIDE DEF Put, Left
  <2> QED BY <1>4, <1>8, <2>1 DEF Put, Left
<1> QED BY <1>5, <1>6, <1>7, <1>9, <1>10, <1>11 DEF HubEnds

\* When the call of the program is over, nothing is read and no device has the lock.
LEMMA EndsKeep == ASSUME HubsRead, HubEnds PROVE HubsRead'
<1>1. stack # <<>> /\ Top.at = "returned" /\ InHub("returned")
  BY EndsHow DEF InHub
<1>2. \A p \in DOMAIN hubs : p \in DOMAIN Tree \cup {<<>>}
  <2>1. Len(Top.hub) = 0 /\ Top.hub \in Seq(Nat)
    <3>1. Len(stack) = 1
      BY <1>1 DEF HubsRead, CallsNest
    <3>2. Len(Top.hub) = Len(stack) - 1 /\ Top.hub \in Seq(Nat)
      BY <1>1, TopIs, ZenonT(30)
    <3> QED BY <3>1, <3>2
  <2>2. ASSUME NEW p \in DOMAIN hubs, ~hubs[p].known PROVE p = <<>>
    <3>1. p \in Seq(Nat) /\ IsPrefix(p, Top.hub)
      BY <2>2 DEF HubsRead, HubsHang
    <3>2. Len(p) <= 0
      BY <2>1, <3>1, PathsCompose
    <3>3. Len(p) = 0
      BY <3>1, <3>2, LenProperties
    <3> QED BY <3>1, <3>3, EmptySeq
  <2> QED BY <2>2 DEF HubsRead, HubsHang
<1>3. leaked \subseteq DOMAIN Tree \cup {<<>>} /\ failed \subseteq Seq(Nat) /\ world \in Worlds
  BY DEF HubsRead
<1>4. /\ stack' = <<>> /\ hubs' = [p \in {} |-> NewHub] /\ call' = NoCall /\ lock' \in {Chain, NoHolder}
      /\ UNCHANGED <<world, failed>> /\ leaked' \subseteq DOMAIN Tree \cup {<<>>}
  <2>1. lock \in {Chain, NoHolder}
    BY <1>1, LockIs
  <2>2. CASE \E r, put : Return(r, put)
    BY <1>2, <1>3, <2>1, <2>2 DEF Return, StillOpen
  <2>3. CASE Crash
    BY <2>3 DEF Crash
  <2> QED BY <2>2, <2>3, EndsHow
<1>5. Tree' = Tree /\ Chain' = Chain /\ NoHolder' = NoHolder /\ DOMAIN hubs' = {}
  BY <1>4 DEF Tree, Chain, NoHolder
<1>6. CallsNest'
  <2>1. <<>> \in Seq({}) /\ DOMAIN <<>> = {}
    OBVIOUS
  <2>2. IsList(<<>>)
    BY <2>1, ListIs
  <2> QED BY <1>4, <2>1, <2>2 DEF CallsNest, InHub
<1>7. HubsHang' /\ LockHeld' /\ FailuresKnown'
  BY <1>4, <1>5 DEF HubsHang, LockHeld, FailuresKnown, InHub
<1>8. CallTyped' /\ call'.at = "idle"
  BY <1>4 DEF CallTyped, NoCall
<1> QED BY <1>3, <1>4, <1>5, <1>6, <1>7, <1>8 DEF HubsRead

HubBegins == GetNodes \/ GetHierNodes \/ OpenIndex \/ OpenHierNode \/ OpenHub

\* All begin alike.
LEMMA BeginsHow == ASSUME HubBegins PROVE \E op, id, room : Call(op, id, room)
BY DEF HubBegins, GetNodes, GetHierNodes, OpenIndex, OpenHierNode, OpenHub

\* A call of the program begins with the hub of the device itself.
LEMMA BeginsKeep == ASSUME HubsRead, HubBegins PROVE HubsRead'
<1>1. PICK op, id, room : Call(op, id, room)
  BY BeginsHow
<1> DEFINE f == Frame(<<>>, 0, 0)
<1>2. FrameTyped(f) /\ f.hub = <<>> /\ f.at = "open"
  <2>1. <<>> \in Seq(Nat) /\ 0 \in Nat
    OBVIOUS
  <2> QED BY <2>1 DEF FrameTyped, Frame
<1> HIDE DEF f
<1>3. /\ stack' = <<f>> /\ hubs' = [p \in {<<>>} |-> NewHub] /\ lock' = Chain /\ call'.at = "read"
      /\ call' = [op |-> op, at |-> "read", id |-> id, room |-> room, faults |-> 0]
      /\ failed' = {} /\ result' = NoResult /\ UNCHANGED <<world, leaked>>
  BY <1>1 DEF Call, f
<1>4. Len(stack') = 1 /\ stack' # <<>> /\ DOMAIN stack' = 1 .. 1 /\ stack'[1] = f /\ stack' \in Seq({f})
  BY <1>3
<1>5. Last(stack') = f /\ IsList(stack') /\ Top' = f
  BY <1>4, ListIs DEF Last, Top
<1>6. Tree' = Tree /\ Chain' = Chain /\ NoHolder' = NoHolder /\ NoResult' = NoResult
  BY <1>3 DEF Tree, Chain, NoHolder, NoResult, NoCall, NoNode
<1>7. NewHub \in HubTyped /\ ~NewHub.known /\ ~NewHub.open
  BY DEF NewHub, HubTyped
<1>8. <<>> \in Seq(Nat) /\ Len(<<>>) = 0 /\ IsPrefix(<<>>, <<>>)
  BY PathsCompose, EmptySeq
<1>9. DOMAIN hubs' = {<<>>} /\ hubs'[<<>>] = NewHub
  BY <1>3
<1>10. CallsNest'
  <2>1. ASSUME NEW k \in DOMAIN stack'
        PROVE  /\ FrameTyped(stack'[k])
               /\ Len(stack'[k].hub) = k - 1 /\ stack'[k].hub \in DOMAIN hubs' /\ IsPrefix(stack'[k].hub, Top'.hub)
    <3>1. k = 1
      BY <1>4, <2>1
    <3> QED BY <1>2, <1>4, <1>5, <1>8, <1>9, <3>1
  <2> QED BY <1>2, <1>4, <1>5, <2>1 DEF CallsNest, InHub
<1>11. HubsHang'
  <2>1. hubs' \in [DOMAIN hubs' -> HubTyped]
    BY <1>3, <1>7
  <2>2. DOMAIN hubs' \subseteq Seq(Nat)
    BY <1>8, <1>9
  <2>3. \A p \in DOMAIN hubs' : p = <<>> /\ ~hubs'[p].known /\ IsPrefix(p, Top'.hub)
    BY <1>2, <1>5, <1>7, <1>8, <1>9
  <2> QED BY <1>4, <2>1, <2>2, <2>3 DEF HubsHang
<1>12. LockHeld'
  BY <1>2, <1>3, <1>5, <1>6 DEF LockHeld, InHub
<1>13. FailuresKnown'
  <2>1. \A p \in DOMAIN hubs' : p = <<>> /\ ~hubs'[p].known /\ Top'.hub = p /\ InHub("open")'
    BY <1>2, <1>4, <1>5, <1>7, <1>9 DEF InHub
  <2> QED BY <2>1 DEF FailuresKnown
<1>14. CallTyped'
  BY <1>3 DEF CallTyped
<1>15. (stack' = <<>> <=> call'.at = "idle") /\ failed' \subseteq Seq(Nat)
       /\ leaked' \subseteq DOMAIN Tree' \cup {<<>>} /\ world' \in Worlds /\ result' = NoResult'
  BY <1>3, <1>4, <1>6 DEF HubsRead
<1> QED BY <1>10, <1>11, <1>12, <1>13, <1>14, <1>15 DEF HubsRead

-----------------------------------------------------------------------------
(* The invariant of the calls.                                              *)

\* Nothing has been called.
LEMMA HubsReadInit == HubsInit => HubsRead
<1> SUFFICES ASSUME HubsInit PROVE HubsRead
  OBVIOUS
<1>1. stack = <<>> /\ DOMAIN hubs = {} /\ hubs = [p \in {} |-> NewHub] /\ DOMAIN stack = {}
  BY DEF HubsInit
<1>2. IsList(stack)
  <2>1. <<>> \in Seq({})
    OBVIOUS
  <2> QED BY <1>1, <2>1, ListIs
<1>3. CallsNest
  BY <1>1, <1>2 DEF CallsNest, InHub
<1>4. HubsHang /\ LockHeld /\ FailuresKnown
  BY <1>1 DEF HubsHang, LockHeld, FailuresKnown, InHub, HubsInit
<1>5. CallTyped /\ call.at = "idle"
  BY DEF HubsInit, CallTyped, NoCall
<1> QED BY <1>1, <1>3, <1>4, <1>5 DEF HubsRead, HubsInit

\* Every step keeps it.
LEMMA HubsReadNext ==
    ASSUME HubsRead, [HubsNext]_hubsVars
    PROVE  HubsRead'
<1>1. CASE HubBegins
  BY <1>1, BeginsKeep
<1>2. CASE OpenDevice
  BY <1>2, OpenDeviceKeeps
<1>3. CASE PassToHub
  BY <1>3, PassToHubKeeps
<1>4. CASE Identify
  BY <1>4, IdentifyKeeps
<1>5. CASE ReadNodes
  BY <1>5, ReadNodesKeeps
<1>6. CASE ScanNodes
  BY <1>6, NextHubKeeps
<1>7. CASE Back
  BY <1>7, BackKeeps
<1>8. CASE HubEnds
  BY <1>8, EndsKeep
<1>9. CASE Relock
  <2>1. /\ stack = <<>> /\ lock' = Chain /\ UNCHANGED <<world, hubs, stack, call, result, failed, leaked>>
    BY <1>9 DEF Relock, HubsRead
  <2>2. CallsNest'
    BY <2>1 DEF HubsRead, CallsNest, InHub, Top
  <2>3. HubsHang' /\ FailuresKnown'
    BY <2>1 DEF HubsRead, HubsHang, FailuresKnown, InHub, Top, Tree, NodesAt
  <2>4. LockHeld'
    BY <2>1 DEF LockHeld, InHub, Chain
  <2> QED BY <2>1, <2>2, <2>3, <2>4 DEF HubsRead, CallTyped, Tree, NoResult, NoCall, NoNode
<1>10. CASE UNCHANGED hubsVars
  <2>1. UNCHANGED <<world, lock, hubs, stack, call, result, failed, leaked>>
    BY <1>10 DEF hubsVars
  <2>2. CallsNest' /\ LockHeld'
    BY <2>1 DEF HubsRead, CallsNest, LockHeld, InHub, Top, Chain, NoHolder, Device
  <2>3. HubsHang' /\ FailuresKnown'
    BY <2>1 DEF HubsRead, HubsHang, FailuresKnown, InHub, Top, Tree, NodesAt
  <2> QED BY <2>1, <2>2, <2>3 DEF HubsRead, CallTyped, Tree, NoResult, NoCall, NoNode
<1> QED BY <1>1, <1>2, <1>3, <1>4, <1>5, <1>6, <1>7, <1>8, <1>9, <1>10 DEF HubsNext, HubBegins, HubEnds

\* The lock is where the code that runs needs it.
LEMMA LockFound == HubsRead => LockFollows
<1> SUFFICES ASSUME HubsRead PROVE LockFollows
  OBVIOUS
<1>1. LockHeld
  BY DEF HubsRead
<1>2. ASSUME lock \notin {Chain, NoHolder}
      PROVE  stack # <<>> /\ lock = Device(Top.hub) /\ Top.hub \in DOMAIN hubs
  <2>1. stack # <<>> /\ lock = Device(Top.hub)
    BY <1>1, <1>2 DEF LockHeld, InHub
  <2> QED BY <2>1, TopIs, ZenonT(30)
<1>3. HubsTypeOK
  <2>1. lock \in {Chain, NoHolder} \cup {Device(p) : p \in DOMAIN hubs}
    BY <1>2
  <2>2. \A p \in DOMAIN hubs : p # <<>> => Front(p) \in DOMAIN hubs
    BY DEF HubsRead, HubsHang
  <2>3. \A k \in DOMAIN stack :
          /\ Len(stack[k].hub) = k - 1 /\ stack[k].hub \in DOMAIN hubs
          /\ IsPrefix(stack[k].hub, Top.hub)
    BY DEF HubsRead, CallsNest
  <2> QED BY <2>1, <2>2, <2>3, Zenon DEF HubsTypeOK, HubsRead
<1>4. lock.of = "device" => lock \notin {Chain, NoHolder}
  BY DEF Chain, NoHolder
<1>5. Device(Top.hub).hub = Top.hub /\ Device(Top.hub) \notin {Chain, NoHolder}
  BY DEF Device, Chain, NoHolder
<1>6. lock.of = "device" =>
         /\ \E at \in {"identify", "nodes", "scan", "back"} : InHub(at)
         /\ lock.hub = Top.hub /\ hubs[lock.hub].open
  BY <1>1, <1>4, <1>5 DEF LockHeld
<1> QED BY <1>1, <1>3, <1>6 DEF LockHeld, LockFollows

\* A pointer that is used and was not set is that of a hub that has failed.
LEMMA NoCrashNext ==
    ASSUME HubsRead, NoCrash, [HubsNext]_hubsVars
    PROVE  NoCrash'
<1>1. CASE HubEnds
  <2>1. stack # <<>> /\ Top.at = "returned"
    BY <1>1, EndsHow DEF InHub
  <2>2. ASSUME NEW r, NEW put, NEW error, Return(r, put), ResultIs(r, error), error # "crash"
        PROVE  NoCrash'
    <3>1. result' = [r EXCEPT !.op = call.op, !.asked = call.id]
      BY <2>2 DEF Return
    <3>2. result'.error = error
      BY <2>2, <3>1 DEF ResultIs
    <3> QED BY <2>2, <3>2 DEF NoCrash
  <2>3. ASSUME Crash, Way \in DOMAIN hubs, ReadsNull(Way) \/ (call.op = "open_hub" /\ ~hubs[Way].open)
        PROVE  NoCrash'
    <3>1. result' = [Error("crash") EXCEPT !.op = call.op, !.asked = call.id] /\ UNCHANGED <<world, failed>>
      BY <2>3 DEF Crash
    <3>2. result'.op = call.op
      BY <3>1 DEF Error, NoResult
    <3>3. ReadsNull(Way) => hubs[Way].known /\ hubs[Way].nodes = "null" /\ NodesAt(Way) # <<>>
      <4>1. Len(<<>>) = 0
        OBVIOUS
      <4> QED BY <4>1 DEF ReadsNull, Count
    <3>4. /\ hubs[Way].known /\ hubs[Way].nodes = "null" /\ NodesAt(Way) # <<>> => Way \in failed
          /\ ~hubs[Way].open => Way \in failed \/ ~world.possible
      BY <2>1, <2>3 DEF HubsRead, FailuresKnown, InHub
    <3> QED BY <2>3, <3>1, <3>2, <3>3, <3>4 DEF NoCrash
  <2> QED BY <1>1, <2>2, <2>3, EndsHow DEF Fine
<1>2. CASE HubBegins
  <2>1. result' = NoResult
    BY <1>2, BeginsHow DEF Call
  <2> QED BY <2>1 DEF NoCrash, NoResult
<1>3. CASE OpenDevice \/ PassToHub \/ Identify \/ ReadNodes \/ ScanNodes \/ Back
  <2>1. stack # <<>> /\ result' = result
    BY <1>3, ZenonT(30) DEF OpenDevice, PassToHub, Identify, ReadNodes, ScanNodes, Back, InHub
  <2>2. result' = NoResult
    BY <2>1 DEF HubsRead
  <2> QED BY <2>2 DEF NoCrash, NoResult
<1>4. CASE Relock \/ UNCHANGED hubsVars
  BY <1>4 DEF Relock, hubsVars, NoCrash
<1> QED BY <1>1, <1>2, <1>3, <1>4 DEF HubsNext, HubBegins, HubEnds

\* put_hub releases the hubs that are left, whichever they are.
LEMMA PutReleases ==
    ASSUME HubsRead, [HubsNext]_hubsVars,
           result'.error \in {"ok", "no_match", "too_many_devices", "too_many_hierarchies"}
    PROVE  leaked' \subseteq leaked
<1>1. CASE HubEnds
  <2>1. ASSUME NEW r, Return(r, TRUE) PROVE leaked' \subseteq leaked
    <3>1. \A p \in DOMAIN hubs : IsPrefix(<<>>, p)
      BY PathsCompose DEF HubsRead, HubsHang
    <3>2. StillOpen(Destroyed(<<>>)) = {}
      BY <3>1 DEF StillOpen, Destroyed
    <3> QED BY <2>1, <3>2 DEF Return
  <2>2. ASSUME NEW r, NEW error \in {"error", "internal_error"}, Return(r, FALSE), ResultIs(r, error) PROVE FALSE
    <3>1. result' = [r EXCEPT !.op = call.op, !.asked = call.id]
      BY <2>2 DEF Return
    <3>2. result'.error = error
      BY <2>2, <3>1 DEF ResultIs
    <3> QED BY <2>2, <3>2
  <2>3. Crash => leaked' \subseteq leaked
    BY DEF Crash
  <2> QED BY <1>1, <2>1, <2>2, <2>3, EndsHow
<1>2. CASE HubBegins
  BY <1>2, BeginsHow DEF Call
<1>3. CASE OpenDevice \/ PassToHub \/ Identify \/ ReadNodes \/ ScanNodes \/ Back
  BY <1>3, ZenonT(30) DEF OpenDevice, PassToHub, Identify, ReadNodes, ScanNodes, Back
<1>4. CASE Relock \/ UNCHANGED hubsVars
  BY <1>4 DEF Relock, hubsVars
<1> QED BY <1>1, <1>2, <1>3, <1>4 DEF HubsNext, HubBegins, HubEnds

\* "Pass lock from device to chain atomically": while the hubs of a device are read, whatever
\* fails, the chain is locked or the device of the one hub that is being read, or, when a
\* hand-over has failed, nothing is (read_hub_information).
THEOREM HubLock == HubsSpec => []LockFollows
<1> QED BY HubsReadInit, HubsReadNext, LockFound, PTL DEF HubsSpec

\* No pointer that was not set is used, unless a hub could not be read and the error was
\* replaced by that of another hub (read_hub_information, open_node), or to open the hub of
\* a device that cannot have one (open_hub).
THEOREM HubPointers == HubsSpec => []NoCrash
<1>1. HubsInit => NoCrash
  BY DEF HubsInit, NoResult, NoCrash
<1> QED BY <1>1, HubsReadInit, HubsReadNext, NoCrashNext, PTL DEF HubsSpec

\* "This will also release its child hubs": a call that succeeds, or finds no node, or too
\* many of them, leaves no device open (put_hub, ~AJI_HUB).
THEOREM HubsReleased == HubsSpec => ReleasedOnSuccess
<1> QED BY HubsReadInit, HubsReadNext, PutReleases, PTL DEF HubsSpec, ReleasedOnSuccess

=============================================================================
