------------------------ MODULE EndpointAllocator_proof ------------------------
(***************************************************************************)
(* Whatever functions ask for, and whatever the target: what the compiler  *)
(* allocates the hardware can do, and the tables it generates lead every   *)
(* endpoint address to the function that owns it and back, and every       *)
(* interface if no function has more than sixteen.                         *)
(***************************************************************************)
EXTENDS EndpointAllocator, SequenceTheorems, WellFoundedInduction, TLAPS

SlotStatus == {"free", "control", "data", "invalid"}

\* The endpoints of the hardware: number 0 is reserved, the others free, in use
\* or lost to the other direction of their number.
SlotsInv ==
    \A d \in InOut :
        /\ DOMAIN slots[d] = 0..(target[d] - 1)
        /\ \A i \in DOMAIN slots[d] :
               /\ slots[d][i].status \in SlotStatus
               /\ slots[d][i].status = "control" <=> i = 0
               /\ slots[d][i].status = "data" =>
                      slots[d][i].fn \in Functions /\ slots[d][i].buffers \in Nat \ {0}

\* A double-buffered endpoint has made the other direction unusable.
DoubleInv ==
    Has("doubleUnidirectional") =>
        \A d \in InOut : \A i \in DOMAIN slots[d] :
            slots[d][i].status = "data" /\ slots[d][i].buffers # 1
                /\ i \in DOMAIN slots[Reverse(d)]
                => slots[Reverse(d)][i].status = "invalid"

SameTypeInv ==
    Has("sameType") =>
        \A i \in DOMAIN slots["in"] \cap DOMAIN slots["out"] :
            slots["in"][i].status = "data" /\ slots["out"][i].status = "data"
                => slots["in"][i].type = slots["out"][i].type

\* The functions' endpoints and the hardware's are the same, seen from two sides.
Place(d, i) == [dir |-> d, number |-> i]
PlacesInv ==
    /\ DOMAIN functions = Functions
    /\ \A f \in Functions : \A l \in DOMAIN functions[f] :
           /\ l \in Nat
           /\ \E d \in InOut : \E i \in DOMAIN slots[d] :
                  /\ functions[f][l] = Place(d, i) /\ slots[d][i].status = "data"
                  /\ slots[d][i].fn = f /\ slots[d][i].logical = l
    /\ \A f \in Functions : \E b \in Nat : \A l \in DOMAIN functions[f] : l <= b
    /\ \A d \in InOut : \A i \in DOMAIN slots[d] :
           slots[d][i].status = "data" =>
               /\ slots[d][i].logical \in DOMAIN functions[slots[d][i].fn]
               /\ functions[slots[d][i].fn][slots[d][i].logical] = Place(d, i)

\* The interfaces of a function follow each other from its base on.
InterfacesInv ==
    /\ bases \in Seq(Nat) /\ physical \in Seq([fn : Functions, logical : Nat])
    /\ stage = "endpoints" => Len(bases) = 0
    /\ stage = "interfaces" => Len(bases) = current
    /\ stage \in {"print", "built"} => Len(bases) = MaxFunctions
    /\ Len(bases) = 0 => Len(physical) = 0
    /\ Len(bases) > 0 => bases[1] = 0
    /\ \A n \in 1..Len(physical) :
           /\ physical[n].fn + 1 <= Len(bases)
           /\ bases[physical[n].fn + 1] + physical[n].logical = n - 1

AllocInv ==
    /\ target \in Targets /\ current \in Functions
    /\ stage \in {"endpoints", "interfaces", "print", "built", "failed"}
    /\ SlotsInv /\ DoubleInv /\ SameTypeInv
    /\ PlacesInv
    /\ InterfacesInv
    /\ stage = "built" => Printable /\ FitByte /\ ConfigChecks

-----------------------------------------------------------------------------
(* Least and greatest elements.                                            *)

LEMMA Least ==
    ASSUME NEW T \in SUBSET Nat, T # {}
    PROVE  Min(T) \in T /\ \A m \in T : Min(T) <= m
<1>1. PICK n \in T : \A m \in T : ~(<<m, n>> \in OpToRel(<, Nat))
  BY WFMin, NatLessThanWellFounded
<1>2. ASSUME NEW m \in T PROVE n <= m
  <2>1. m < n => <<m, n>> \in OpToRel(<, Nat)
    BY DEF OpToRel
  <2>2. m \in Nat /\ n \in Nat /\ ~(m < n)
    BY <1>1, <2>1
  <2> QED
    BY <2>2
<1> QED
  BY <1>2 DEF Min

\* A set of numbers with a bound has a greatest element.
LEMMA Greatest ==
    ASSUME NEW T \in SUBSET Nat, T # {}, NEW b \in Nat, \A m \in T : m <= b
    PROVE  Max(T) \in T /\ \A m \in T : m <= Max(T)
<1> DEFINE U == {n \in Nat : \A m \in T : m <= n}
<1>1. U \in SUBSET Nat /\ b \in U
  OBVIOUS
<1>2. Min(U) \in U /\ \A n \in U : Min(U) <= n
  BY <1>1, Least
<1> DEFINE g == Min(U)
<1>3. g \in Nat /\ (\A m \in T : m <= g) /\ \A n \in U : g <= n
  BY <1>2
<1> HIDE DEF g
<1>4. g \in T
  <2> SUFFICES ASSUME g \notin T PROVE FALSE
    OBVIOUS
  <2>1. PICK x \in T : TRUE
    OBVIOUS
  <2>2. x \in Nat /\ x <= g /\ x # g
    BY <1>3
  <2>3. g - 1 \in Nat
    BY <1>3, <2>2
  <2>4. ASSUME NEW m \in T PROVE m <= g - 1
    <3>1. m \in Nat /\ m <= g /\ m # g
      BY <1>3
    <3> QED
      BY <1>3, <3>1
  <2>5. g <= g - 1
    BY <1>3, <2>3, <2>4
  <2> QED
    BY <1>3, <2>5
<1>5. \A m \in T : g >= m
  BY <1>3
<1>6. ASSUME NEW x \in T, \A m \in T : x >= m PROVE x = g
  <2>1. x \in Nat /\ x >= g /\ x <= g
    BY <1>3, <1>4, <1>6
  <2> QED
    BY <1>3, <2>1
<1>7. Max(T) = g
  BY <1>4, <1>5, <1>6 DEF Max
<1> QED
  BY <1>3, <1>4, <1>7

-----------------------------------------------------------------------------
(* addEndpoint().                                                          *)

LEMMA ReverseIs ==
    ASSUME NEW d \in InOut
    PROVE  Reverse(d) \in InOut /\ Reverse(d) # d /\ Reverse(Reverse(d)) = d
BY DEF InOut, Reverse

LEMMA TwoDirections ==
    ASSUME NEW d \in InOut, NEW e \in InOut, e # d
    PROVE  e = Reverse(d)
BY DEF InOut, Reverse

\* Which slots an allocation changes.
LEMMA AllocatedSlots ==
    ASSUME AllocInv, NEW def \in Definitions, NEW i \in Candidates(def),
           slots' = Allocated(def, i)
    PROVE  LET new == Slot("data", def.type, current, def.logical, def.buffers)
               rev == Reverse(def.dir)
           IN  /\ \A d \in InOut : DOMAIN slots'[d] = DOMAIN slots[d]
               /\ i \in DOMAIN slots[def.dir] /\ slots[def.dir][i].status = "free"
               /\ slots'[def.dir][i] = new
               /\ ~Single(def) /\ i \in DOMAIN slots[rev]
                      => slots[rev][i].status = "free" /\ slots'[rev][i].status = "invalid"
               /\ \A d \in InOut : \A j \in DOMAIN slots[d] :
                      \/ d = def.dir /\ j = i
                      \/ d = rev /\ j = i /\ ~Single(def)
                      \/ slots'[d][j] = slots[d][j]
<1> DEFINE new == Slot("data", def.type, current, def.logical, def.buffers)
           dir == def.dir
           rev == Reverse(dir)
<1>1. dir \in InOut /\ rev \in InOut /\ rev # dir
  BY ReverseIs DEF Definitions
<1>2. i \in DOMAIN slots[dir] /\ Fits(def, i)
  BY DEF Candidates
<1>3. /\ slots[dir][i].status = "free"
      /\ ~Single(def) /\ i \in DOMAIN slots[rev] => slots[rev][i].status = "free"
  BY <1>2 DEF Fits
<1>4. /\ slots'[dir] = [slots[dir] EXCEPT ![i] = new]
      /\ slots'[rev] = IF ~Single(def) /\ i \in DOMAIN slots[rev]
                        THEN [slots[rev] EXCEPT ![i] = Invalid] ELSE slots[rev]
  BY <1>1 DEF Allocated
<1>5. Invalid.status = "invalid"
  BY DEF Invalid, Free, Slot
<1>6. \A d \in InOut : d = dir \/ d = rev
  BY <1>1, TwoDirections
<1> HIDE DEF new, rev, dir
<1>7. /\ DOMAIN slots'[dir] = DOMAIN slots[dir] /\ slots'[dir][i] = new
      /\ \A j \in DOMAIN slots[dir] : j = i \/ slots'[dir][j] = slots[dir][j]
  BY <1>2, <1>4
<1>8. /\ DOMAIN slots'[rev] = DOMAIN slots[rev]
      /\ ~Single(def) /\ i \in DOMAIN slots[rev] => slots'[rev][i] = Invalid
      /\ \A j \in DOMAIN slots[rev] : (j = i /\ ~Single(def)) \/ slots'[rev][j] = slots[rev][j]
  BY <1>4
<1> QED
  BY <1>1, <1>2, <1>3, <1>5, <1>6, <1>7, <1>8 DEF new, rev, dir

LEMMA AddKeepsSlots ==
    ASSUME AllocInv, NEW def \in Definitions, NEW i \in Candidates(def),
           slots' = Allocated(def, i), target' = target
    PROVE  SlotsInv' /\ DoubleInv' /\ SameTypeInv'
<1> DEFINE new == Slot("data", def.type, current, def.logical, def.buffers)
           dir == def.dir
           rev == Reverse(dir)
<1>1. /\ dir \in InOut /\ rev \in InOut /\ rev # dir /\ Reverse(rev) = dir
      /\ def.buffers \in Nat \ {0} /\ current \in Functions
  BY ReverseIs, AllocatorAssumption DEF Definitions, AllocInv
<1>2. /\ new.status = "data" /\ new.fn = current /\ new.logical = def.logical
      /\ new.type = def.type /\ new.buffers = def.buffers
  BY DEF Slot
<1>3. /\ \A d \in InOut : DOMAIN slots'[d] = DOMAIN slots[d]
      /\ i \in DOMAIN slots[dir] /\ slots[dir][i].status = "free"
      /\ slots'[dir][i] = new
      /\ ~Single(def) /\ i \in DOMAIN slots[rev]
             => slots[rev][i].status = "free" /\ slots'[rev][i].status = "invalid"
      /\ \A d \in InOut : \A j \in DOMAIN slots[d] :
             \/ d = dir /\ j = i
             \/ d = rev /\ j = i /\ ~Single(def)
             \/ slots'[d][j] = slots[d][j]
  BY AllocatedSlots
<1>4. Fits(def, i) /\ (Has("doubleUnidirectional")' <=> Has("doubleUnidirectional"))
      /\ (Has("sameType")' <=> Has("sameType"))
  BY DEF Candidates, Has
<1>5. Has("doubleUnidirectional") /\ def.buffers # 1 => ~Single(def)
  BY DEF Single
<1>6. i \in DOMAIN slots[rev] /\ Has("sameType") /\ slots[rev][i].status = "data"
         => slots[rev][i].type = def.type
  BY <1>4 DEF Fits
<1>7. \A d \in InOut : d = dir \/ d = rev
  BY <1>1, TwoDirections
<1> HIDE DEF new, rev, dir
<1>8. SlotsInv'
  <2> SUFFICES ASSUME NEW d \in InOut
               PROVE  /\ DOMAIN slots'[d] = 0..(target[d] - 1)
                      /\ \A j \in DOMAIN slots'[d] :
                             /\ slots'[d][j].status \in SlotStatus
                             /\ slots'[d][j].status = "control" <=> j = 0
                             /\ slots'[d][j].status = "data" =>
                                  slots'[d][j].fn \in Functions /\ slots'[d][j].buffers \in Nat \ {0}
    BY DEF SlotsInv
  <2>1. DOMAIN slots'[d] = 0..(target[d] - 1)
    BY <1>3 DEF AllocInv, SlotsInv
  <2>2. ASSUME NEW j \in DOMAIN slots'[d]
        PROVE  /\ slots'[d][j].status \in SlotStatus
               /\ slots'[d][j].status = "control" <=> j = 0
               /\ slots'[d][j].status = "data" =>
                      slots'[d][j].fn \in Functions /\ slots'[d][j].buffers \in Nat \ {0}
    <3>1. j \in DOMAIN slots[d]
      BY <1>3
    <3>2. CASE d = dir /\ j = i
      <4>1. slots'[d][j] = new /\ j # 0
        BY <1>1, <1>3, <3>1, <3>2 DEF AllocInv, SlotsInv
      <4> QED
        BY <1>1, <1>2, <4>1 DEF SlotStatus
    <3>3. CASE d = rev /\ j = i /\ ~Single(def)
      <4>1. slots'[d][j].status = "invalid" /\ j # 0
        BY <1>1, <1>3, <3>1, <3>3 DEF AllocInv, SlotsInv
      <4> QED
        BY <4>1 DEF SlotStatus
    <3>4. CASE slots'[d][j] = slots[d][j]
      BY <3>1, <3>4 DEF AllocInv, SlotsInv
    <3> QED
      BY <1>3, <3>1, <3>2, <3>3, <3>4
  <2> QED
    BY <2>1, <2>2
<1>9. DoubleInv'
  <2> SUFFICES ASSUME Has("doubleUnidirectional"), NEW d \in InOut,
                      NEW j \in DOMAIN slots'[d],
                      slots'[d][j].status = "data", slots'[d][j].buffers # 1,
                      j \in DOMAIN slots'[Reverse(d)]
               PROVE  slots'[Reverse(d)][j].status = "invalid"
    BY <1>4 DEF DoubleInv
  <2>1. j \in DOMAIN slots[d] /\ j \in DOMAIN slots[Reverse(d)] /\ Reverse(d) \in InOut
    BY <1>3, ReverseIs
  <2>2. CASE d = dir /\ j = i
    <3>1. Reverse(d) = rev
      BY <2>2 DEF rev, dir
    <3> QED
      BY <1>2, <1>3, <1>5, <2>1, <2>2, <3>1
  <2>3. CASE d = rev /\ j = i /\ ~Single(def)
    BY <1>3, <2>1, <2>3
  <2>4. CASE slots'[d][j] = slots[d][j] /\ ~(d = dir /\ j = i)
    <3>1. slots[Reverse(d)][j].status = "invalid"
      BY <2>1, <2>4 DEF AllocInv, DoubleInv
    <3>2. Reverse(d) = dir \/ Reverse(d) = rev
      BY <1>7, <2>1
    <3> QED
      BY <1>3, <2>1, <3>1, <3>2
  <2> QED
    BY <1>3, <2>1, <2>2, <2>3, <2>4
<1>10. SameTypeInv'
  <2> SUFFICES ASSUME Has("sameType"),
                      NEW j \in DOMAIN slots'["in"], j \in DOMAIN slots'["out"],
                      slots'["in"][j].status = "data", slots'["out"][j].status = "data"
               PROVE  slots'["in"][j].type = slots'["out"][j].type
    BY <1>4 DEF SameTypeInv
  <2>1. /\ "in" \in InOut /\ "out" \in InOut
        /\ j \in DOMAIN slots["in"] /\ j \in DOMAIN slots["out"]
    BY <1>3 DEF InOut
  <2>2. CASE j = i /\ dir = "in"
    <3>1. rev = "out"
      BY <2>2 DEF rev, Reverse
    <3>2. slots'["in"][j] = new
      BY <1>3, <2>2
    <3>3. slots'["out"][j] = slots["out"][j]
      BY <1>1, <1>3, <2>1, <2>2, <3>1
    <3> QED
      BY <1>2, <1>6, <2>1, <2>2, <3>1, <3>2, <3>3
  <2>3. CASE j = i /\ dir = "out"
    <3>1. rev = "in"
      BY <2>3 DEF rev, Reverse
    <3>2. slots'["out"][j] = new
      BY <1>3, <2>3
    <3>3. slots'["in"][j] = slots["in"][j]
      BY <1>1, <1>3, <2>1, <2>3, <3>1
    <3> QED
      BY <1>2, <1>6, <2>1, <2>3, <3>1, <3>2, <3>3
  <2>4. CASE j # i
    <3>1. slots'["in"][j] = slots["in"][j] /\ slots'["out"][j] = slots["out"][j]
      BY <1>3, <2>1, <2>4
    <3> QED
      BY <2>1, <3>1 DEF AllocInv, SameTypeInv
  <2>5. dir = "in" \/ dir = "out"
    BY <1>1 DEF InOut
  <2> QED
    BY <2>2, <2>3, <2>4, <2>5
<1> QED
  BY <1>8, <1>9, <1>10

LEMMA AddKeepsPlaces ==
    ASSUME AllocInv, NEW def \in Definitions, AddEndpoint(def),
           Min(Candidates(def)) \in Candidates(def)
    PROVE  PlacesInv'
<1> DEFINE i == Min(Candidates(def))
           new == Slot("data", def.type, current, def.logical, def.buffers)
           dir == def.dir
           log == def.logical
           rev == Reverse(dir)
           c == current
<1>1. /\ dir \in InOut /\ rev \in InOut /\ rev # dir
      /\ log \in Nat /\ c \in Functions
  BY ReverseIs, AllocatorAssumption DEF Definitions, AllocInv
<1>2. new.status = "data" /\ new.fn = c /\ new.logical = log
  BY DEF Slot
<1>3. slots' = Allocated(def, i)
  BY DEF AddEndpoint
<1>4. /\ \A d \in InOut : DOMAIN slots'[d] = DOMAIN slots[d]
      /\ i \in DOMAIN slots[dir] /\ slots[dir][i].status = "free"
      /\ slots'[dir][i] = new
      /\ ~Single(def) /\ i \in DOMAIN slots[rev]
             => slots[rev][i].status = "free" /\ slots'[rev][i].status = "invalid"
      /\ \A d \in InOut : \A j \in DOMAIN slots[d] :
             \/ d = dir /\ j = i
             \/ d = rev /\ j = i /\ ~Single(def)
             \/ slots'[d][j] = slots[d][j]
  BY <1>3, AllocatedSlots
<1>5. /\ log \notin DOMAIN functions[c] /\ DOMAIN functions = Functions
      /\ functions' = [functions EXCEPT ![c] =
             [l \in DOMAIN functions[c] \cup {log} |->
                 IF l = log THEN Place(dir, i) ELSE functions[c][l]]]
  BY DEF AddEndpoint, Acceptable, AllocInv, PlacesInv, Place
<1>6. /\ DOMAIN functions' = Functions
      /\ DOMAIN functions'[c] = DOMAIN functions[c] \cup {log}
      /\ functions'[c][log] = Place(dir, i)
      /\ \A l \in DOMAIN functions[c] : functions'[c][l] = functions[c][l]
      /\ \A f \in Functions \ {c} : functions'[f] = functions[f]
  BY <1>1, <1>5
<1> HIDE DEF i, new, dir, log, rev, c
\* What was in use stays what it was.
<1>7. ASSUME NEW d \in InOut, NEW j \in DOMAIN slots[d], slots[d][j].status = "data"
      PROVE  slots'[d][j] = slots[d][j]
  BY <1>1, <1>4, <1>7
<1>8. ASSUME NEW f \in Functions, NEW l \in DOMAIN functions'[f]
      PROVE  /\ l \in Nat
             /\ \E d \in InOut : \E j \in DOMAIN slots'[d] :
                  /\ functions'[f][l] = Place(d, j) /\ slots'[d][j].status = "data"
                  /\ slots'[d][j].fn = f /\ slots'[d][j].logical = l
  <2>1. CASE f = c /\ l = log
    BY <1>1, <1>2, <1>4, <1>6, <2>1
  <2>2. CASE ~(f = c /\ l = log)
    <3>1. l \in DOMAIN functions[f] /\ functions'[f][l] = functions[f][l]
      BY <1>6, <2>2
    <3>2. PICK d \in InOut : \E j \in DOMAIN slots[d] :
              /\ functions[f][l] = Place(d, j) /\ slots[d][j].status = "data"
              /\ slots[d][j].fn = f /\ slots[d][j].logical = l
      BY <3>1 DEF AllocInv, PlacesInv
    <3>3. PICK j \in DOMAIN slots[d] :
              /\ functions[f][l] = Place(d, j) /\ slots[d][j].status = "data"
              /\ slots[d][j].fn = f /\ slots[d][j].logical = l
      BY <3>2
    <3>4. slots'[d][j] = slots[d][j] /\ j \in DOMAIN slots'[d]
      BY <1>4, <1>7, <3>3
    <3>5. l \in Nat
      BY <3>1 DEF AllocInv, PlacesInv
    <3> QED
      BY <3>1, <3>3, <3>4, <3>5
  <2> QED
    BY <2>1, <2>2
<1>9. ASSUME NEW f \in Functions PROVE \E b \in Nat : \A l \in DOMAIN functions'[f] : l <= b
  <2>1. PICK b \in Nat : \A l \in DOMAIN functions[f] : l <= b
    BY DEF AllocInv, PlacesInv
  <2>2. \A l \in DOMAIN functions[f] : l \in Nat
    BY DEF AllocInv, PlacesInv
  <2>3. b + log \in Nat /\ \A l \in DOMAIN functions'[f] : l <= b + log
    <3>1. \A l \in DOMAIN functions'[f] : l = log \/ l \in DOMAIN functions[f]
      BY <1>6
    <3> QED
      BY <1>1, <2>1, <2>2, <3>1
  <2> QED
    BY <2>3
<1>10. ASSUME NEW d \in InOut, NEW j \in DOMAIN slots'[d], slots'[d][j].status = "data"
       PROVE  /\ slots'[d][j].logical \in DOMAIN functions'[slots'[d][j].fn]
              /\ functions'[slots'[d][j].fn][slots'[d][j].logical] = Place(d, j)
  <2>1. CASE d = dir /\ j = i
    BY <1>2, <1>4, <1>6, <2>1
  <2>2. CASE slots'[d][j] = slots[d][j]
    <3> DEFINE f == slots[d][j].fn
               l == slots[d][j].logical
    <3>1. j \in DOMAIN slots[d] /\ f \in Functions /\ slots[d][j].status = "data"
      BY <1>4, <1>10, <2>2 DEF AllocInv, SlotsInv
    <3>2. l \in DOMAIN functions[f] /\ functions[f][l] = Place(d, j)
      BY <3>1 DEF AllocInv, PlacesInv
    <3>3. l \in DOMAIN functions'[f] /\ functions'[f][l] = functions[f][l]
      <4> HIDE DEF f, l
      <4> QED
        BY <1>6, <3>1, <3>2
    <3> QED
      BY <2>2, <3>2, <3>3
  <2> QED
    BY <1>1, <1>4, <1>10, <2>1, <2>2
<1> QED
  BY <1>6, <1>8, <1>9, <1>10 DEF PlacesInv

-----------------------------------------------------------------------------
(* The other steps.                                                        *)

LEMMA ChoosesCandidate ==
    ASSUME AllocInv, NEW def \in Definitions, Candidates(def) # {}
    PROVE  Min(Candidates(def)) \in Candidates(def)
<1>1. def.dir \in InOut
  BY DEF Definitions
<1>2. DOMAIN slots[def.dir] = 0..(target[def.dir] - 1)
  BY <1>1 DEF AllocInv, SlotsInv
<1>3. Candidates(def) \in SUBSET Nat
  BY <1>2 DEF Candidates
<1> QED
  BY <1>3, Least

\* A step that leaves the endpoints alone.
LEMMA EndpointsUntouched ==
    ASSUME AllocInv, UNCHANGED <<target, slots, functions>>
    PROVE  SlotsInv' /\ DoubleInv' /\ SameTypeInv' /\ PlacesInv'
BY DEF AllocInv, SlotsInv, DoubleInv, SameTypeInv, PlacesInv, Has

LEMMA AddStep ==
    ASSUME AllocInv, NEW def \in Definitions, AddEndpoint(def)
    PROVE  AllocInv'
<1>1. Min(Candidates(def)) \in Candidates(def)
  BY ChoosesCandidate DEF AddEndpoint
<1>2. SlotsInv' /\ DoubleInv' /\ SameTypeInv'
  BY <1>1, AddKeepsSlots DEF AddEndpoint
<1>3. PlacesInv'
  BY <1>1, AddKeepsPlaces
<1>4. InterfacesInv'
  BY DEF AddEndpoint, AllocInv, InterfacesInv
<1> QED
  BY <1>2, <1>3, <1>4 DEF AddEndpoint, AllocInv

LEMMA FailStep ==
    ASSUME AllocInv, Fail
    PROVE  AllocInv'
<1>1. SlotsInv' /\ DoubleInv' /\ SameTypeInv' /\ PlacesInv'
  BY EndpointsUntouched DEF Fail
<1>2. InterfacesInv'
  BY DEF Fail, AllocInv, InterfacesInv
<1> QED
  BY <1>1, <1>2 DEF Fail, AllocInv

\* The next function has a number, and the last is followed by none.
LEMMA FunctionAfter ==
    ASSUME current \in Functions
    PROVE  /\ 0 \in Functions /\ MaxFunctions \in Nat
           /\ ~LastFunction => current + 1 \in Functions
           /\ LastFunction => current + 1 = MaxFunctions
BY MapperAssumption DEF Functions, LastFunction

LEMMA NextFunctionStep ==
    ASSUME AllocInv, NextFunction
    PROVE  AllocInv'
<1>1. SlotsInv' /\ DoubleInv' /\ SameTypeInv' /\ PlacesInv'
  BY EndpointsUntouched DEF NextFunction
<1>2. current' \in Functions
  BY FunctionAfter DEF NextFunction, AllocInv
<1>3. InterfacesInv'
  BY DEF NextFunction, AllocInv, InterfacesInv
<1> QED
  BY <1>1, <1>2, <1>3 DEF NextFunction, AllocInv

LEMMA NumberedIs ==
    ASSUME NEW f \in Functions, NEW count \in Nat
    PROVE  /\ Numbered(f, count) \in Seq([fn : Functions, logical : Nat])
           /\ Len(Numbered(f, count)) = count
           /\ \A k \in 1..count : Numbered(f, count)[k].fn = f
                                 /\ Numbered(f, count)[k].logical = k - 1
<1> DEFINE T == [fn : Functions, logical : Nat]
           s == Numbered(f, count)
<1>1. \A k \in 1..count : [fn |-> f, logical |-> k - 1] \in T
  OBVIOUS
<1>2. s \in [1..count -> T] /\ count \in Nat
  BY <1>1 DEF Numbered
<1>3. s \in Seq(T)
  <2> HIDE DEF s, T
  <2> QED
    BY <1>2, SeqDef
<1>4. Len(s) = count
  <2> HIDE DEF s, T
  <2> QED
    BY <1>2, <1>3, LenProperties
<1> QED
  BY <1>3, <1>4 DEF Numbered

LEMMA AllocateInterfacesStep ==
    ASSUME AllocInv, NEW count \in Interfaces, AllocateInterfaces(count)
    PROVE  AllocInv'
<1> DEFINE T == [fn : Functions, logical : Nat]
           new == Numbered(current, count)
           p == Len(physical)
           b == Len(bases)
<1>1. SlotsInv' /\ DoubleInv' /\ SameTypeInv' /\ PlacesInv'
  BY EndpointsUntouched DEF AllocateInterfaces
<1>2. current' \in Functions /\ MaxFunctions \in Nat
  BY FunctionAfter DEF AllocateInterfaces, AllocInv
<1>3. current \in Functions /\ count \in Nat
  BY AllocatorAssumption DEF AllocInv
<1>4. /\ bases \in Seq(Nat) /\ physical \in Seq(T) /\ b = current
      /\ b = 0 => p = 0
      /\ b > 0 => bases[1] = 0
      /\ \A n \in 1..p : /\ physical[n].fn + 1 <= b
                         /\ bases[physical[n].fn + 1] + physical[n].logical = n - 1
  BY DEF AllocateInterfaces, AllocInv, InterfacesInv
<1>5. p \in Nat /\ b \in Nat
  BY <1>4, LenProperties
<1>6. /\ bases' = Append(bases, p) /\ physical' = physical \o new
      /\ stage' \in {"print", "interfaces"}
      /\ stage' = "interfaces" => current' = current + 1
      /\ stage' = "print" => current + 1 = MaxFunctions
  BY FunctionAfter DEF AllocateInterfaces, AllocInv
<1>7. /\ new \in Seq(T) /\ Len(new) = count
      /\ \A k \in 1..count : new[k].fn = current /\ new[k].logical = k - 1
  BY <1>3, NumberedIs
<1> HIDE DEF T, new, p, b
<1>8. /\ bases' \in Seq(Nat) /\ Len(bases') = b + 1 /\ bases'[b + 1] = p
      /\ \A n \in 1..b : bases'[n] = bases[n]
  BY <1>4, <1>5, <1>6, AppendProperties DEF b
<1>9. /\ physical' \in Seq(T) /\ Len(physical') = p + count
      /\ \A n \in 1..(p + count) : physical'[n] = IF n <= p THEN physical[n] ELSE new[n - p]
  BY <1>4, <1>6, <1>7, ConcatProperties DEF p
<1>10. \A n \in 1..p : physical[n] \in T /\ physical[n].fn \in Nat
  <2> SUFFICES ASSUME NEW n \in 1..p PROVE physical[n] \in T /\ physical[n].fn \in Nat
    OBVIOUS
  <2>1. physical[n] \in T
    BY <1>4, ElementOfSeq DEF p
  <2> QED
    BY <2>1, MapperAssumption DEF T, Functions
<1>11. ASSUME NEW n \in 1..(p + count)
       PROVE  /\ physical'[n].fn + 1 <= b + 1
              /\ bases'[physical'[n].fn + 1] + physical'[n].logical = n - 1
  <2>1. CASE n <= p
    <3> DEFINE f == physical[n].fn
    <3>1. n \in 1..p /\ physical'[n] = physical[n]
      BY <1>9, <2>1
    <3>2. f \in Nat /\ f + 1 <= b /\ bases[f + 1] + physical[n].logical = n - 1
      BY <1>4, <1>10, <3>1
    <3> HIDE DEF f
    <3>3. f + 1 \in 1..b /\ f + 1 <= b + 1
      BY <1>5, <3>2
    <3> QED
      BY <1>8, <3>1, <3>2, <3>3 DEF f
  <2>2. CASE n > p
    <3> DEFINE k == n - p
    <3>1. k \in 1..count /\ ~(n <= p) /\ p + (k - 1) = n - 1
      BY <1>3, <1>5, <2>2
    <3>2. physical'[n] = new[k]
      BY <1>9, <3>1
    <3> HIDE DEF k
    <3>3. physical'[n].fn = b /\ physical'[n].logical = k - 1
      BY <1>4, <1>7, <3>1, <3>2
    <3> QED
      BY <1>5, <1>8, <3>1, <3>3
  <2> QED
    BY <1>3, <1>5, <2>1, <2>2
<1>12. bases'[1] = 0
  <2>1. CASE b = 0
    BY <1>4, <1>8, <2>1
  <2>2. CASE b > 0
    BY <1>4, <1>5, <1>8, <2>2
  <2> QED
    BY <1>5, <2>1, <2>2
<1>13. InterfacesInv'
  <2>1. /\ bases' \in Seq(Nat) /\ physical' \in Seq([fn : Functions, logical : Nat])
        /\ bases'[1] = 0
    BY <1>8, <1>9, <1>12 DEF T
  <2>2. /\ stage' = "interfaces" => Len(bases') = current'
        /\ stage' \in {"print", "built"} => Len(bases') = MaxFunctions
        /\ stage' # "endpoints" /\ Len(bases') # 0
    BY <1>4, <1>5, <1>6, <1>8
  <2>3. \A n \in 1..Len(physical') :
            /\ physical'[n].fn + 1 <= Len(bases')
            /\ bases'[physical'[n].fn + 1] + physical'[n].logical = n - 1
    BY <1>8, <1>9, <1>11
  <2> QED
    BY <2>1, <2>2, <2>3 DEF InterfacesInv
<1>14. stage' # "built" /\ target' = target
  BY <1>6 DEF AllocateInterfaces
<1> QED
  BY <1>1, <1>2, <1>6, <1>13, <1>14 DEF AllocInv

LEMMA BuildStep ==
    ASSUME AllocInv, Build
    PROVE  AllocInv'
<1>1. SlotsInv' /\ DoubleInv' /\ SameTypeInv' /\ PlacesInv'
  BY EndpointsUntouched DEF Build
<1>2. InterfacesInv'
  BY DEF Build, AllocInv, InterfacesInv
<1>3. stage' = "built" => Printable' /\ FitByte' /\ ConfigChecks'
  BY DEF Build, Printable, FitByte, ConfigChecks, LogicalCount, NumEndpoints
<1> QED
  BY <1>1, <1>2, <1>3 DEF Build, AllocInv

LEMMA AllocStart == AllocInit => AllocInv
<1> SUFFICES ASSUME AllocInit PROVE AllocInv
  OBVIOUS
<1>1. /\ target \in Targets /\ current \in Functions /\ stage = "endpoints"
      /\ target["in"] \in 1..16 /\ target["out"] \in 1..16
  BY AllocatorAssumption, MapperAssumption DEF AllocInit, Functions
<1>2. ASSUME NEW d \in InOut
      PROVE  /\ DOMAIN slots[d] = 0..(target[d] - 1)
             /\ \A i \in DOMAIN slots[d] : slots[d][i] = IF i = 0 THEN ControlSlot ELSE Free
  BY <1>1, <1>2 DEF AllocInit, CreateEndpoints, InOut
<1>3. /\ ControlSlot.status = "control" /\ Free.status = "free"
  BY DEF ControlSlot, Free, Slot
<1>4. \A d \in InOut : \A i \in DOMAIN slots[d] :
          slots[d][i].status = IF i = 0 THEN "control" ELSE "free"
  BY <1>2, <1>3
<1>5. SlotsInv
  BY <1>2, <1>4 DEF SlotsInv, SlotStatus
<1>6. DoubleInv /\ SameTypeInv
  BY <1>4 DEF DoubleInv, SameTypeInv, InOut
<1>7. PlacesInv
  <2>1. DOMAIN functions = Functions /\ \A f \in Functions : functions[f] = << >>
    BY DEF AllocInit
  <2>2. \A f \in Functions : DOMAIN functions[f] = {}
    <3>1. << >> \in Seq(Nat) /\ Len(<< >>) = 0 /\ DOMAIN << >> = 1..Len(<< >>)
      BY EmptySeq, LenProperties
    <3> QED
      BY <2>1, <3>1
  <2>3. 0 \in Nat
    OBVIOUS
  <2> QED
    BY <1>4, <2>1, <2>2, <2>3 DEF PlacesInv
<1>8. InterfacesInv
  <2>1. bases = << >> /\ physical = << >>
    BY DEF AllocInit
  <2>2. Len(bases) = 0 /\ Len(physical) = 0
    BY <2>1, EmptySeq
  <2>3. bases \in Seq(Nat) /\ physical \in Seq([fn : Functions, logical : Nat])
    BY <2>1, EmptySeq
  <2> QED
    BY <1>1, <2>2, <2>3 DEF InterfacesInv
<1> QED
  BY <1>1, <1>5, <1>6, <1>7, <1>8 DEF AllocInv

\* Whatever the functions ask for, in any order of them: what the compiler has
\* allocated so far is consistent.
THEOREM AllocInvariant == AllocSpec => []AllocInv
<1>1. ASSUME AllocInv, [AllocNext]_allocVars PROVE AllocInv'
  <2>1. ASSUME UNCHANGED allocVars PROVE AllocInv'
    <3>1. UNCHANGED <<target, slots, functions, current, physical, bases, stage>>
      BY <2>1 DEF allocVars
    <3>2. SlotsInv' /\ DoubleInv' /\ SameTypeInv' /\ PlacesInv'
      BY <1>1, <3>1, EndpointsUntouched
    <3>3. InterfacesInv'
      BY <1>1, <3>1 DEF AllocInv, InterfacesInv
    <3>4. stage' = "built" => Printable' /\ FitByte' /\ ConfigChecks'
      BY <1>1, <3>1 DEF AllocInv, Printable, FitByte, ConfigChecks, LogicalCount, NumEndpoints
    <3> QED
      BY <1>1, <3>1, <3>2, <3>3, <3>4 DEF AllocInv
  <2> QED
    BY <1>1, <2>1, AddStep, FailStep, NextFunctionStep, AllocateInterfacesStep, BuildStep
       DEF AllocNext, RejectEndpoint
<1> QED
  BY <1>1, AllocStart, PTL DEF AllocSpec

\* What the hardware cannot do is never asked of it.
THEOREM AllocHardware == AllocSpec => []HardwareInv
<1>1. AllocInv => HardwareInv
  <2> SUFFICES ASSUME AllocInv, NEW i \in DOMAIN slots["in"] \cap DOMAIN slots["out"],
                      slots["in"][i].status = "data", slots["out"][i].status = "data"
               PROVE  /\ Has("sameType") => slots["in"][i].type = slots["out"][i].type
                      /\ Has("doubleUnidirectional")
                            => slots["in"][i].buffers = 1 /\ slots["out"][i].buffers = 1
    BY DEF HardwareInv
  <2>1. Has("sameType") => slots["in"][i].type = slots["out"][i].type
    BY DEF AllocInv, SameTypeInv
  <2>2. /\ "in" \in InOut /\ "out" \in InOut
        /\ Reverse("in") = "out" /\ Reverse("out") = "in"
    BY DEF InOut, Reverse
  <2>3. Has("doubleUnidirectional")
            => slots["in"][i].buffers = 1 /\ slots["out"][i].buffers = 1
    BY <2>2 DEF AllocInv, DoubleInv
  <2> QED
    BY <2>1, <2>3
<1> QED
  BY <1>1, AllocInvariant, PTL

-----------------------------------------------------------------------------
(* The tables of a build.                                                  *)

InUse(d, i) == i \in DOMAIN slots[d] /\ slots[d][i].status = "data"
Room(d)  == IF d = "in" THEN MaxIn ELSE MaxOut
Bit(d)   == IF d = "in" THEN EP_IN ELSE 0

\* The endpoints counted include all in use, and nothing the hardware lacks.
LEMMA NumEndpointsIs ==
    ASSUME AllocInv, NEW d \in InOut
    PROVE  /\ NumEndpoints(d) \in 1..target[d] /\ target[d] \in 1..16
           /\ \A i : InUse(d, i) => i \in Nat \ {0} /\ i < NumEndpoints(d)
<1> DEFINE S == {i \in DOMAIN slots[d] : slots[d][i].status \in {"control", "data"}}
           n == target[d]
<1>1. n \in 1..16
  BY AllocatorAssumption DEF AllocInv, InOut
<1>2. /\ DOMAIN slots[d] = 0..(n - 1)
      /\ \A i \in DOMAIN slots[d] : slots[d][i].status = "control" <=> i = 0
  BY DEF AllocInv, SlotsInv
<1> HIDE DEF n
<1>3. S \in SUBSET Nat /\ 0 \in S /\ n - 1 \in Nat /\ \A m \in S : m <= n - 1
  BY <1>1, <1>2
<1>4. Max(S) \in S /\ \A m \in S : m <= Max(S)
  <2> HIDE DEF S
  <2> QED
    BY <1>3, Greatest
<1>5. NumEndpoints(d) = 1 + Max(S)
  BY DEF NumEndpoints
<1>6. ASSUME NEW i, InUse(d, i) PROVE i \in S /\ i # 0
  BY <1>2, <1>6 DEF InUse
<1> DEFINE g == Max(S)
<1> HIDE DEF S, g
<1>7. g \in Nat /\ g <= n - 1 /\ NumEndpoints(d) = 1 + g
  BY <1>3, <1>4, <1>5 DEF g
<1>8. NumEndpoints(d) \in 1..n
  BY <1>1, <1>7
<1>9. ASSUME NEW i, InUse(d, i) PROVE i \in Nat \ {0} /\ i < NumEndpoints(d)
  <2>1. i \in Nat /\ i <= g /\ i # 0
    BY <1>3, <1>4, <1>6, <1>9 DEF g
  <2> QED
    BY <1>7, <2>1
<1> QED
  BY <1>1, <1>8, <1>9 DEF n

\* A build has room for every endpoint in use.
LEMMA RoomFor ==
    ASSUME AllocInv, ConfigChecks, NEW d \in InOut, NEW i, InUse(d, i)
    PROVE  i \in 1..15 /\ i \in 0..(Room(d) - 1) /\ Room(d) \in 1..16
<1>1. NumEndpoints(d) \in 1..16 /\ i \in Nat \ {0} /\ i < NumEndpoints(d)
  <2>1. NumEndpoints(d) \in 1..target[d] /\ target[d] \in 1..16
    BY NumEndpointsIs
  <2> QED
    BY <2>1, NumEndpointsIs
<1>2. NumEndpoints(d) <= Room(d) /\ Room(d) \in 1..16
  BY MapperAssumption DEF ConfigChecks, Room, InOut
<1> QED
  BY <1>1, <1>2

\* Logical addresses fit their half of a table entry.
LEMMA LogicalFits ==
    ASSUME AllocInv, Printable, ConfigChecks, NEW f \in Functions, NEW l \in DOMAIN functions[f]
    PROVE  l \in 0..(MaxFuncEndpoints - 1) /\ l \in 0..15
<1> DEFINE D == DOMAIN functions[f]
           c == LogicalCount(f)
<1>1. D = 0..(c - 1) /\ c <= MaxFuncEndpoints /\ MaxFuncEndpoints \in 1..16
  BY MapperAssumption DEF Printable, ConfigChecks
<1>2. l \in Nat /\ D \in SUBSET Nat /\ \E b \in Nat : \A m \in D : m <= b
  BY DEF AllocInv, PlacesInv
<1>3. CASE functions[f] = << >>
  <2>1. c = 0
    BY <1>3 DEF LogicalCount
  <2> QED
    BY <1>1, <2>1
<1>4. CASE functions[f] # << >>
  <2>1. c = Max(D) + 1
    BY <1>4 DEF LogicalCount
  <2> HIDE DEF D, c
  <2>2. l \in D
    BY DEF D
  <2>3. Max(D) \in D /\ l <= Max(D)
    BY <1>2, <2>2, Greatest
  <2> DEFINE g == Max(D)
  <2> HIDE DEF g
  <2>4. g \in Nat /\ l <= g /\ c = g + 1
    BY <1>2, <2>1, <2>3 DEF g
  <2> QED
    BY <1>1, <1>2, <2>4
<1> QED
  BY <1>3, <1>4

\* A logical number of four bits leaves the function's index alone.
LEMMA EntryIs ==
    ASSUME NEW f \in Functions, NEW l \in 0..15
    PROVE  f \in 0..14 /\ TableEntry(f, l) = 16 * (f + 1) + l
<1>1. f \in 0..14
  BY MapperAssumption DEF Functions
<1>2. l \div 16 = 0 /\ l % 16 = l
  OBVIOUS
<1>3. TableEntry(f, l) = 16 * Or(f + 1, 0) + l
  BY <1>2 DEF TableEntry
<1>4. Or(f + 1, 0) = f + 1
  BY DEF Or
<1> QED
  BY <1>1, <1>3, <1>4

LEMMA EntryLeads ==
    ASSUME NEW f \in Functions, NEW l \in 0..15, NEW x \in Nat
    PROVE  TransformMapping(TableEntry(f, l), x) = Mapped(f, l + x)
<1> DEFINE e == TableEntry(f, l)
<1>1. f \in Nat /\ e = 16 * (f + 1) + l
  BY EntryIs
<1>2. e \div 16 = f + 1 /\ e % 16 = l /\ f + 1 # 0 /\ (f + 1) - 1 = f
  <2> HIDE DEF e
  <2> QED
    BY <1>1
<1> HIDE DEF e
<1> QED
  BY <1>2 DEF TransformMapping, e

LEMMA ZeroLeadsNowhere ==
    ASSUME NEW x PROVE TransformMapping(0, x) = NotMapped
BY DEF TransformMapping

LEMMA AddressIs ==
    ASSUME NEW d \in InOut, NEW i \in 0..15
    PROVE  LET addr == EndpointAddress(Place(d, i))
           IN  addr = i + Bit(d) /\ EpNum(addr) = i /\ (IsIn(addr) <=> d = "in")
BY DEF EndpointAddress, Place, Bit, EpNum, IsIn, EP_IN, InOut

\* An entry for each endpoint in use, nothing for the others.
LEMMA TableIs ==
    ASSUME AllocInv, ConfigChecks, NEW d \in InOut, NEW i \in 0..(Room(d) - 1)
    PROVE  EndpointTable(d, Room(d))[i] =
               IF InUse(d, i) THEN TableEntry(slots[d][i].fn, slots[d][i].logical) ELSE 0
<1>1. EndpointTable(d, Room(d))[i] =
        IF i < NumEndpoints(d) /\ slots[d][i].status = "data"
        THEN TableEntry(slots[d][i].fn, slots[d][i].logical) ELSE 0
  BY DEF EndpointTable
<1>2. InUse(d, i) => i < NumEndpoints(d) /\ slots[d][i].status = "data"
  BY NumEndpointsIs DEF InUse
<1>3. i < NumEndpoints(d) /\ slots[d][i].status = "data" => InUse(d, i)
  <2> SUFFICES ASSUME i < NumEndpoints(d) PROVE i \in DOMAIN slots[d]
    BY DEF InUse
  <2>1. NumEndpoints(d) \in 1..target[d] /\ target[d] \in 1..16
    BY NumEndpointsIs
  <2>2. DOMAIN slots[d] = 0..(target[d] - 1)
    BY DEF AllocInv, SlotsInv
  <2>3. Room(d) \in 1..16
    BY MapperAssumption DEF Room
  <2>4. i \in 0..(target[d] - 1)
    <3> DEFINE n == NumEndpoints(d)
               t == target[d]
               r == Room(d)
    <3>1. n \in 1..t /\ t \in 1..16 /\ i \in 0..(r - 1) /\ r \in 1..16 /\ i < n
      BY <2>1, <2>3
    <3> HIDE DEF n, t, r
    <3>2. i \in 0..(t - 1)
      BY <3>1
    <3> QED
      BY <3>2 DEF t
  <2> QED
    BY <2>2, <2>4
<1> QED
  BY <1>1, <1>2, <1>3

\* Where an address of the bus leads.
LEMMA AddressLeads ==
    ASSUME AllocInv, Printable, ConfigChecks, NEW d \in InOut, NEW i \in 0..15
    PROVE  ToLogicalEndpoint(EndpointAddress(Place(d, i)), Tables) =
               IF InUse(d, i) THEN Mapped(slots[d][i].fn, slots[d][i].logical + Bit(d)) ELSE NotMapped
<1> DEFINE addr == EndpointAddress(Place(d, i))
           table == EndpointTable(d, Room(d))
           slot == slots[d][i]
<1>1. EpNum(addr) = i /\ (IsIn(addr) <=> d = "in")
  BY AddressIs
<1>2. (IF IsIn(addr) THEN Tables.in ELSE Tables.out) = table
  BY <1>1 DEF Tables, Room, InOut
<1>3. DOMAIN table = 0..(Room(d) - 1)
  BY DEF EndpointTable
<1>4. (IF IsIn(addr) THEN EP_IN ELSE 0) = Bit(d)
  BY <1>1 DEF Bit
<1> HIDE DEF table, addr
<1>5. ToLogicalEndpoint(addr, Tables) =
        IF i \in 0..(Room(d) - 1) THEN TransformMapping(table[i], Bit(d)) ELSE NotMapped
  BY <1>1, <1>2, <1>3, <1>4 DEF ToLogicalEndpoint
<1>6. CASE InUse(d, i)
  <2>1. i \in 0..(Room(d) - 1)
    BY <1>6, RoomFor
  <2>2. table[i] = TableEntry(slot.fn, slot.logical)
    BY <1>6, <2>1, TableIs DEF table
  <2>3. slot.fn \in Functions
    BY <1>6 DEF InUse, AllocInv, SlotsInv
  <2>4. slot.logical \in DOMAIN functions[slot.fn]
    BY <1>6 DEF InUse, AllocInv, PlacesInv
  <2>5. slot.logical \in 0..15 /\ Bit(d) \in Nat
    BY <2>3, <2>4, LogicalFits DEF Bit, EP_IN
  <2> HIDE DEF slot
  <2>6. TransformMapping(table[i], Bit(d)) = Mapped(slot.fn, slot.logical + Bit(d))
    BY <2>2, <2>3, <2>5, EntryLeads
  <2> QED
    BY <1>5, <1>6, <2>1, <2>6 DEF slot, addr
<1>7. CASE ~InUse(d, i)
  <2>1. i \in 0..(Room(d) - 1) => table[i] = 0
    BY <1>7, TableIs DEF table
  <2> QED
    BY <1>5, <1>7, <2>1, ZeroLeadsNowhere DEF addr
<1> QED
  BY <1>6, <1>7

LEMMA OpenedIs ==
    ASSUME AllocInv, NEW d \in InOut, NEW i \in 0..15
    PROVE  EndpointAddress(Place(d, i)) \in Opened <=> InUse(d, i)
<1>1. ASSUME InUse(d, i) PROVE EndpointAddress(Place(d, i)) \in Opened
  BY <1>1 DEF Opened, InUse, Place
<1>2. ASSUME EndpointAddress(Place(d, i)) \in Opened PROVE InUse(d, i)
  <2>1. PICK e \in InOut :
            EndpointAddress(Place(d, i)) \in
                {EndpointAddress([dir |-> e, number |-> j]) :
                    j \in {n \in DOMAIN slots[e] : slots[e][n].status = "data"}}
    BY <1>2 DEF Opened
  <2>2. PICK j \in DOMAIN slots[e] :
            /\ slots[e][j].status = "data"
            /\ EndpointAddress(Place(d, i)) = EndpointAddress(Place(e, j))
    BY <2>1 DEF Place
  <2>3. target[e] \in 1..16 /\ DOMAIN slots[e] = 0..(target[e] - 1)
    BY NumEndpointsIs DEF AllocInv, SlotsInv
  <2>4. j \in 0..15
    BY <2>2, <2>3
  <2>5. i + Bit(d) = j + Bit(e)
    BY <2>2, <2>4, AddressIs
  <2>6. d = e /\ i = j
    BY <2>4, <2>5 DEF Bit, EP_IN, InOut
  <2> QED
    BY <2>2, <2>6 DEF InUse
<1> QED
  BY <1>1, <1>2

LEMMA OpenedAddresses ==
    ASSUME AllocInv
    PROVE  Opened \subseteq (1..15) \cup (129..143)
<1> SUFFICES ASSUME NEW a \in Opened PROVE a \in (1..15) \cup (129..143)
  OBVIOUS
<1>1. PICK d \in InOut : \E i \in DOMAIN slots[d] :
          slots[d][i].status = "data" /\ a = EndpointAddress(Place(d, i))
  BY DEF Opened, Place
<1>2. PICK i \in DOMAIN slots[d] :
          slots[d][i].status = "data" /\ a = EndpointAddress(Place(d, i))
  BY <1>1
<1>3. i \in Nat \ {0} /\ i < NumEndpoints(d) /\ NumEndpoints(d) \in 1..target[d]
      /\ target[d] \in 1..16
  BY <1>2, NumEndpointsIs DEF InUse
<1>4. i \in 1..15
  BY <1>3
<1>5. a = i + Bit(d)
  BY <1>2, <1>4, AddressIs
<1> QED
  BY <1>4, <1>5 DEF Bit, EP_IN

\* The way back from the host's address to the function, for each endpoint in use.
LEMMA EndpointReached ==
    ASSUME AllocInv, Printable, ConfigChecks, NEW f \in Functions, NEW l \in DOMAIN functions[f]
    PROVE  LET addr == EndpointAddress(functions[f][l])
               back == ToLogicalEndpoint(addr, Tables)
           IN  /\ ToPhysicalEndpoint(f, l, Tables) = addr
               /\ addr \in Opened
               /\ back.present /\ back.fn = f /\ EpNum(back.value) = l
               /\ IsIn(back.value) = IsIn(addr)
<1>0. PICK d \in InOut : \E i \in DOMAIN slots[d] :
          /\ functions[f][l] = Place(d, i) /\ slots[d][i].status = "data"
          /\ slots[d][i].fn = f /\ slots[d][i].logical = l
  BY DEF AllocInv, PlacesInv
<1>1. PICK i \in DOMAIN slots[d] :
          /\ functions[f][l] = Place(d, i) /\ slots[d][i].status = "data"
          /\ slots[d][i].fn = f /\ slots[d][i].logical = l
  BY <1>0
<1>2. InUse(d, i) /\ i \in 0..15
  <2>1. InUse(d, i)
    BY <1>1 DEF InUse
  <2>2. i \in 1..15
    BY <2>1, RoomFor
  <2> QED
    BY <2>1, <2>2
<1>3. l \in 0..(MaxFuncEndpoints - 1) /\ l \in 0..15 /\ MaxFuncEndpoints \in 1..16
  BY LogicalFits, MapperAssumption
<1> DEFINE addr == EndpointAddress(Place(d, i))
           back == ToLogicalEndpoint(addr, Tables)
<1>4. addr \in Opened
  BY <1>2, OpenedIs
<1>5. back = Mapped(f, l + Bit(d))
  BY <1>1, <1>2, AddressLeads
<1>6. IsIn(addr) <=> d = "in"
  BY <1>2, AddressIs
<1>7. EpNum(l + Bit(d)) = l /\ (IsIn(l + Bit(d)) <=> d = "in")
  BY <1>3 DEF Bit, EpNum, IsIn, EP_IN, InOut
<1>8. Tables.funcEndpoints[f][l] = addr
  BY <1>1, <1>3 DEF Tables
<1>9. ToPhysicalEndpoint(f, l, Tables) = addr
  <2>1. ~(l >= MaxFuncEndpoints)
    BY <1>3
  <2> QED
    BY <1>8, <2>1 DEF ToPhysicalEndpoint
<1>10. IsIn(l + Bit(d)) \in BOOLEAN /\ IsIn(addr) \in BOOLEAN
  BY DEF IsIn
<1>11. back.present /\ back.fn = f /\ back.value = l + Bit(d)
  BY <1>5 DEF Mapped
<1> HIDE DEF addr, back
<1>12. IsIn(back.value) = IsIn(addr)
  BY <1>6, <1>7, <1>10, <1>11
<1> QED
  BY <1>1, <1>4, <1>7, <1>9, <1>11, <1>12 DEF addr, back

\* An address of the bus leads somewhere when it is open, and then to its owner.
LEMMA NoOtherReached ==
    ASSUME AllocInv, Printable, ConfigChecks, NEW addr \in (0..15) \cup (128..143)
    PROVE  LET to == ToLogicalEndpoint(addr, Tables)
           IN  /\ to.present = (addr \in Opened)
               /\ to.present => functions[to.fn][EpNum(to.value)]
                       = [dir |-> IF IsIn(addr) THEN "in" ELSE "out", number |-> EpNum(addr)]
<1> DEFINE d == IF IsIn(addr) THEN "in" ELSE "out"
           i == EpNum(addr)
           to == ToLogicalEndpoint(addr, Tables)
<1>1. d \in InOut /\ i \in 0..15 /\ addr = EndpointAddress(Place(d, i))
  BY DEF InOut, Place, EndpointAddress, IsIn, EpNum, EP_IN
<1> HIDE DEF d, i
<1>2. to = IF InUse(d, i) THEN Mapped(slots[d][i].fn, slots[d][i].logical + Bit(d)) ELSE NotMapped
  BY <1>1, AddressLeads
<1>3. addr \in Opened <=> InUse(d, i)
  BY <1>1, OpenedIs
<1>4. CASE InUse(d, i)
  <2> DEFINE f == slots[d][i].fn
             l == slots[d][i].logical
  <2>1. to.present = TRUE /\ to.fn = f /\ to.value = l + Bit(d)
    BY <1>2, <1>4 DEF Mapped
  <2>2. f \in Functions
    BY <1>1, <1>4 DEF InUse, AllocInv, SlotsInv
  <2>3. l \in DOMAIN functions[f] /\ functions[f][l] = Place(d, i)
    BY <1>1, <1>4 DEF InUse, AllocInv, PlacesInv
  <2> HIDE DEF f, l
  <2>4. l \in 0..15
    BY <2>2, <2>3, LogicalFits
  <2>5. EpNum(l + Bit(d)) = l
    BY <2>4 DEF Bit, EpNum, EP_IN
  <2> HIDE DEF to
  <2>6. functions[to.fn][EpNum(to.value)] = Place(d, i)
    BY <2>1, <2>3, <2>5
  <2>7. Place(d, i) = [dir |-> IF IsIn(addr) THEN "in" ELSE "out", number |-> EpNum(addr)]
    BY DEF Place, d, i
  <2>8. to.present = (addr \in Opened)
    BY <1>3, <1>4, <2>1
  <2>9. functions[to.fn][EpNum(to.value)]
            = [dir |-> IF IsIn(addr) THEN "in" ELSE "out", number |-> EpNum(addr)]
    BY <2>6, <2>7
  <2> QED
    BY <2>8, <2>9, Zenon DEF to
<1>5. CASE ~InUse(d, i)
  <2>1. to.present = FALSE
    BY <1>2, <1>5 DEF NotMapped
  <2> HIDE DEF to
  <2> DEFINE open == addr \in Opened
  <2>2. open = FALSE
    <3>1. ~open /\ open \in BOOLEAN
      BY <1>3, <1>5
    <3> HIDE DEF open
    <3> QED
      BY <3>1
  <2> HIDE DEF open
  <2>3. to.present = open
    BY <2>1, <2>2
  <2>4. to.present = (addr \in Opened)
    BY <2>3 DEF open
  <2> QED
    BY <2>1, <2>4, Zenon DEF to
<1> QED
  BY <1>4, <1>5

\* An interface of the configuration leads to the function that has it, where there
\* are several, and no other number leads anywhere.
LEMMA InterfaceLeads ==
    ASSUME AllocInv, FewInterfaces, ConfigChecks, stage = "built", MaxFunctions > 1,
           NEW n \in Nat
    PROVE  ToLogicalInterface(n, Tables) =
               IF n < Len(physical) THEN Mapped(physical[n + 1].fn, physical[n + 1].logical)
               ELSE NotMapped
<1> DEFINE p == Len(physical)
<1>1. /\ bases \in Seq(Nat) /\ Len(bases) = MaxFunctions /\ MaxFunctions \in 1..15
      /\ physical \in Seq([fn : Functions, logical : Nat])
      /\ p \in Nat /\ p <= MaxInterfaces /\ MaxInterfaces \in Nat \ {0}
  BY MapperAssumption, LenProperties DEF AllocInv, InterfacesInv, ConfigChecks
<1>2. bases[1] = 0
  BY <1>1 DEF AllocInv, InterfacesInv
<1>3. ASSUME n < MaxInterfaces
      PROVE  Tables.interfaces[n] =
                 IF n < p THEN TableEntry(physical[n + 1].fn, physical[n + 1].logical) ELSE 0
  <2>1. n \in 0..(MaxInterfaces - 1)
    BY <1>1, <1>3
  <2> QED
    BY <2>1 DEF Tables
<1>4. Tables.funcInterfaceBase[0] = 0
  <2>1. 0 \in Functions /\ 0 + 1 = 1
    BY <1>1 DEF Functions
  <2> QED
    BY <1>2, <2>1 DEF Tables
<1>5. ASSUME n < p
      PROVE  ToLogicalInterface(n, Tables) = Mapped(physical[n + 1].fn, physical[n + 1].logical)
  <2> DEFINE f == physical[n + 1].fn
             l == physical[n + 1].logical
  <2>1. n + 1 \in 1..p
    BY <1>1, <1>5
  <2>2. physical[n + 1] \in [fn : Functions, logical : Nat]
    BY <1>1, <2>1, ElementOfSeq
  <2>3. f \in Functions /\ l \in 0..15 /\ l + 0 = l
    BY <2>1, <2>2 DEF FewInterfaces
  <2>4. n < MaxInterfaces /\ ~(n > MaxInterfaces) /\ n # MaxInterfaces /\ MaxFunctions # 1
    BY <1>1, <1>5
  <2>5. Tables.interfaces[n] = TableEntry(f, l)
    BY <1>3, <1>5, <2>4
  <2> HIDE DEF f, l
  <2>6. TransformMapping(Tables.interfaces[n], 0) = Mapped(f, l)
    BY <2>3, <2>5, EntryLeads
  <2> QED
    BY <2>4, <2>6 DEF ToLogicalInterface, f, l
<1>6. ASSUME ~(n < p)
      PROVE  ToLogicalInterface(n, Tables) = NotMapped
  <2>1. CASE n < MaxInterfaces
    <3>1. TransformMapping(Tables.interfaces[n], 0) = NotMapped
      BY <1>3, <1>6, <2>1, ZeroLeadsNowhere
    <3>2. ~(n > MaxInterfaces) /\ n # MaxInterfaces /\ MaxFunctions # 1
      BY <1>1, <1>6, <2>1
    <3> QED
      BY <3>1, <3>2 DEF ToLogicalInterface
  <2>2. CASE n = MaxInterfaces
    <3>1. TransformMapping(Tables.funcInterfaceBase[0], 0) = NotMapped
      BY <1>4, ZeroLeadsNowhere
    <3>2. ~(n > MaxInterfaces) /\ MaxFunctions # 1
      BY <1>1, <1>6, <2>2
    <3> QED
      BY <1>6, <2>2, <3>1, <3>2 DEF ToLogicalInterface
  <2>3. CASE n > MaxInterfaces
    <3>1. n # MaxInterfaces /\ MaxFunctions # 1
      BY <1>1, <1>6, <2>3
    <3> QED
      BY <2>3, <3>1 DEF ToLogicalInterface
  <2> QED
    BY <1>1, <2>1, <2>2, <2>3
<1> QED
  BY <1>5, <1>6

LEMMA InterfacesLead ==
    ASSUME AllocInv, FewInterfaces, ConfigChecks, stage = "built"
    PROVE  InterfacesLeadBack
<1> DEFINE p == Len(physical)
<1>1. /\ p \in Nat /\ p <= MaxInterfaces /\ MaxFunctions \in 1..15
      /\ MaxInterfaces \in Nat \ {0}
  BY MapperAssumption, LenProperties DEF AllocInv, InterfacesInv, ConfigChecks
<1>2. ASSUME NEW n \in 0..(p - 1) PROVE ToLogicalInterface(n, Tables).present
  <2>1. n \in Nat /\ n < p /\ ~(n > MaxInterfaces)
    BY <1>1
  <2>2. CASE MaxFunctions = 1
    BY <2>1, <2>2 DEF ToLogicalInterface, Mapped
  <2>3. CASE MaxFunctions > 1
    BY <2>1, <2>3, InterfaceLeads DEF Mapped
  <2> QED
    BY <1>1, <2>2, <2>3
<1>3. ASSUME MaxFunctions > 1, NEW n \in 0..255, ToLogicalInterface(n, Tables).present
      PROVE  /\ n < p
             /\ bases[ToLogicalInterface(n, Tables).fn + 1]
                    + ToLogicalInterface(n, Tables).value = n
  <2>1. n \in Nat
    OBVIOUS
  <2>2. n < p
    BY <1>3, <2>1, InterfaceLeads DEF NotMapped
  <2>3. n + 1 \in 1..p /\ (n + 1) - 1 = n
    BY <1>1, <2>1, <2>2
  <2>4. bases[physical[n + 1].fn + 1] + physical[n + 1].logical = n
    BY <2>3 DEF AllocInv, InterfacesInv
  <2>5. ToLogicalInterface(n, Tables) = Mapped(physical[n + 1].fn, physical[n + 1].logical)
    BY <1>3, <2>1, <2>2, InterfaceLeads
  <2> QED
    BY <2>2, <2>4, <2>5 DEF Mapped
<1> QED
  BY <1>2, <1>3 DEF InterfacesLeadBack

\* What the compiler generates is a bidirectional mapping (static-config.hpp:78):
\* of all a device that builds can be asked, each endpoint leads to its function
\* and back, and nothing else leads anywhere; so does each interface, provided
\* that no function has more than sixteen of them, which the build does not check.
THEOREM AllocRoundTrip == AllocSpec => []RoundTrip
<1>1. AllocInv => RoundTrip
  <2> SUFFICES ASSUME AllocInv, stage = "built"
               PROVE  EndpointsLeadBack /\ (FewInterfaces => InterfacesLeadBack)
    BY DEF RoundTrip
  <2>1. Printable /\ ConfigChecks
    BY DEF AllocInv
  <2>2. EndpointsLeadBack
    BY <2>1, EndpointReached, NoOtherReached DEF EndpointsLeadBack
  <2>3. FewInterfaces => InterfacesLeadBack
    BY <2>1, InterfacesLead
  <2> QED
    BY <2>2, <2>3
<1> QED
  BY <1>1, AllocInvariant, PTL

-----------------------------------------------------------------------------
(* The device's tables.                                                    *)

LEMMA ByteEntry ==
    ASSUME NEW f \in Functions, NEW l \in 0..15
    PROVE  TableEntry(f, l) \in Byte
BY EntryIs DEF Byte

LEMMA BuiltTables ==
    ASSUME AllocInv, stage = "built"
    PROVE  Tables \in Mapping
<1>1. Printable /\ FitByte /\ ConfigChecks
  BY DEF AllocInv
<1>2. ASSUME NEW d \in InOut
      PROVE  EndpointTable(d, Room(d)) \in [0..(Room(d) - 1) -> Byte]
  <2>1. ASSUME NEW i \in 0..(Room(d) - 1) PROVE EndpointTable(d, Room(d))[i] \in Byte
    <3>1. CASE InUse(d, i)
      <4>1. slots[d][i].fn \in Functions
        BY <3>1 DEF InUse, AllocInv, SlotsInv
      <4>2. slots[d][i].logical \in DOMAIN functions[slots[d][i].fn]
        BY <3>1 DEF InUse, AllocInv, PlacesInv
      <4>3. slots[d][i].logical \in 0..15
        BY <1>1, <4>1, <4>2, LogicalFits
      <4> QED
        BY <1>1, <3>1, <4>1, <4>3, TableIs, ByteEntry
    <3>2. CASE ~InUse(d, i)
      BY <1>1, <3>2, TableIs DEF Byte
    <3> QED
      BY <3>1, <3>2
  <2> QED
    BY <2>1 DEF EndpointTable
<1>3. /\ EndpointTable("in", MaxIn) \in [0..(MaxIn - 1) -> Byte]
      /\ EndpointTable("out", MaxOut) \in [0..(MaxOut - 1) -> Byte]
  <2>1. "in" \in InOut /\ "out" \in InOut /\ Room("in") = MaxIn /\ Room("out") = MaxOut
    BY DEF InOut, Room
  <2> QED
    BY <1>2, <2>1
<1>4. ASSUME NEW f \in Functions, NEW l \in DOMAIN functions[f]
      PROVE  EndpointAddress(functions[f][l]) \in Byte
  <2>1. EndpointAddress(functions[f][l]) \in Opened
    BY <1>1, EndpointReached
  <2> QED
    BY <1>1, <2>1, OpenedAddresses DEF Byte
<1>5. ASSUME NEW n \in 1..Len(physical)
      PROVE  TableEntry(physical[n].fn, physical[n].logical) \in Byte
  BY <1>1 DEF FitByte
<1>6. ASSUME NEW n \in 0..(MaxInterfaces - 1), n < Len(physical) PROVE n + 1 \in 1..Len(physical)
  <2>1. Len(physical) \in Nat
    BY LenProperties DEF AllocInv, InterfacesInv
  <2> QED
    BY <1>6, <2>1
<1>7. ASSUME NEW f \in Functions PROVE bases[f + 1] \in Byte
  <2>1. f + 1 \in 1..MaxFunctions /\ Len(bases) = MaxFunctions
    BY MapperAssumption DEF Functions, AllocInv, InterfacesInv
  <2> QED
    BY <1>1, <2>1 DEF FitByte
<1>8. 0 \in Byte
  BY DEF Byte
<1>9. Tables.funcEndpoints \in [Functions -> [0..(MaxFuncEndpoints - 1) -> Byte]]
  BY <1>4, <1>8 DEF Tables
<1>10. Tables.interfaces \in [0..(MaxInterfaces - 1) -> Byte]
  BY <1>5, <1>6, <1>8 DEF Tables
<1>11. Tables.funcInterfaceBase \in [Functions -> Byte]
  BY <1>7 DEF Tables
<1> QED
  BY <1>3, <1>9, <1>10, <1>11 DEF Tables, Mapping

LEMMA TablesLeadBack ==
    ASSUME AllocInv, FewInterfaces, stage = "built"
    PROVE  LeadsBack(Tables, Opened)
<1>1. Printable /\ ConfigChecks
  BY DEF AllocInv
<1>2. ASSUME NEW a \in (0..15) \cup (128..143)
      PROVE  LET to == ToLogicalEndpoint(a, Tables)
             IN  /\ to.present = (a \in Opened)
                 /\ to.present => /\ to.fn \in Functions /\ EpNum(to.value) \in Logicals
                                  /\ ToPhysicalEndpoint(to.fn, EpNum(to.value), Tables) = a
  <2> DEFINE to == ToLogicalEndpoint(a, Tables)
  <2>1. to.present = (a \in Opened)
    BY <1>1, NoOtherReached
  <2>2. ASSUME to.present
        PROVE  /\ to.fn \in Functions /\ EpNum(to.value) \in Logicals
               /\ ToPhysicalEndpoint(to.fn, EpNum(to.value), Tables) = a
    <3>1. PICK d \in InOut : \E i \in DOMAIN slots[d] :
              slots[d][i].status = "data" /\ a = EndpointAddress(Place(d, i))
      BY <2>1, <2>2 DEF Opened, Place
    <3>2. PICK i \in DOMAIN slots[d] :
              slots[d][i].status = "data" /\ a = EndpointAddress(Place(d, i))
      BY <3>1
    <3> DEFINE f == slots[d][i].fn
               l == slots[d][i].logical
    <3>3. f \in Functions
      BY <3>2 DEF AllocInv, SlotsInv
    <3>4. l \in DOMAIN functions[f] /\ functions[f][l] = Place(d, i)
      BY <3>2 DEF AllocInv, PlacesInv
    <3> HIDE DEF f, l
    <3>5. /\ ToPhysicalEndpoint(f, l, Tables) = a
          /\ to.fn = f /\ EpNum(to.value) = l
      BY <1>1, <3>2, <3>3, <3>4, EndpointReached
    <3>6. l \in Logicals
      BY <1>1, <3>3, <3>4, LogicalFits DEF Logicals
    <3> QED
      BY <3>3, <3>5, <3>6
  <2> QED
    BY <2>1, <2>2
<1>3. ASSUME NEW f \in Functions, NEW l \in Logicals, ToPhysicalEndpoint(f, l, Tables) # 0
      PROVE  LET a  == ToPhysicalEndpoint(f, l, Tables)
                 to == ToLogicalEndpoint(a, Tables)
             IN  a \in Opened /\ to.fn = f /\ EpNum(to.value) = l
  <2>1. ToPhysicalEndpoint(f, l, Tables)
            = IF l \in DOMAIN functions[f] THEN EndpointAddress(functions[f][l]) ELSE 0
    <3>1. l \in 0..(MaxFuncEndpoints - 1) /\ ~(l >= MaxFuncEndpoints)
      BY MapperAssumption DEF Logicals
    <3> QED
      BY <3>1 DEF ToPhysicalEndpoint, Tables
  <2>2. l \in DOMAIN functions[f]
    BY <1>3, <2>1
  <2> QED
    BY <1>1, <2>1, <2>2, EndpointReached
<1>4. ASSUME NEW n \in 0..MaxInterfaces, ToLogicalInterface(n, Tables).present
      PROVE  ToLogicalInterface(n, Tables).fn \in Functions
  <2>1. n \in Nat /\ ~(n > MaxInterfaces) /\ MaxFunctions \in 1..15
    BY MapperAssumption
  <2>2. CASE MaxFunctions = 1
    <3>1. ToLogicalInterface(n, Tables) = Mapped(0, n) /\ 0 \in Functions
      BY <2>1, <2>2 DEF ToLogicalInterface, Functions
    <3> QED
      BY <3>1 DEF Mapped
  <2>3. CASE MaxFunctions > 1
    <3>1. n < Len(physical)
      BY <1>1, <1>4, <2>1, <2>3, InterfaceLeads DEF NotMapped
    <3>2. ToLogicalInterface(n, Tables) = Mapped(physical[n + 1].fn, physical[n + 1].logical)
      BY <1>1, <2>1, <2>3, <3>1, InterfaceLeads
    <3>3. physical \in Seq([fn : Functions, logical : Nat]) /\ Len(physical) \in Nat
      BY LenProperties DEF AllocInv, InterfacesInv
    <3>4. n + 1 \in 1..Len(physical)
      BY <2>1, <3>1, <3>3
    <3>5. physical[n + 1] \in [fn : Functions, logical : Nat]
      BY <3>3, <3>4, ElementOfSeq
    <3> QED
      BY <3>2, <3>5 DEF Mapped
  <2> QED
    BY <2>1, <2>2, <2>3
<1> QED
  BY <1>2, <1>3, <1>4, Zenon DEF LeadsBack

\* What the device assumes of its tables (UsbDevice, DeviceAssumption) the compiler
\* gives it: every entry fits its byte, what configureDevice() opens are data
\* endpoints, and these lead to the functions and back - that interfaces lead to
\* functions, unless a function has more than sixteen.
THEOREM AllocServesDevice ==
    AllocSpec => [](stage = "built" =>
        /\ Tables \in Mapping
        /\ Opened \subseteq (1..15) \cup (129..143)
        /\ FewInterfaces => LeadsBack(Tables, Opened))
<1>1. AllocInv /\ stage = "built" =>
          /\ Tables \in Mapping
          /\ Opened \subseteq (1..15) \cup (129..143)
          /\ FewInterfaces => LeadsBack(Tables, Opened)
  BY BuiltTables, OpenedAddresses, TablesLeadBack DEF AllocInv
<1> QED
  BY <1>1, AllocInvariant, PTL

================================================================================
