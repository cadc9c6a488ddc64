---------------------------- MODULE FleetProofs ----------------------------
(* The ports and the size of the fleet, and who is at work on it, for every pool size and *)
(* however many resizes, and goroutines.                                                *)
EXTENDS Fleet, FiniteSetTheorems, WellFoundedInduction, TLAPS

-----------------------------------------------------------------------------
(* Ports and indexes.                                                       *)

\* Indexes below the block have ports of their own.
LEMMA PortsOfIndexes ==
  ASSUME NEW i \in Nat, NEW j \in Nat, i < instancePortBlock, j < instancePortBlock, i # j
  PROVE  Ports(i) \cap Ports(j) = {}
  BY FleetAssumption DEF Ports, InstanceSocksPort, InstanceControlPort

\* A set of numbers has a least one.
LEMMA LeastNumber ==
  ASSUME NEW S \in SUBSET Nat, S # {}
  PROVE  \E i \in S : \A k \in S : i <= k
<1>1. \E i \in S : \A k \in S : ~ (k < i)
  <2>1. \E i \in S : \A k \in S : ~ (<<k, i>> \in OpToRel(<, Nat))
    BY NatLessThanWellFounded, WFMin, Zenon
  <2> QED
    BY <2>1, Zenon DEF OpToRel
<1>2. PICK i \in S : \A k \in S : ~ (k < i)
  BY <1>1
<1>3. \A k \in S : i <= k
  BY <1>2
<1> QED
  BY <1>3

\* As many as there are instances, no more, are taken.
LEMMA TakenBound ==
  ASSUME IsFiniteSet(instances)
  PROVE  IsFiniteSet(Taken) /\ Cardinality(Taken) <= Cardinality(instances)
<1> DEFINE f == [n \in instances |-> index[n]]
<1>1. f \in Surjection(instances, Taken)
  BY DEF Taken, Surjection
<1> QED
  BY <1>1, FS_Surjection

\* There is a free index, and no more below the lowest than there are instances.
LEMMA FreeIndexIsLow ==
  ASSUME IsFiniteSet(instances), Cardinality(instances) <= MaxMade
  PROVE  /\ FreeIndex \in Nat
         /\ FreeIndex <= Cardinality(instances)
         /\ FreeIndex \notin Taken
<1> DEFINE c == Cardinality(instances)
           S == {i \in 0..c : Free(i)}
<1>1. c \in Nat /\ MaxMade \in Nat /\ c <= MaxMade
  BY FS_CardinalityType, FleetAssumption
<1>2. S # {}
  <2> SUFFICES ASSUME S = {}
               PROVE  FALSE
    OBVIOUS
  <2>1. 0..c \subseteq Taken
    BY DEF Free
  <2>2. Cardinality(0..c) = c + 1
    BY <1>1, FS_Interval
  <2>3. IsFiniteSet(Taken) /\ Cardinality(Taken) <= c
    BY TakenBound
  <2>4. Cardinality(0..c) <= Cardinality(Taken)
    BY <2>1, <2>3, FS_Subset
  <2>5. Cardinality(Taken) \in Nat
    BY <2>3, FS_CardinalityType
  <2> QED
    BY <1>1, <2>2, <2>3, <2>4, <2>5
<1>3. PICK i \in S : \A k \in S : i <= k
  <2>1. S \in SUBSET Nat
    BY <1>1
  <2> HIDE DEF S
  <2> QED
    BY <1>2, <2>1, LeastNumber
<1> DEFINE Lowest(j) == Free(j) /\ \A k \in 0..(j - 1) : ~Free(k)
<1>4. i \in Index /\ Lowest(i)
  BY <1>1, <1>3 DEF Index
<1>5. FreeIndex \in Index /\ Lowest(FreeIndex)
  BY <1>4 DEF FreeIndex
<1>6. FreeIndex <= i
  <2>1. CASE FreeIndex > i
    <3>1. i \in 0..(FreeIndex - 1)
      BY <1>1, <1>4, <1>5, <2>1 DEF Index
    <3> QED
      BY <1>4, <1>5, <3>1
  <2> QED
    BY <1>1, <1>4, <1>5, <2>1 DEF Index
<1> QED
  BY <1>1, <1>3, <1>5, <1>6 DEF Index, Free

-----------------------------------------------------------------------------
(* The invariant.                                                           *)

Resizing ==
  [pc : {"idle", "grow", "list", "remove", "stop", "forget"}, size : Nat, left : Nat,
   todo : SUBSET Made, inst : Made \cup {None}, sole : BOOLEAN]

FleetType ==
  /\ made \in 0..MaxMade
  /\ index \in [Made -> Nat]
  /\ instances \subseteq 1..made
  /\ collided \in BOOLEAN
  /\ resizer \in [Resizer -> Resizing]
  /\ \A r \in Resizer : resizer[r].pc = "grow" => resizer[r].left >= 1

IndexesDiffer == \A m, n \in instances : index[m] = index[n] => m = n

\* An index the port layout has room for.
Fits(i) == i < instancePortBlock /\ InstanceControlPort(i) <= 65535

OneAtATime ==
  \A q, r \in Resizer : resizer[q].pc # "idle" /\ resizer[r].pc # "idle" => q = r

\* Who grows the fleet has as many to add as are missing from a valid size.
GrowsToSize ==
  \A r \in Resizer :
    resizer[r].pc = "grow" =>
      /\ resizer[r].left >= 1
      /\ Cardinality(instances) + resizer[r].left = resizer[r].size
      /\ ValidatePoolSize(resizer[r].size)

AllFit == \A n \in instances : Fits(index[n])

InTurn == OneAtATime /\ GrowsToSize /\ AllFit

FleetInv == FleetType /\ IndexesDiffer /\ (~collided => InTurn)

LEMMA FleetIsFinite ==
  ASSUME FleetType
  PROVE  /\ IsFiniteSet(instances)
         /\ Cardinality(instances) \in Nat
         /\ Cardinality(instances) <= made
<1>1. made \in Nat /\ instances \in SUBSET (1..made)
  BY FleetAssumption DEF FleetType
<1>2. IsFiniteSet(1..made) /\ Cardinality(1..made) = made
  BY <1>1, FS_Interval
<1> QED
  BY <1>1, <1>2, FS_Subset, FS_CardinalityType

LEMMA IdleType == Idle \in Resizing
  BY DEF Idle, Resizing

LEMMA InitInv == Init => FleetInv
<1> SUFFICES ASSUME Init
             PROVE  FleetInv
  OBVIOUS
<1>1. /\ made = 0 /\ index = [n \in Made |-> 0] /\ instances = {} /\ collided = FALSE
  BY DEF Init
<1>2. PICK first \in Resizer : resizer = [r \in Resizer |->
        IF r = first THEN [Idle EXCEPT !.pc = "grow", !.size = PoolSize, !.left = PoolSize]
                     ELSE Idle]
  BY DEF Init
<1>3. \A r \in Resizer : resizer[r].pc = IF r = first THEN "grow" ELSE "idle"
  BY <1>2 DEF Idle
<1>4. resizer[first].size = PoolSize /\ resizer[first].left = PoolSize
  BY <1>2 DEF Idle
<1>5. FleetType
  <2>1. Idle \in Resizing
    BY IdleType
  <2>2. [Idle EXCEPT !.pc = "grow", !.size = PoolSize, !.left = PoolSize] \in Resizing
    <3>1. PoolSize \in Nat
      BY PoolSizeAssumption
    <3> QED
      BY <2>1, <3>1, Zenon DEF Resizing
  <2>3. resizer \in [Resizer -> Resizing]
    BY <1>2, <2>1, <2>2
  <2>4. collided \in BOOLEAN
    BY <1>1
  <2> QED
    BY <1>1, <1>3, <1>4, <2>3, <2>4, FleetAssumption, PoolSizeAssumption DEF FleetType
<1>6. OneAtATime
  BY <1>3 DEF OneAtATime
<1>7. GrowsToSize
  <2>1. ValidatePoolSize(PoolSize)
    BY PoolSizeAssumption, FleetAssumption DEF ValidatePoolSize, InstanceControlPort
  <2>2. PoolSize >= 1 /\ Cardinality(instances) = 0
    BY <1>1, PoolSizeAssumption, FS_EmptySet
  <2>3. \A r \in Resizer : resizer[r].pc = "grow" => r = first
    BY <1>3
  <2> QED
    BY <1>4, <2>1, <2>2, <2>3, PoolSizeAssumption DEF GrowsToSize
<1> QED
  BY <1>1, <1>5, <1>6, <1>7 DEF FleetInv, IndexesDiffer, InTurn, AllFit

-----------------------------------------------------------------------------
(* The steps.                                                               *)

\* Steps of those who hold an instance change nothing here.
LEMMA HeldStep ==
  ASSUME FleetInv, UNCHANGED <<made, index, instances, resizer, collided>>
  PROVE  FleetInv'
<1>1. FleetType' /\ IndexesDiffer'
  BY DEF FleetInv, FleetType, IndexesDiffer
<1>2. ~collided => InTurn'
  BY DEF FleetInv, InTurn, OneAtATime, GrowsToSize, AllFit, Fits, InstanceControlPort,
         ValidatePoolSize
<1> QED
  BY <1>1, <1>2 DEF FleetInv

\* Steps of a resizer that neither change the fleet nor go on to grow it.
LEMMA LeavesFleet ==
  ASSUME FleetInv, NEW r \in Resizer,
         NEW f \in Resizing,
         Becomes(r, f),
         resizer[r].pc # "idle", f.pc # "grow",
         UNCHANGED <<made, index, instances, collided>>
  PROVE  FleetInv'
<1>1. /\ resizer'[r] = f
      /\ \A q \in Resizer \ {r} : resizer'[q] = resizer[q]
  BY DEF FleetInv, FleetType, Becomes
<1>2. FleetType' /\ IndexesDiffer'
  BY DEF FleetInv, FleetType, IndexesDiffer, Becomes
<1>3. ASSUME InTurn
      PROVE  InTurn'
  <2>1. OneAtATime'
    BY <1>1, <1>3 DEF InTurn, OneAtATime
  <2>2. GrowsToSize'
    BY <1>1, <1>3 DEF InTurn, GrowsToSize, ValidatePoolSize, InstanceControlPort
  <2>3. AllFit'
    BY <1>3 DEF InTurn, AllFit, Fits, InstanceControlPort
  <2> QED
    BY <2>1, <2>2, <2>3 DEF InTurn
<1> QED
  BY <1>2, <1>3 DEF FleetInv

LEMMA ResizeStep ==
  ASSUME FleetInv, NEW r \in Resizer, NEW size \in Sizes, Resize(r, size)
  PROVE  FleetInv'
<1> DEFINE others == {q \in Resizer : resizer[q].pc # "idle"}
           begun == [Idle EXCEPT !.size = size, !.sole = others = {}]
           f == IF size > Size THEN [begun EXCEPT !.pc = "grow", !.left = size - Size]
                               ELSE [begun EXCEPT !.pc = "list"]
<1>1. /\ resizer' = [q \in Resizer |->
           IF q = r THEN f
           ELSE IF q \in others THEN [resizer[q] EXCEPT !.sole = FALSE]
           ELSE resizer[q]]
      /\ collided' = (collided \/ others # {})
      /\ UNCHANGED <<made, index, instances>>
      /\ ValidatePoolSize(size)
  BY DEF Resize, fleet
<1>2. size \in Nat /\ Size \in Nat
  BY FleetAssumption, FleetIsFinite DEF FleetInv, Size
<1>3. f \in Resizing
  <2>1. begun \in Resizing
    BY <1>2, IdleType, Zenon DEF Resizing
  <2>2. CASE size > Size
    <3>1. size - Size \in Nat
      BY <1>2, <2>2
    <3> QED
      BY <2>1, <2>2, <3>1, Zenon DEF Resizing
  <2>3. CASE ~(size > Size)
    BY <2>1, <2>3, Zenon DEF Resizing
  <2> QED
    BY <2>2, <2>3
<1>4. FleetType' /\ IndexesDiffer'
  <2>1. f.pc = "grow" => f.left >= 1
    <3>1. f.pc = "grow" => size > Size /\ f.left = size - Size
      BY DEF Idle
    <3> QED
      BY <1>2, <3>1
  <2> HIDE DEF f
  <2>2. ASSUME NEW q \in Resizer
        PROVE  /\ resizer'[q] \in Resizing
               /\ resizer'[q].pc = "grow" => resizer'[q].left >= 1
    <3>1. resizer[q] \in Resizing /\ (resizer[q].pc = "grow" => resizer[q].left >= 1)
      BY DEF FleetInv, FleetType
    <3> DEFINE g == [resizer[q] EXCEPT !.sole = FALSE]
    <3>2. g \in Resizing
      BY <3>1, Zenon DEF Resizing
    <3>3. g.pc = resizer[q].pc /\ g.left = resizer[q].left
      BY <3>1 DEF Resizing
    <3>4. resizer'[q] \in {f, g, resizer[q]}
      BY <1>1
    <3> HIDE DEF g
    <3> QED
      BY <1>3, <2>1, <3>1, <3>2, <3>3, <3>4
  <2>3. resizer' \in [Resizer -> Resizing]
    BY <1>1, <2>2
  <2>4. collided' \in BOOLEAN
    BY <1>1, Zenon
  <2> QED
    BY <1>1, <2>2, <2>3, <2>4 DEF FleetInv, FleetType, IndexesDiffer
<1>5. ASSUME InTurn, others = {}
      PROVE  InTurn'
  <2>1. \A q \in Resizer \ {r} : resizer'[q].pc = "idle"
    BY <1>1, <1>5
  <2>2. resizer'[r] = f
    BY <1>1
  <2>3. f.size = size
    BY DEF Idle
  <2>4. f.pc = "grow" => size > Size /\ f.left = size - Size
    BY DEF Idle
  <2> HIDE DEF f
  <2>5. OneAtATime'
    BY <2>1 DEF OneAtATime
  <2>6. GrowsToSize'
    BY <1>1, <1>2, <2>1, <2>2, <2>3, <2>4
    DEF GrowsToSize, ValidatePoolSize, InstanceControlPort, Size
  <2>7. AllFit'
    BY <1>1, <1>5 DEF InTurn, AllFit, Fits, InstanceControlPort
  <2> QED
    BY <2>5, <2>6, <2>7 DEF InTurn
<1>6. ~collided' => InTurn /\ others = {}
  <2>1. ~collided' => ~collided /\ others = {}
    BY <1>1, Zenon
  <2> QED
    BY <2>1 DEF FleetInv
<1> QED
  BY <1>4, <1>5, <1>6 DEF FleetInv

LEMMA AddStep ==
  ASSUME FleetInv, NEW r \in Resizer, Add(r)
  PROVE  FleetInv'
<1> DEFINE n == made + 1
           c == Cardinality(instances)
           f == IF resizer[r].left = 1 THEN Idle ELSE [resizer[r] EXCEPT !.left = @ - 1]
<1>1. /\ resizer[r].pc = "grow"
      /\ made < MaxMade /\ made' = n
      /\ index' = [index EXCEPT ![n] = FreeIndex]
      /\ instances' = instances \cup {n}
      /\ resizer' = [resizer EXCEPT ![r] = f]
      /\ UNCHANGED collided
  BY DEF Add, Becomes, history
<1>2. FleetType
  BY DEF FleetInv
<1>3. /\ made \in Nat /\ n \in Made /\ n \notin instances
      /\ IsFiniteSet(instances) /\ c \in Nat /\ c <= MaxMade
  BY <1>1, <1>2, FleetAssumption, FleetIsFinite DEF FleetType, Made
<1>4. FreeIndex \in Nat /\ FreeIndex <= c /\ FreeIndex \notin Taken
  BY <1>3, FreeIndexIsLow
<1>5. /\ index'[n] = FreeIndex
      /\ \A m \in instances : index'[m] = index[m] /\ index[m] # FreeIndex
  BY <1>1, <1>2, <1>3, <1>4 DEF FleetType, Taken, Made
<1>6. /\ resizer'[r] = f
      /\ \A q \in Resizer \ {r} : resizer'[q] = resizer[q]
  BY <1>1, <1>2 DEF FleetType
<1>7. ASSUME InTurn
      PROVE  /\ resizer[r].left \in Nat /\ resizer[r].left >= 1 /\ resizer[r].size \in Nat
             /\ c + resizer[r].left = resizer[r].size
             /\ ValidatePoolSize(resizer[r].size)
             /\ \A q \in Resizer \ {r} : resizer[q].pc = "idle"
  <2>1. resizer[r] \in Resizing
    BY <1>2 DEF FleetType
  <2>2. resizer[r].left \in Nat /\ resizer[r].size \in Nat
    BY <2>1 DEF Resizing
  <2>3. \A q \in Resizer \ {r} : resizer[q].pc = "idle"
    BY <1>1, <1>7 DEF InTurn, OneAtATime
  <2> QED
    BY <1>1, <1>7, <2>2, <2>3 DEF InTurn, GrowsToSize
<1>8. f \in Resizing /\ (f.pc = "grow" => f.left >= 1)
  <2>1. resizer[r] \in Resizing /\ resizer[r].left \in Nat /\ resizer[r].left >= 1
    BY <1>1, <1>2 DEF FleetType, Resizing
  <2>2. CASE resizer[r].left = 1
    BY <2>2, IdleType DEF Idle
  <2>3. CASE resizer[r].left # 1
    <3>1. resizer[r].left - 1 \in Nat /\ resizer[r].left - 1 >= 1
      BY <2>1, <2>3
    <3>2. f \in Resizing /\ f.left = resizer[r].left - 1 /\ f.pc = "grow"
      BY <1>1, <2>1, <2>3, <3>1, Zenon DEF Resizing
    <3> QED
      BY <3>1, <3>2
  <2> QED
    BY <2>2, <2>3
<1> HIDE DEF f
<1>9. FleetType' /\ IndexesDiffer'
  <2>1. index' \in [Made -> Nat]
    BY <1>1, <1>2, <1>4 DEF FleetType
  <2>2. resizer' \in [Resizer -> Resizing]
    BY <1>1, <1>2, <1>8 DEF FleetType
  <2>3. \A q \in Resizer : resizer'[q].pc = "grow" => resizer'[q].left >= 1
    BY <1>2, <1>6, <1>8 DEF FleetType
  <2>4. made' \in 0..MaxMade /\ instances' \subseteq 1..made'
    BY <1>1, <1>2, <1>3, FleetAssumption DEF FleetType
  <2>5. IndexesDiffer'
    BY <1>1, <1>3, <1>5 DEF FleetInv, IndexesDiffer
  <2> QED
    BY <1>1, <1>2, <2>1, <2>2, <2>3, <2>4, <2>5 DEF FleetType
<1>10. ASSUME InTurn
       PROVE  InTurn'
  <2>1. OneAtATime'
    BY <1>6, <1>7, <1>10 DEF OneAtATime
  <2>2. GrowsToSize'
    <3>1. Cardinality(instances') = c + 1
      BY <1>1, <1>3, FS_AddElement
    <3>2. ASSUME f.pc = "grow"
          PROVE  f.left = resizer[r].left - 1 /\ f.size = resizer[r].size
      <4>1. resizer[r] \in Resizing
        BY <1>2 DEF FleetType
      <4>2. resizer[r].left # 1
        BY <3>2 DEF f, Idle
      <4> QED
        BY <4>1, <4>2 DEF f, Resizing
    <3>3. \A q \in Resizer : resizer'[q].pc = "grow" => q = r
      BY <1>6, <1>7, <1>10
    <3>4. ASSUME f.pc = "grow"
          PROVE  f.left >= 1 /\ Cardinality(instances') + f.left = f.size
                 /\ ValidatePoolSize(f.size)
      <4>1. f.left >= 1
        BY <1>8, <3>4
      <4>2. Cardinality(instances') + f.left = f.size
        BY <1>3, <1>7, <1>10, <3>1, <3>2, <3>4
      <4> QED
        BY <1>7, <1>10, <3>2, <3>4, <4>1, <4>2
    <3> QED
      BY <1>6, <3>3, <3>4 DEF GrowsToSize, ValidatePoolSize, InstanceControlPort
  <2>3. Fits(FreeIndex)
    <3>1. FreeIndex <= resizer[r].size - 1
      BY <1>3, <1>4, <1>7, <1>10
    <3> QED
      BY <1>4, <1>7, <1>10, <3>1, FleetAssumption
      DEF Fits, ValidatePoolSize, InstanceControlPort
  <2>4. AllFit'
    BY <1>1, <1>5, <1>10, <2>3 DEF InTurn, AllFit, Fits, InstanceControlPort
  <2> QED
    BY <2>1, <2>2, <2>4 DEF InTurn
<1> QED
  BY <1>1, <1>9, <1>10 DEF FleetInv

LEMMA RemoveStep ==
  ASSUME FleetInv, NEW r \in Resizer, Remove(r)
  PROVE  FleetInv'
<1>1. /\ resizer[r].pc = "remove"
      /\ resizer[r] \in Resizing
      /\ UNCHANGED <<made, index, collided>>
      /\ FleetType
  BY DEF Remove, history, FleetInv, FleetType
<1>2. PICK n \in resizer[r].todo :
        \/ Becomes(r, Idle) /\ UNCHANGED instances
        \/ \E m \in Get(index[n]) :
             /\ instances' = instances \ {m}
             /\ Becomes(r, [resizer[r] EXCEPT !.pc = "stop", !.inst = m, !.todo = @ \ {n}])
  BY DEF Remove
<1>3. CASE Becomes(r, Idle) /\ UNCHANGED instances
  <2>1. Idle.pc = "idle"
    BY DEF Idle
  <2> QED
    BY <1>1, <1>3, <2>1, IdleType, LeavesFleet
<1>4. ASSUME NEW m \in Get(index[n]),
             instances' = instances \ {m},
             Becomes(r, [resizer[r] EXCEPT !.pc = "stop", !.inst = m, !.todo = @ \ {n}])
      PROVE  FleetInv'
  <2> DEFINE f == [resizer[r] EXCEPT !.pc = "stop", !.inst = m, !.todo = @ \ {n}]
  <2>1. m \in instances /\ m \in Made
    BY <1>1, <1>4, FleetAssumption DEF Get, FleetType, Made
  <2>2. f \in Resizing /\ f.pc = "stop"
    <3>1. resizer[r].todo \ {n} \in SUBSET Made
      BY <1>1 DEF Resizing
    <3> QED
      BY <1>1, <2>1, <3>1, Zenon DEF Resizing
  <2> HIDE DEF f
  <2>3. /\ resizer' = [resizer EXCEPT ![r] = f]
        /\ resizer'[r] = f
        /\ \A q \in Resizer \ {r} : resizer'[q] = resizer[q]
    BY <1>1, <1>4 DEF FleetType, Becomes, f
  <2>4. FleetType'
    BY <1>1, <1>4, <2>2, <2>3 DEF FleetType
  <2>5. IndexesDiffer'
    BY <1>1, <1>4 DEF FleetInv, IndexesDiffer
  <2>6. ASSUME InTurn
        PROVE  InTurn'
    <3>1. \A q \in Resizer \ {r} : resizer[q].pc = "idle"
      BY <1>1, <2>6 DEF InTurn, OneAtATime
    <3>2. OneAtATime'
      BY <2>3, <3>1 DEF OneAtATime
    <3>3. GrowsToSize'
      BY <2>2, <2>3, <3>1 DEF GrowsToSize
    <3>4. AllFit'
      BY <1>1, <1>4, <2>6 DEF InTurn, AllFit, Fits, InstanceControlPort
    <3> QED
      BY <3>2, <3>3, <3>4 DEF InTurn
  <2> QED
    BY <1>1, <2>4, <2>5, <2>6 DEF FleetInv
<1> QED
  BY <1>2, <1>3, <1>4

\* List, Removed, StopRemoved and Forget: resizer r goes on with the same fleet.
LEMMA QuietResizer ==
  ASSUME FleetInv, NEW r \in Resizer, List(r) \/ Removed(r) \/ StopRemoved(r) \/ Forget(r)
  PROVE  FleetInv'
<1>1. /\ resizer[r].pc \in {"list", "remove", "stop", "forget"}
      /\ resizer[r] \in Resizing
      /\ UNCHANGED <<made, index, instances, collided>>
  BY DEF List, Removed, StopRemoved, Forget, fleet, history, FleetInv, FleetType
<1>2. \E f \in Resizing : Becomes(r, f) /\ f.pc # "grow"
  <2>1. CASE Becomes(r, Idle)
    BY <2>1, IdleType DEF Idle
  <2>2. CASE Becomes(r, [resizer[r] EXCEPT !.pc = "remove", !.todo = Surplus(resizer[r].size)])
    <3> DEFINE f == [resizer[r] EXCEPT !.pc = "remove", !.todo = Surplus(resizer[r].size)]
    <3>1. Surplus(resizer[r].size) \in SUBSET Made
      <4>1. instances \subseteq Made
        BY FleetAssumption DEF FleetInv, FleetType, Made
      <4> QED
        BY <4>1, Zenon DEF Surplus
    <3>2. f \in Resizing /\ f.pc = "remove"
      BY <1>1, <3>1, Zenon DEF Resizing
    <3> QED
      BY <2>2, <3>2
  <2>3. CASE Becomes(r, [resizer[r] EXCEPT !.pc = "forget"])
    <3> DEFINE f == [resizer[r] EXCEPT !.pc = "forget"]
    <3>1. f \in Resizing /\ f.pc = "forget"
      BY <1>1, Zenon DEF Resizing
    <3> QED
      BY <2>3, <3>1
  <2>4. CASE Becomes(r, [resizer[r] EXCEPT !.pc = "remove", !.inst = None])
    <3> DEFINE f == [resizer[r] EXCEPT !.pc = "remove", !.inst = None]
    <3>1. f \in Resizing /\ f.pc = "remove"
      BY <1>1, Zenon DEF Resizing
    <3> QED
      BY <2>4, <3>1
  <2> QED
    BY <2>1, <2>2, <2>3, <2>4 DEF List, Removed, StopRemoved, Forget
<1> QED
  BY <1>1, <1>2, LeavesFleet

LEMMA HoldersStep ==
  ASSUME FleetInv,
         \/ \E n \in 1..made : Launch(n) \/ Crash(n)
         \/ \E w \in Worker : \/ StartRemediation(w) \/ LookUp(w) \/ Begin(w) \/ Finds(w)
                             \/ Claim(w) \/ Mark(w) \/ StopHeld(w) \/ Relaunch(w) \/ End(w)
  PROVE  FleetInv'
<1>1. UNCHANGED <<made, index, instances, resizer, collided>>
  BY DEF Launch, Crash, StartRemediation, LookUp, Begin, Finds, Claim, Mark, StopHeld, Relaunch,
         End, fleet, history
<1> QED
  BY <1>1, HeldStep

LEMMA FleetStep == FleetInv /\ [Next]_vars => FleetInv'
<1> SUFFICES ASSUME FleetInv, [Next]_vars
             PROVE  FleetInv'
  OBVIOUS
<1>1. CASE UNCHANGED vars
  BY <1>1, HeldStep DEF vars, fleet, history
<1>2. ASSUME NEW r \in Resizer, NEW size \in Sizes, Resize(r, size)
      PROVE  FleetInv'
  BY <1>2, ResizeStep
<1>3. ASSUME NEW r \in Resizer, Add(r)
      PROVE  FleetInv'
  BY <1>3, AddStep
<1>4. ASSUME NEW r \in Resizer, Remove(r)
      PROVE  FleetInv'
  BY <1>4, RemoveStep
<1>5. ASSUME NEW r \in Resizer, List(r) \/ Removed(r) \/ StopRemoved(r) \/ Forget(r)
      PROVE  FleetInv'
  BY <1>5, QuietResizer
<1> QED
  BY <1>1, <1>2, <1>3, <1>4, <1>5, HoldersStep DEF Next

LEMMA FleetInvHolds == Spec => []FleetInv
  BY InitInv, FleetStep, PTL DEF Spec

-----------------------------------------------------------------------------

\* fleet.go:145-164, remediate.go:500-505: whatever the sizes asked for, as long as resizes
\* take turns, no instance of the fleet has a port of another, nor one above 65535.
THEOREM PortsAreAlwaysDistinct == Spec => []PortsAreDistinct
<1>1. FleetInv => PortsAreDistinct
  <2> SUFFICES ASSUME FleetInv, ~collided
               PROVE  /\ \A n \in instances : \A p \in Ports(index[n]) : p <= 65535
                      /\ \A m, n \in instances :
                           m # n => Ports(index[m]) \cap Ports(index[n]) = {}
    BY DEF PortsAreDistinct
  <2>1. \A n \in instances : index[n] \in Nat /\ Fits(index[n])
    BY FleetAssumption DEF FleetInv, FleetType, InTurn, AllFit, Made
  <2>2. \A n \in instances : \A p \in Ports(index[n]) : p <= 65535
    BY <2>1, FleetAssumption DEF Fits, Ports, InstanceSocksPort, InstanceControlPort
  <2>3. \A m, n \in instances : m # n => Ports(index[m]) \cap Ports(index[n]) = {}
    BY <2>1, PortsOfIndexes DEF FleetInv, IndexesDiffer, Fits
  <2> QED
    BY <2>2, <2>3
<1> QED
  BY <1>1, FleetInvHolds, PTL

-----------------------------------------------------------------------------
(* Resizers that have the fleet to themselves.                              *)

Removing == {"remove", "stop", "forget"}

\* Who has the fleet to itself is alone, and knows how far the fleet is from its size.
OnTarget(r) ==
  /\ \A q \in Resizer \ {r} : resizer[q].pc = "idle"
  /\ resizer[r].pc = "grow" => Cardinality(instances) + resizer[r].left = resizer[r].size
  /\ resizer[r].pc \in Removing =>
       /\ resizer[r].todo \subseteq instances
       /\ Cardinality(instances) = resizer[r].size + Cardinality(resizer[r].todo)

SoleIsOnTarget ==
  \A r \in Resizer : resizer[r].sole /\ resizer[r].pc # "idle" => OnTarget(r)

\* Those of the fleet that come before n.
Before(n) == {m \in instances : index[m] < index[n]}

\* Indexes that differ put the instances in a row.
LEMMA RowOfInstances ==
  ASSUME IsFiniteSet(instances), IndexesDiffer, \A n \in instances : index[n] \in Nat
  PROVE  [n \in instances |-> Cardinality(Before(n))]
           \in Bijection(instances, 0..(Cardinality(instances) - 1))
<1> DEFINE c == Cardinality(instances)
           rank == [n \in instances |-> Cardinality(Before(n))]
<1>1. c \in Nat
  BY FS_CardinalityType
<1>2. ASSUME NEW n \in instances
      PROVE  IsFiniteSet(Before(n)) /\ Cardinality(Before(n)) \in 0..(c - 1)
  <2>1. Before(n) \in SUBSET instances /\ n \notin Before(n)
    BY DEF Before
  <2> HIDE DEF c
  <2>2. IsFiniteSet(Before(n)) /\ Cardinality(Before(n)) <= Cardinality(instances)
        /\ (Cardinality(instances) = Cardinality(Before(n)) => instances = Before(n))
    BY <2>1, FS_Subset
  <2>3. Cardinality(Before(n)) \in Nat
    BY <2>2, FS_CardinalityType
  <2> QED
    BY <1>1, <2>1, <2>2, <2>3 DEF c
<1>3. ASSUME NEW m \in instances, NEW n \in instances, index[m] < index[n]
      PROVE  Cardinality(Before(m)) # Cardinality(Before(n))
  <2>1. Before(m) \in SUBSET Before(n) /\ m \in Before(n) /\ m \notin Before(m)
    BY <1>3 DEF Before
  <2> QED
    BY <1>2, <2>1, FS_Subset
<1>4. rank \in Injection(instances, 0..(c - 1))
  <2>1. rank \in [instances -> 0..(c - 1)]
    BY <1>2
  <2>2. ASSUME NEW m \in instances, NEW n \in instances, m # n
        PROVE  rank[m] # rank[n]
    <3>1. index[m] < index[n] \/ index[n] < index[m]
      BY <2>2 DEF IndexesDiffer
    <3> QED
      BY <1>3, <3>1
  <2> HIDE DEF rank, c
  <2> QED
    BY <2>1, <2>2 DEF Injection, IsInjective
<1>5. IsFiniteSet(0..(c - 1)) /\ Cardinality(0..(c - 1)) = c
  BY <1>1, FS_Interval
<1>6. rank \in Surjection(instances, 0..(c - 1))
  <2> HIDE DEF rank
  <2> QED
    BY <1>4, <1>5, FS_Injection
<1> QED
  BY <1>4, <1>6 DEF Bijection

\* What instances[size:] holds is what is over size.
LEMMA SurplusIsExact ==
  ASSUME IsFiniteSet(instances), IndexesDiffer, \A n \in instances : index[n] \in Nat,
         NEW size \in Nat, size <= Cardinality(instances)
  PROVE  /\ Surplus(size) \subseteq instances
         /\ Cardinality(instances) = size + Cardinality(Surplus(size))
<1> DEFINE c == Cardinality(instances)
           rank == [n \in instances |-> Cardinality(Before(n))]
           T == size..(c - 1)
           back == [n \in Surplus(size) |-> rank[n]]
<1>1. c \in Nat
  BY FS_CardinalityType
<1>2. Surplus(size) = {n \in instances : rank[n] >= size}
  BY DEF Surplus, Before
<1>3. rank \in Bijection(instances, 0..(c - 1))
  BY RowOfInstances
<1> HIDE DEF rank, c
<1>4. /\ rank \in [instances -> 0..(c - 1)]
      /\ \A m, n \in instances : rank[m] = rank[n] => m = n
      /\ \A t \in 0..(c - 1) : \E n \in instances : rank[n] = t
  BY <1>3 DEF Bijection, Injection, Surjection, IsInjective
<1>5. back \in Injection(Surplus(size), T)
  <2>1. \A n \in Surplus(size) : n \in instances /\ rank[n] \in T
    BY <1>1, <1>2, <1>4
  <2>2. back \in [Surplus(size) -> T]
    BY <2>1
  <2>3. \A m, n \in Surplus(size) : back[m] = back[n] => m = n
    BY <1>4, <2>1
  <2> HIDE DEF back, T
  <2> QED
    BY <2>2, <2>3 DEF Injection, IsInjective
<1>6. back \in Surjection(Surplus(size), T)
  <2>1. ASSUME NEW t \in T
        PROVE  \E n \in Surplus(size) : back[n] = t
    <3>1. t \in 0..(c - 1)
      BY <1>1
    <3>2. PICK n \in instances : rank[n] = t
      BY <1>4, <3>1
    <3>3. n \in Surplus(size)
      BY <1>1, <1>2, <3>2
    <3> QED
      BY <3>2, <3>3
  <2>2. back \in [Surplus(size) -> T]
    BY <1>5 DEF Injection
  <2> HIDE DEF back, T
  <2> QED
    BY <2>1, <2>2 DEF Surjection
<1>7. IsFiniteSet(T) /\ Cardinality(T) = c - size
  <2>1. c - 1 \in Int /\ size \in Int /\ size <= c
    BY <1>1 DEF c
  <2>2. IsFiniteSet(T) /\ Cardinality(T) = IF size > c - 1 THEN 0 ELSE (c - 1) - size + 1
    BY <2>1, FS_Interval
  <2> QED
    BY <1>1, <2>1, <2>2
<1>8. Cardinality(Surplus(size)) = Cardinality(T)
  <2> HIDE DEF back, T
  <2> QED
    BY <1>5, <1>6, <1>7, FS_Injection
<1> QED
  BY <1>1, <1>2, <1>7, <1>8 DEF c

LEMMA SoleInit == Init => SoleIsOnTarget
<1> SUFFICES ASSUME Init
             PROVE  SoleIsOnTarget
  OBVIOUS
<1>1. PICK first \in Resizer : resizer = [r \in Resizer |->
        IF r = first THEN [Idle EXCEPT !.pc = "grow", !.size = PoolSize, !.left = PoolSize]
                     ELSE Idle]
  BY DEF Init
<1>2. \A r \in Resizer \ {first} : resizer[r].pc = "idle"
  BY <1>1 DEF Idle
<1>3. /\ resizer[first].pc = "grow"
      /\ resizer[first].size = PoolSize /\ resizer[first].left = PoolSize
  BY <1>1 DEF Idle
<1>4. Cardinality(instances) = 0
  BY FS_EmptySet DEF Init
<1>5. OnTarget(first)
  BY <1>2, <1>3, <1>4, PoolSizeAssumption DEF OnTarget, Removing
<1> QED
  BY <1>2, <1>5 DEF SoleIsOnTarget

\* Resizer r goes on, at it alone if it still counts as alone.
LEMMA SoleGoesOn ==
  ASSUME FleetInv, SoleIsOnTarget, NEW r \in Resizer, resizer[r].pc # "idle",
         NEW f, Becomes(r, f),
         f.pc # "idle" /\ f.sole =>
           /\ resizer[r].sole
           /\ f.pc = "grow" => Cardinality(instances') + f.left = f.size
           /\ f.pc \in Removing =>
                /\ f.todo \subseteq instances'
                /\ Cardinality(instances') = f.size + Cardinality(f.todo)
  PROVE  SoleIsOnTarget'
<1>1. /\ resizer'[r] = f
      /\ \A q \in Resizer \ {r} : resizer'[q] = resizer[q]
  BY DEF FleetInv, FleetType, Becomes
<1>2. \A q \in Resizer \ {r} : ~(resizer[q].sole /\ resizer[q].pc # "idle")
  BY DEF SoleIsOnTarget, OnTarget
<1>3. ASSUME f.sole, f.pc # "idle"
      PROVE  OnTarget(r)'
  <2>1. \A q \in Resizer \ {r} : resizer'[q].pc = "idle"
    BY <1>1, <1>3 DEF SoleIsOnTarget, OnTarget
  <2> QED
    BY <1>1, <1>3, <2>1 DEF OnTarget
<1> QED
  BY <1>1, <1>2, <1>3 DEF SoleIsOnTarget

LEMMA SoleResizeStep ==
  ASSUME FleetInv, SoleIsOnTarget, NEW r \in Resizer, NEW size \in Sizes, Resize(r, size)
  PROVE  SoleIsOnTarget'
<1> DEFINE others == {q \in Resizer : resizer[q].pc # "idle"}
           begun == [Idle EXCEPT !.size = size, !.sole = others = {}]
           f == IF size > Size THEN [begun EXCEPT !.pc = "grow", !.left = size - Size]
                               ELSE [begun EXCEPT !.pc = "list"]
<1>1. /\ resizer' = [q \in Resizer |->
           IF q = r THEN f
           ELSE IF q \in others THEN [resizer[q] EXCEPT !.sole = FALSE]
           ELSE resizer[q]]
      /\ UNCHANGED instances
  BY DEF Resize, fleet
<1>2. size \in Nat /\ Size \in Nat
  BY FleetAssumption, FleetIsFinite DEF FleetInv, Size
<1>3. /\ f.pc = "grow" => f.left = size - Size
      /\ f.pc \notin Removing
      /\ f.size = size
      /\ f.sole => others = {}
  BY DEF Idle, Removing
<1> HIDE DEF f
<1>4. ASSUME NEW q \in Resizer \ {r}
      PROVE  ~(resizer'[q].sole /\ resizer'[q].pc # "idle")
  <2>1. resizer[q] \in Resizing
    BY DEF FleetInv, FleetType
  <2>2. CASE q \in others
    BY <1>1, <2>1, <2>2 DEF Resizing
  <2>3. CASE q \notin others
    BY <1>1, <2>3
  <2> QED
    BY <2>2, <2>3
<1>5. resizer'[r] = f
  BY <1>1
<1>6. ASSUME f.sole
      PROVE  OnTarget(r)'
  <2>1. \A q \in Resizer \ {r} : resizer'[q].pc = "idle"
    BY <1>1, <1>3, <1>6
  <2>2. f.pc = "grow" => Cardinality(instances') + f.left = f.size
    BY <1>1, <1>2, <1>3 DEF Size
  <2> QED
    BY <1>3, <1>5, <2>1, <2>2 DEF OnTarget
<1> QED
  BY <1>4, <1>5, <1>6 DEF SoleIsOnTarget

\* An instance is added, and one less is left to add.
LEMMA OneMore ==
  ASSUME FleetInv, NEW r \in Resizer, Add(r)
  PROVE  /\ Cardinality(instances') = Cardinality(instances) + 1
         /\ Cardinality(instances) \in Nat /\ resizer[r].left \in Nat /\ resizer[r].size \in Nat
         /\ resizer[r].left = 1 => resizer'[r] = Idle
         /\ resizer[r].left # 1 =>
              /\ resizer'[r].pc = "grow" /\ resizer'[r].sole = resizer[r].sole
              /\ resizer'[r].size = resizer[r].size /\ resizer'[r].left = resizer[r].left - 1
<1>1. FleetType
  BY DEF FleetInv
<1>2. /\ resizer[r].pc = "grow" /\ resizer[r] \in Resizing
      /\ instances' = instances \cup {made + 1}
      /\ Becomes(r, IF resizer[r].left = 1 THEN Idle
                    ELSE [resizer[r] EXCEPT !.left = resizer[r].left - 1])
  BY <1>1 DEF Add, FleetType
<1>3. IsFiniteSet(instances) /\ Cardinality(instances) \in Nat /\ made + 1 \notin instances
  BY <1>1, FleetIsFinite, FleetAssumption DEF FleetType
<1>4. Cardinality(instances') = Cardinality(instances) + 1
  BY <1>2, <1>3, FS_AddElement
<1>5. resizer'[r] = IF resizer[r].left = 1 THEN Idle
                    ELSE [resizer[r] EXCEPT !.left = resizer[r].left - 1]
  BY <1>1, <1>2 DEF FleetType, Becomes
<1> QED
  BY <1>2, <1>3, <1>4, <1>5 DEF Resizing

LEMMA SoleAddStep ==
  ASSUME FleetInv, SoleIsOnTarget, NEW r \in Resizer, Add(r)
  PROVE  SoleIsOnTarget'
<1>1. resizer[r].pc = "grow" /\ Becomes(r, resizer'[r])
  BY DEF Add, Becomes, FleetInv, FleetType
<1>2. resizer[r].sole => Cardinality(instances) + resizer[r].left = resizer[r].size
  BY <1>1 DEF SoleIsOnTarget, OnTarget
<1>3. ASSUME resizer'[r].pc # "idle", resizer'[r].sole
      PROVE  /\ resizer[r].sole /\ resizer'[r].pc = "grow"
             /\ Cardinality(instances') + resizer'[r].left = resizer'[r].size
  BY <1>2, <1>3, OneMore DEF Idle
<1> QED
  BY <1>1, <1>3, SoleGoesOn DEF Removing

LEMMA SoleRemoveStep ==
  ASSUME FleetInv, SoleIsOnTarget, NEW r \in Resizer, Remove(r)
  PROVE  SoleIsOnTarget'
<1>1. /\ resizer[r].pc = "remove"
      /\ resizer[r] \in Resizing
      /\ IsFiniteSet(instances)
  BY FleetIsFinite DEF Remove, FleetInv, FleetType
<1>2. PICK n \in resizer[r].todo :
        \/ Becomes(r, Idle) /\ UNCHANGED instances
        \/ \E m \in Get(index[n]) :
             /\ instances' = instances \ {m}
             /\ Becomes(r, [resizer[r] EXCEPT !.pc = "stop", !.inst = m, !.todo = @ \ {n}])
  BY DEF Remove
<1>3. CASE Becomes(r, Idle) /\ UNCHANGED instances
  BY <1>1, <1>3, SoleGoesOn DEF Idle
<1>4. ASSUME NEW m \in Get(index[n]),
             instances' = instances \ {m},
             Becomes(r, [resizer[r] EXCEPT !.pc = "stop", !.inst = m, !.todo = @ \ {n}])
      PROVE  SoleIsOnTarget'
  <2> DEFINE f == [resizer[r] EXCEPT !.pc = "stop", !.inst = m, !.todo = @ \ {n}]
             todo == resizer[r].todo
  <2>1. /\ f.pc = "stop" /\ f.sole = resizer[r].sole /\ f.size = resizer[r].size
        /\ f.todo = todo \ {n}
        /\ f.size \in Nat
    BY <1>1 DEF Resizing
  <2>2. ASSUME resizer[r].sole
        PROVE  /\ f.todo \subseteq instances'
               /\ Cardinality(instances') = f.size + Cardinality(f.todo)
    <3>1. /\ todo \in SUBSET instances
          /\ Cardinality(instances) = resizer[r].size + Cardinality(todo)
      BY <1>1, <2>2 DEF SoleIsOnTarget, OnTarget, Removing
    <3>2. m = n /\ n \in instances
      BY <1>2, <1>4, <3>1 DEF Get, FleetInv, IndexesDiffer
    <3>3. IsFiniteSet(todo) /\ Cardinality(todo) \in Nat /\ Cardinality(instances) \in Nat
      BY <1>1, <3>1, FS_Subset, FS_CardinalityType
    <3>4. Cardinality(instances \ {n}) = Cardinality(instances) - 1
      BY <1>1, <3>2, FS_RemoveElement
    <3>5. Cardinality(todo \ {n}) = Cardinality(todo) - 1
      BY <1>2, <3>3, FS_RemoveElement
    <3> HIDE DEF f, todo
    <3> QED
      BY <1>4, <2>1, <3>1, <3>2, <3>3, <3>4, <3>5
  <2>3. Becomes(r, f)
    BY <1>4
  <2> HIDE DEF f
  <2> QED
    BY <1>1, <2>1, <2>2, <2>3, SoleGoesOn
<1> QED
  BY <1>2, <1>3, <1>4

LEMMA SoleListStep ==
  ASSUME FleetInv, SoleIsOnTarget, NEW r \in Resizer, List(r)
  PROVE  SoleIsOnTarget'
<1> DEFINE f == [resizer[r] EXCEPT !.pc = "remove", !.todo = Surplus(resizer[r].size)]
<1>1. /\ resizer[r].pc = "list"
      /\ resizer[r] \in Resizing
      /\ UNCHANGED <<index, instances>>
      /\ IF resizer[r].size > Size THEN Becomes(r, Idle) ELSE Becomes(r, f)
  BY DEF List, fleet, FleetInv, FleetType
<1>2. CASE Becomes(r, Idle)
  BY <1>1, <1>2, SoleGoesOn DEF Idle
<1>3. CASE ~(resizer[r].size > Size)
  <2>1. /\ f.pc = "remove" /\ f.sole = resizer[r].sole /\ f.size = resizer[r].size
        /\ f.todo = Surplus(f.size)
        /\ f.size \in Nat
    BY <1>1 DEF Resizing
  <2>2. /\ IsFiniteSet(instances) /\ Cardinality(instances) \in Nat
        /\ f.size <= Cardinality(instances)
    BY <1>3, <2>1, FleetIsFinite DEF FleetInv, Size
  <2>3. IndexesDiffer /\ \A n \in instances : index[n] \in Nat
    BY FleetAssumption DEF FleetInv, FleetType, Made
  <2>4. Becomes(r, f)
    BY <1>1, <1>3
  <2> HIDE DEF f
  <2>5. /\ Surplus(f.size) \subseteq instances
        /\ Cardinality(instances) = f.size + Cardinality(Surplus(f.size))
    BY <2>1, <2>2, <2>3, SurplusIsExact
  <2> QED
    BY <1>1, <2>1, <2>4, <2>5, SoleGoesOn
<1> QED
  BY <1>1, <1>2, <1>3

\* Removed, StopRemoved and Forget.
LEMMA SoleQuietStep ==
  ASSUME FleetInv, SoleIsOnTarget, NEW r \in Resizer,
         Removed(r) \/ StopRemoved(r) \/ Forget(r)
  PROVE  SoleIsOnTarget'
<1>1. /\ resizer[r].pc \in Removing
      /\ resizer[r] \in Resizing
      /\ UNCHANGED instances
  BY DEF Removed, StopRemoved, Forget, fleet, FleetInv, FleetType, Removing
<1>2. resizer[r].sole =>
        /\ resizer[r].todo \subseteq instances
        /\ Cardinality(instances) = resizer[r].size + Cardinality(resizer[r].todo)
  BY <1>1 DEF SoleIsOnTarget, OnTarget, Removing
<1>3. \/ Becomes(r, Idle)
      \/ Becomes(r, [resizer[r] EXCEPT !.pc = "forget"])
      \/ Becomes(r, [resizer[r] EXCEPT !.pc = "remove", !.inst = None])
  BY DEF Removed, StopRemoved, Forget
<1>4. \E f : /\ Becomes(r, f)
             /\ f.pc # "idle" =>
                  /\ f.pc \in Removing /\ f.sole = resizer[r].sole
                  /\ f.todo = resizer[r].todo /\ f.size = resizer[r].size
  <2>1. CASE Becomes(r, Idle)
    BY <2>1 DEF Idle
  <2>2. CASE Becomes(r, [resizer[r] EXCEPT !.pc = "forget"])
    <3> DEFINE f == [resizer[r] EXCEPT !.pc = "forget"]
    <3>1. f.pc \in Removing /\ f.sole = resizer[r].sole
          /\ f.todo = resizer[r].todo /\ f.size = resizer[r].size
      BY <1>1 DEF Resizing, Removing
    <3> QED
      BY <2>2, <3>1
  <2>3. CASE Becomes(r, [resizer[r] EXCEPT !.pc = "remove", !.inst = None])
    <3> DEFINE f == [resizer[r] EXCEPT !.pc = "remove", !.inst = None]
    <3>1. f.pc \in Removing /\ f.sole = resizer[r].sole
          /\ f.todo = resizer[r].todo /\ f.size = resizer[r].size
      BY <1>1 DEF Resizing, Removing
    <3> QED
      BY <2>3, <3>1
  <2> QED
    BY <1>3, <2>1, <2>2, <2>3
<1> QED
  BY <1>1, <1>2, <1>4, SoleGoesOn DEF Removing

\* A step that no resizer takes leaves them, and the fleet, alone.
LEMMA NoResizer ==
  ASSUME \/ UNCHANGED vars
         \/ \E n \in 1..made : Launch(n) \/ Crash(n)
         \/ \E w \in Worker : \/ StartRemediation(w) \/ LookUp(w) \/ Begin(w) \/ Finds(w)
                             \/ Claim(w) \/ Mark(w) \/ StopHeld(w) \/ Relaunch(w) \/ End(w)
  PROVE  UNCHANGED <<made, index, instances, resizer, resizes, collided>>
  BY DEF vars, fleet, history, Launch, Crash, StartRemediation, LookUp, Begin, Finds, Claim,
         Mark, StopHeld, Relaunch, End

LEMMA SoleStep == FleetInv /\ SoleIsOnTarget /\ [Next]_vars => SoleIsOnTarget'
<1> SUFFICES ASSUME FleetInv, SoleIsOnTarget, [Next]_vars
             PROVE  SoleIsOnTarget'
  OBVIOUS
<1>1. ASSUME UNCHANGED <<instances, resizer>>
      PROVE  SoleIsOnTarget'
  BY <1>1 DEF SoleIsOnTarget, OnTarget
<1>2. ASSUME NEW r \in Resizer, NEW size \in Sizes, Resize(r, size)
      PROVE  SoleIsOnTarget'
  BY <1>2, SoleResizeStep
<1>3. ASSUME NEW r \in Resizer,
             \/ Add(r) \/ List(r) \/ Remove(r) \/ Removed(r) \/ StopRemoved(r) \/ Forget(r)
      PROVE  SoleIsOnTarget'
  BY <1>3, SoleAddStep, SoleListStep, SoleRemoveStep, SoleQuietStep
<1> QED
  BY <1>1, <1>2, <1>3, NoResizer DEF Next

LEMMA SoleInvHolds == Spec => [](FleetInv /\ SoleIsOnTarget)
<1>1. FleetInv /\ SoleIsOnTarget /\ [Next]_vars => (FleetInv /\ SoleIsOnTarget)'
  BY FleetStep, SoleStep
<1> QED
  BY InitInv, SoleInit, <1>1, PTL DEF Spec

\* remediate.go:482-498: for every size asked for, and whatever is left of resizes before: one
\* that nobody else's overlaps, and that goes through, leaves exactly as many instances.
THEOREM SoleResizeIsAlwaysExact == Spec => SoleResizeIsExact
<1>1. ASSUME FleetInv, SoleIsOnTarget, Next,
             NEW r \in Resizer, resizer[r].sole, Completes(r)
      PROVE  Cardinality(instances') = resizer[r].size
  <2>1. /\ resizer[r] \in Resizing
        /\ resizer[r].pc \in {"grow", "remove"}
        /\ resizer[r].pc = "remove" => resizer[r].todo = {}
        /\ resizer'[r].pc = "idle"
    BY <1>1 DEF Completes, FleetInv, FleetType
  <2>2. OnTarget(r)
    BY <1>1, <2>1 DEF SoleIsOnTarget
  <2>3. ASSUME NEW q \in Resizer, NEW size \in Sizes, Resize(q, size)
        PROVE  FALSE
    <3>1. q # r
      BY <2>1, <2>3 DEF Resize
    <3>2. resizer'[r] = [resizer[r] EXCEPT !.sole = FALSE]
      BY <2>1, <2>3, <3>1 DEF Resize
    <3> QED
      BY <2>1, <3>2 DEF Resizing
  <2>4. ASSUME NEW q \in Resizer,
               \/ Add(q) \/ List(q) \/ Remove(q) \/ Removed(q) \/ StopRemoved(q) \/ Forget(q)
        PROVE  q = r /\ (Add(r) \/ Removed(r))
    <3>1. resizer[q].pc # "idle"
      BY <2>4 DEF Add, List, Remove, Removed, StopRemoved, Forget
    <3>2. q = r
      BY <2>2, <3>1 DEF OnTarget
    <3> QED
      BY <2>1, <2>4, <3>2 DEF List, Remove, StopRemoved, Forget
  <2>5. CASE Add(r)
    BY <1>1, <2>1, <2>2, <2>5, OneMore DEF OnTarget, Add
  <2>6. CASE Removed(r)
    <3>1. UNCHANGED instances /\ resizer[r].pc = "remove"
      BY <2>6 DEF Removed, fleet
    <3>2. Cardinality(instances) = resizer[r].size + 0 /\ resizer[r].size \in Nat
      BY <2>1, <2>2, <3>1, FS_EmptySet DEF OnTarget, Removing, Resizing
    <3> QED
      BY <3>1, <3>2
  <2>7. CASE UNCHANGED resizer
    BY <2>1, <2>7
  <2> QED
    BY <1>1, <2>3, <2>4, <2>5, <2>6, <2>7, NoResizer DEF Next
<1>2. FleetInv /\ SoleIsOnTarget /\ [Next]_vars =>
        [\A r \in Resizer :
           /\ resizer[r].sole /\ Completes(r)
           => Cardinality(instances') = resizer[r].size]_vars
  BY <1>1
<1> QED
  BY <1>2, SoleInvHolds, PTL DEF Spec, SoleResizeIsExact

-----------------------------------------------------------------------------
(* Goroutines at work on an instance.                                       *)

Resized ==
  [pc : {"idle", "grow", "list", "remove", "stop", "forget"}, size : Sizes \cup {0, PoolSize},
   left : 0..instancePortBlock, todo : SUBSET (1..made), inst : 1..made \cup {None},
   sole : BOOLEAN]

Working ==
  [pc : {"idle", "get", "begin", "claim", "mark", "stop", "launch", "end"},
   kind : {"none"} \cup Flagging \cup Marking, index : Index, inst : 1..made \cup {None}]

Tors == {"unborn", "new", "gone"} \cup Runs

InstancesTyped ==
  /\ index \in [Made -> Index]
  /\ tor \in [Made -> Tors]
  /\ \A n \in Made : n <= made <=> tor[n] # "unborn"

MarksTyped ==
  /\ remediating \subseteq Index
  /\ rotating \in [Index -> Nat]
  /\ haunted \subseteq Index

ResizersTyped ==
  /\ resizer \in [Resizer -> Resized]
  /\ \A r \in Resizer : resizer[r].pc \in {"stop", "forget"} <=> resizer[r].inst # None
  /\ resizes \in 0..MaxResizes

\* What each kind of goroutine is about, and that it has an instance where it needs one.
Errand(g) ==
  /\ g.kind = "none" => g.pc = "idle"
  /\ g.pc \in {"get", "begin"} => g.kind = "ladder"
  /\ g.pc = "claim" => g.kind = "watchdog"
  /\ g.pc = "mark" => g.kind = "rotate"
  /\ g.pc \in {"stop", "launch"} => g.kind \in Flagging
  /\ g.pc = "end" => g.kind \in Flagging \cup Marking
  /\ g.pc \in {"begin", "claim", "mark", "stop", "launch"} => g.inst \in 1..made

WorkersTyped ==
  /\ worker \in [Worker -> Working]
  /\ \A w \in Worker : Errand(worker[w])

Typed == InstancesTyped /\ MarksTyped /\ ResizersTyped /\ WorkersTyped

LEMMA TypedIsTypeOK ==
  ASSUME FleetInv, Typed
  PROVE  TypeOK
<1>1. /\ made \in 0..MaxMade /\ instances \subseteq 1..made /\ collided \in BOOLEAN
      /\ index \in [Made -> Index] /\ tor \in [Made -> Tors]
      /\ \A n \in Made : n <= made <=> tor[n] # "unborn"
  BY DEF FleetInv, FleetType, Typed, InstancesTyped
<1>2. ASSUME NEW r \in Resizer
      PROVE  /\ resizer[r] \in Resized
             /\ resizer[r].pc \in {"stop", "forget"} <=> resizer[r].inst # None
  BY DEF Typed, ResizersTyped
<1>3. ASSUME NEW w \in Worker
      PROVE  worker[w] \in Working
  BY DEF Typed, WorkersTyped
<1>4. /\ remediating \subseteq Index /\ rotating \in [Index -> Nat] /\ haunted \subseteq Index
      /\ resizes \in 0..MaxResizes
  BY DEF Typed, MarksTyped, ResizersTyped
<1>5. \A r \in Resizer :
        /\ resizer[r].pc \in {"idle", "grow", "list", "remove", "stop", "forget"}
        /\ resizer[r].size \in Sizes \cup {0, PoolSize}
        /\ resizer[r].left \in 0..instancePortBlock
        /\ resizer[r].todo \subseteq 1..made
        /\ resizer[r].inst \in 1..made \cup {None}
        /\ resizer[r].pc \in {"stop", "forget"} <=> resizer[r].inst # None
  BY <1>2 DEF Resized
<1>6. \A w \in Worker :
        /\ worker[w].pc \in {"idle", "get", "begin", "claim", "mark", "stop", "launch", "end"}
        /\ worker[w].kind \in {"none"} \cup Flagging \cup Marking
        /\ worker[w].index \in Index
        /\ worker[w].inst \in 1..made \cup {None}
  BY <1>3 DEF Working
<1> QED
  BY <1>1, <1>4, <1>5, <1>6 DEF TypeOK, Tors, Runs

LEMMA TypedInit == Init => Typed
<1> SUFFICES ASSUME Init
             PROVE  Typed
  OBVIOUS
<1>1. made = 0 /\ 0 \in Index /\ Made \subseteq Nat /\ 0 \notin Made
  BY FleetAssumption DEF Init, Index, Made
<1>2. InstancesTyped
  BY <1>1 DEF Init, InstancesTyped, Tors, Runs
<1>3. MarksTyped
  BY DEF Init, MarksTyped
<1>4. ResizersTyped
  <2> DEFINE f == [Idle EXCEPT !.pc = "grow", !.size = PoolSize, !.left = PoolSize]
  <2>1. Idle \in Resized /\ Idle.pc = "idle" /\ Idle.inst = None
    <3>1. 0 \in 0..instancePortBlock
      BY FleetAssumption
    <3> QED
      BY <3>1 DEF Idle, Resized
  <2>2. f \in Resized /\ f.pc = "grow" /\ f.inst = None
    <3>1. PoolSize \in 0..instancePortBlock
      BY FleetAssumption, PoolSizeAssumption
    <3> QED
      BY <3>1 DEF Idle, Resized
  <2>3. PICK first \in Resizer : resizer = [r \in Resizer |-> IF r = first THEN f ELSE Idle]
    BY DEF Init
  <2> HIDE DEF f
  <2>4. resizer \in [Resizer -> Resized]
    BY <2>1, <2>2, <2>3
  <2>5. resizes \in 0..MaxResizes
    BY FleetAssumption DEF Init
  <2> QED
    BY <2>1, <2>2, <2>3, <2>4, <2>5 DEF ResizersTyped
<1>5. WorkersTyped
  <2>1. Resting \in Working /\ Errand(Resting)
    BY <1>1 DEF Resting, Working, Errand
  <2> QED
    BY <2>1 DEF Init, WorkersTyped
<1> QED
  BY <1>2, <1>3, <1>4, <1>5 DEF Typed

LEMMA FreeIndexIsIndex ==
  ASSUME FleetInv
  PROVE  FreeIndex \in Index
<1>1. made \in Nat /\ made <= MaxMade /\ MaxMade \in Nat
  BY FleetAssumption DEF FleetInv, FleetType
<1>2. IsFiniteSet(instances) /\ Cardinality(instances) \in Nat /\ Cardinality(instances) <= made
  BY FleetIsFinite DEF FleetInv
<1> QED
  BY <1>1, <1>2, FreeIndexIsLow DEF Index

LEMMA InstancesTypedStep ==
  ASSUME FleetInv, Typed, Next
  PROVE  InstancesTyped'
<1>1. InstancesTyped /\ made \in Nat /\ made <= MaxMade /\ MaxMade \in Nat
  BY FleetAssumption DEF Typed, FleetInv, FleetType
<1>2. ASSUME UNCHANGED <<made, index, tor>>
      PROVE  InstancesTyped'
  BY <1>1, <1>2 DEF InstancesTyped
<1>3. ASSUME NEW n \in 1..made, NEW new \in Tors \ {"unborn"}, tor' = [tor EXCEPT ![n] = new],
             UNCHANGED <<made, index>>
      PROVE  InstancesTyped'
  BY <1>1, <1>3 DEF InstancesTyped, Made
<1>4. ASSUME NEW r \in Resizer, Add(r)
      PROVE  InstancesTyped'
  <2> DEFINE n == made + 1
  <2>1. /\ made < MaxMade /\ made' = n /\ n \in Made
        /\ index' = [index EXCEPT ![n] = FreeIndex]
        /\ tor' = [tor EXCEPT ![n] = "new"]
    BY <1>1, <1>4 DEF Add, Made
  <2>2. index' \in [Made -> Index]
    BY <1>1, <2>1, FreeIndexIsIndex DEF InstancesTyped
  <2>3. tor' \in [Made -> Tors]
    BY <1>1, <2>1 DEF InstancesTyped, Tors, Runs
  <2>4. ASSUME NEW k \in Made
        PROVE  k <= made' <=> tor'[k] # "unborn"
    BY <1>1, <2>1 DEF InstancesTyped, Made
  <2> QED
    BY <2>2, <2>3, <2>4 DEF InstancesTyped
<1>5. \A n \in 1..made : tor[n] \in Tors \ {"unborn"} /\ Halted(n) \in Tors \ {"unborn"}
  BY <1>1 DEF InstancesTyped, Made, Halted, Tors, Runs
<1>6. \A n : Launched(n) \in Tors \ {"unborn"}
  BY DEF Launched, Tors, Runs
<1>7. ASSUME NEW r \in Resizer, StopRemoved(r)
      PROVE  InstancesTyped'
  <2>1. resizer[r].inst \in 1..made
    BY <1>7 DEF StopRemoved, Typed, ResizersTyped, Resized
  <2>2. PICK new : /\ tor' = [tor EXCEPT ![resizer[r].inst] = new]
                   /\ new \in {Halted(resizer[r].inst), "unstopped"}
    BY <1>7 DEF StopRemoved
  <2>3. UNCHANGED <<made, index>> /\ new \in Tors \ {"unborn"}
    BY <1>5, <1>7, <2>1, <2>2 DEF StopRemoved, fleet, Tors, Runs
  <2> QED
    BY <1>3, <2>1, <2>2, <2>3
<1>8. ASSUME NEW n \in 1..made, Launch(n) \/ Crash(n)
      PROVE  InstancesTyped'
  <2>1. PICK new : tor' = [tor EXCEPT ![n] = new] /\ new \in {Launched(n), "gone"}
    BY <1>8 DEF Launch, Crash
  <2>2. UNCHANGED <<made, index>> /\ new \in Tors \ {"unborn"}
    BY <1>6, <1>8, <2>1 DEF Launch, Crash, fleet, Tors, Runs
  <2> QED
    BY <1>3, <2>1, <2>2
<1>9. ASSUME NEW w \in Worker, StopHeld(w) \/ Relaunch(w)
      PROVE  InstancesTyped'
  <2>1. worker[w].inst \in 1..made
    BY <1>9 DEF StopHeld, Relaunch, Typed, WorkersTyped, Errand
  <2>2. UNCHANGED <<made, index>>
    BY <1>9 DEF StopHeld, Relaunch, fleet
  <2>3. \/ UNCHANGED tor
        \/ \E new \in {Halted(worker[w].inst), Launched(worker[w].inst), tor[worker[w].inst]} :
             tor' = [tor EXCEPT ![worker[w].inst] = new]
    BY <1>9 DEF StopHeld, Relaunch
  <2> QED
    BY <1>2, <1>3, <1>5, <1>6, <2>1, <2>2, <2>3
<1>10. ASSUME NEW r \in Resizer,
              \/ \E size \in Sizes : Resize(r, size)
              \/ List(r) \/ Remove(r) \/ Removed(r) \/ Forget(r)
       PROVE  InstancesTyped'
  BY <1>2, <1>10 DEF Resize, List, Remove, Removed, Forget, fleet
<1>11. ASSUME NEW w \in Worker,
              \/ StartRemediation(w) \/ LookUp(w) \/ Begin(w) \/ Finds(w)
              \/ Claim(w) \/ Mark(w) \/ End(w)
       PROVE  InstancesTyped'
  BY <1>2, <1>11 DEF StartRemediation, LookUp, Begin, Finds, Claim, Mark, End, fleet
<1> QED
  BY <1>4, <1>7, <1>8, <1>9, <1>10, <1>11 DEF Next

\* The resizer that begins goes on as f, and the others stay where they are.
LEMMA BegunResize ==
  ASSUME NEW r \in Resizer, NEW size \in Sizes, Resize(r, size)
  PROVE  \E f :
           /\ resizer' = [q \in Resizer |->
                IF q = r THEN f
                ELSE IF resizer[q].pc # "idle" THEN [resizer[q] EXCEPT !.sole = FALSE]
                ELSE resizer[q]]
           /\ \/ /\ size > Size
                 /\ \E sole \in BOOLEAN :
                      f = [Idle EXCEPT !.size = size, !.sole = sole,
                                       !.pc = "grow", !.left = size - Size]
              \/ \E sole \in BOOLEAN :
                   f = [Idle EXCEPT !.size = size, !.sole = sole, !.pc = "list"]
<1> DEFINE others == {q \in Resizer : resizer[q].pc # "idle"}
           sole == others = {}
           begun == [Idle EXCEPT !.size = size, !.sole = sole]
           f == IF size > Size THEN [begun EXCEPT !.pc = "grow", !.left = size - Size]
                               ELSE [begun EXCEPT !.pc = "list"]
<1>1. /\ resizer' = [q \in Resizer |->
           IF q = r THEN f
           ELSE IF q \in others THEN [resizer[q] EXCEPT !.sole = FALSE]
           ELSE resizer[q]]
      /\ UNCHANGED instances
  BY DEF Resize, fleet
<1>2. sole \in BOOLEAN
  OBVIOUS
<1>3. /\ size > Size => f = [Idle EXCEPT !.size = size, !.sole = sole,
                                        !.pc = "grow", !.left = size - Size]
      /\ ~(size > Size) => f = [Idle EXCEPT !.size = size, !.sole = sole, !.pc = "list"]
  BY Zenon DEF Idle
<1> HIDE DEF f, sole
<1> QED
  BY <1>1, <1>2, <1>3

LEMMA ResizersTypedStep ==
  ASSUME FleetInv, Typed, Next
  PROVE  ResizersTyped'
<1>1. /\ ResizersTyped /\ FleetType
      /\ made \in Nat /\ MaxMade \in Nat /\ MaxResizes \in Nat /\ resizes \in Nat
      /\ None \notin Nat
      /\ Sizes \subseteq Nat /\ PoolSize \in Nat /\ instancePortBlock \in Nat
  BY FleetAssumption, PoolSizeAssumption DEF Typed, ResizersTyped, FleetInv, FleetType
<1>2. UNCHANGED <<made, resizer, resizes>> => ResizersTyped'
  BY <1>1 DEF ResizersTyped, Resized
<1>3. \A q \in Resizer : resizer[q] \in Resized
  BY <1>1 DEF ResizersTyped
\* One resizer goes on.
<1>4. ASSUME NEW r \in Resizer, NEW f \in Resized, Becomes(r, f), UNCHANGED <<made, resizes>>,
             f.pc \in {"stop", "forget"} <=> f.inst # None
      PROVE  ResizersTyped'
  <2>1. resizer' = [resizer EXCEPT ![r] = f]
    BY <1>4 DEF Becomes
  <2>2. resizer' \in [Resizer -> Resized]
    BY <1>1, <2>1 DEF ResizersTyped
  <2>3. Resized' = Resized
    BY <1>4 DEF Resized
  <2>4. \A q \in Resizer : resizer'[q].pc \in {"stop", "forget"} <=> resizer'[q].inst # None
    BY <1>1, <1>4, <2>1 DEF ResizersTyped
  <2> QED
    BY <1>1, <1>4, <2>2, <2>3, <2>4 DEF ResizersTyped
<1>5. Idle \in Resized /\ Idle.pc = "idle" /\ Idle.inst = None
  <2>1. 0 \in 0..instancePortBlock
    BY <1>1
  <2> QED
    BY <2>1 DEF Idle, Resized
<1>6. ASSUME NEW r \in Resizer, Becomes(r, Idle), UNCHANGED <<made, resizes>>
      PROVE  ResizersTyped'
  BY <1>4, <1>5, <1>6
<1>7. ASSUME NEW r \in Resizer, NEW size \in Sizes, Resize(r, size)
      PROVE  ResizersTyped'
  <2>1. PICK f :
          /\ resizer' = [q \in Resizer |->
               IF q = r THEN f
               ELSE IF resizer[q].pc # "idle" THEN [resizer[q] EXCEPT !.sole = FALSE]
               ELSE resizer[q]]
          /\ \/ /\ size > Size
                /\ \E sole \in BOOLEAN :
                     f = [Idle EXCEPT !.size = size, !.sole = sole,
                                      !.pc = "grow", !.left = size - Size]
             \/ \E sole \in BOOLEAN :
                  f = [Idle EXCEPT !.size = size, !.sole = sole, !.pc = "list"]
    BY <1>7, BegunResize
  <2>9. /\ UNCHANGED made
        /\ resizes < MaxResizes /\ resizes' = resizes + 1
        /\ ValidatePoolSize(size)
    <3>1. ValidatePoolSize(size) /\ resizes < MaxResizes /\ resizes' = resizes + 1
      BY <1>7, Zenon DEF Resize
    <3>2. UNCHANGED made
      BY <1>7, Zenon DEF Resize, fleet
    <3> QED
      BY <3>1, <3>2
  <2>2. size \in Nat /\ Size \in Nat /\ size <= instancePortBlock
    BY <1>1, <2>9, FleetIsFinite DEF Size, ValidatePoolSize
  <2>3. f \in Resized /\ f.pc \in {"grow", "list"} /\ f.inst = None
    <3>1. size > Size => size - Size \in 0..instancePortBlock
      BY <1>1, <2>2
    <3>2. 0 \in 0..instancePortBlock
      BY <1>1
    <3> QED
      BY <2>1, <3>1, <3>2 DEF Idle, Resized
  <2>4. ASSUME NEW q \in Resizer
        PROVE  /\ resizer'[q] \in Resized
               /\ resizer'[q].pc \in {"stop", "forget"} <=> resizer'[q].inst # None
    <3> DEFINE g == [resizer[q] EXCEPT !.sole = FALSE]
    <3>1. g \in Resized
      BY <1>3, Zenon DEF Resized
    <3>2. g.pc = resizer[q].pc /\ g.inst = resizer[q].inst
      BY <1>3 DEF Resized
    <3>3. resizer[q].pc \in {"stop", "forget"} <=> resizer[q].inst # None
      BY <1>1 DEF ResizersTyped
    <3>4. resizer'[q] \in {f, g, resizer[q]}
      BY <2>1
    <3> HIDE DEF g
    <3> QED
      BY <1>3, <2>3, <3>1, <3>2, <3>3, <3>4
  <2>5. resizer' \in [Resizer -> Resized]
    BY <2>1, <2>4
  <2>6. Resized' = Resized
    BY <2>9 DEF Resized
  <2>7. resizes' \in 0..MaxResizes
    BY <1>1, <2>9
  <2> QED
    BY <2>4, <2>5, <2>6, <2>7 DEF ResizersTyped
<1>8. ASSUME NEW r \in Resizer, Add(r)
      PROVE  ResizersTyped'
  <2> DEFINE g == [resizer[r] EXCEPT !.left = resizer[r].left - 1]
  <2>1. /\ made' = made + 1 /\ UNCHANGED resizes
        /\ resizer[r].pc = "grow"
        /\ resizer' = [resizer EXCEPT ![r] = IF resizer[r].left = 1 THEN Idle ELSE g]
    BY <1>8 DEF Add, Becomes, history
  <2>2. Resized \subseteq Resized'
    <3>1. 1..made \subseteq 1..made'
      BY <1>1, <2>1
    <3>2. ASSUME NEW f \in Resized
          PROVE  f \in Resized'
      BY <3>1, Zenon DEF Resized
    <3> QED
      BY <3>2
  <2>3. g \in Resized /\ g.pc = "grow" /\ g.inst = resizer[r].inst
    <3>1. resizer[r].left \in 0..instancePortBlock /\ resizer[r].left >= 1
      BY <1>1, <1>3, <2>1 DEF FleetType, Resized
    <3>2. resizer[r].left - 1 \in 0..instancePortBlock
      BY <1>1, <3>1
    <3>3. g \in Resized
      BY <1>3, <3>2, Zenon DEF Resized
    <3> QED
      BY <1>3, <2>1, <3>3 DEF Resized
  <2> HIDE DEF g
  <2>4. resizer[r].inst = None
    BY <1>1, <2>1 DEF ResizersTyped
  <2>5. ASSUME NEW q \in Resizer
        PROVE  /\ resizer'[q] \in Resized
               /\ resizer'[q].pc \in {"stop", "forget"} <=> resizer'[q].inst # None
    BY <1>1, <1>3, <1>5, <2>1, <2>3, <2>4 DEF ResizersTyped
  <2>6. resizer' \in [Resizer -> Resized']
    BY <1>1, <2>1, <2>2, <2>5 DEF ResizersTyped
  <2> QED
    BY <1>1, <2>1, <2>5, <2>6 DEF ResizersTyped
<1>9. ASSUME NEW r \in Resizer, List(r)
      PROVE  ResizersTyped'
  <2> DEFINE f == [resizer[r] EXCEPT !.pc = "remove", !.todo = Surplus(resizer[r].size)]
  <2>1. /\ resizer[r].pc = "list" /\ UNCHANGED <<made, resizes>>
        /\ Becomes(r, Idle) \/ Becomes(r, f)
    BY <1>9 DEF List, fleet, history
  <2>2. Surplus(resizer[r].size) \in SUBSET (1..made)
    BY <1>1 DEF Surplus, FleetType
  <2>3. f \in Resized
    BY <1>3, <2>2, Zenon DEF Resized
  <2>4. f.pc = "remove" /\ f.inst = None
    BY <1>1, <1>3, <2>1 DEF Resized, ResizersTyped
  <2> HIDE DEF f
  <2> QED
    BY <1>4, <1>6, <2>1, <2>3, <2>4
<1>10. ASSUME NEW r \in Resizer, Remove(r)
       PROVE  ResizersTyped'
  <2>1. UNCHANGED <<made, resizes>>
    BY <1>10 DEF Remove, history
  <2>2. PICK n \in resizer[r].todo :
          \/ Becomes(r, Idle)
          \/ \E m \in Get(index[n]) :
               Becomes(r, [resizer[r] EXCEPT !.pc = "stop", !.inst = m, !.todo = @ \ {n}])
    BY <1>10 DEF Remove
  <2>3. ASSUME NEW m \in Get(index[n]),
               Becomes(r, [resizer[r] EXCEPT !.pc = "stop", !.inst = m, !.todo = @ \ {n}])
        PROVE  ResizersTyped'
    <3> DEFINE f == [resizer[r] EXCEPT !.pc = "stop", !.inst = m, !.todo = @ \ {n}]
    <3>1. m \in 1..made /\ m # None
      <4>1. m \in instances
        BY DEF Get
      <4>2. instances \subseteq 1..made
        BY <1>1 DEF FleetType
      <4> QED
        BY <1>1, <4>1, <4>2
    <3>2. resizer[r].todo \ {n} \in SUBSET (1..made)
      BY <1>3 DEF Resized
    <3>3. f \in Resized
      BY <1>3, <3>1, <3>2, Zenon DEF Resized
    <3>4. f.pc = "stop" /\ f.inst = m
      BY <1>3 DEF Resized
    <3>5. Becomes(r, f)
      BY <2>3
    <3> HIDE DEF f
    <3> QED
      BY <1>4, <2>1, <3>1, <3>3, <3>4, <3>5
  <2> QED
    BY <1>6, <2>1, <2>2, <2>3
<1>11. ASSUME NEW r \in Resizer, Removed(r) \/ StopRemoved(r) \/ Forget(r)
       PROVE  ResizersTyped'
  <2> DEFINE f == [resizer[r] EXCEPT !.pc = "forget"]
             g == [resizer[r] EXCEPT !.pc = "remove", !.inst = None]
  <2>1. /\ UNCHANGED <<made, resizes>>
        /\ \/ Becomes(r, Idle)
           \/ Becomes(r, f) /\ resizer[r].pc = "stop"
           \/ Becomes(r, g)
    BY <1>11 DEF Removed, StopRemoved, Forget, fleet, history
  <2>2. f \in Resized /\ g \in Resized
    BY <1>3, Zenon DEF Resized
  <2>3. f.pc = "forget" /\ f.inst = resizer[r].inst /\ g.pc = "remove" /\ g.inst = None
    BY <1>3 DEF Resized
  <2>4. resizer[r].pc = "stop" => resizer[r].inst # None
    BY <1>1 DEF ResizersTyped
  <2> HIDE DEF f, g
  <2> QED
    BY <1>4, <1>6, <2>1, <2>2, <2>3, <2>4
<1> QED
  BY <1>2, <1>7, <1>8, <1>9, <1>10, <1>11, NoResizer DEF Next

LEMMA WorkersTypedStep ==
  ASSUME FleetInv, Typed, Next
  PROVE  WorkersTyped'
<1>1. /\ WorkersTyped
      /\ made \in Nat /\ MaxMade \in Nat /\ made <= MaxMade /\ instances \subseteq 1..made
      /\ index \in [Made -> Index]
  BY FleetAssumption DEF Typed, InstancesTyped, FleetInv, FleetType
<1>2. ASSUME UNCHANGED worker, made' = made \/ made' = made + 1
      PROVE  WorkersTyped'
  <2>1. 1..made \subseteq 1..made'
    BY <1>1, <1>2
  <2>2. ASSUME NEW w \in Worker
        PROVE  worker'[w] \in Working' /\ Errand(worker[w])'
    <3>1. worker[w] \in Working /\ Errand(worker[w])
      BY <1>1 DEF WorkersTyped
    <3>2. worker[w] \in Working'
      BY <2>1, <3>1, Zenon DEF Working
    <3> QED
      BY <1>2, <2>1, <3>1, <3>2 DEF Errand
  <2> QED
    BY <1>1, <1>2, <2>2 DEF WorkersTyped
\* One worker goes on.
<1>3. ASSUME NEW w \in Worker, NEW g \in Working, Goes(w, g), Errand(g), UNCHANGED made
      PROVE  WorkersTyped'
  <2>1. worker' = [worker EXCEPT ![w] = g] /\ Working' = Working
    BY <1>3 DEF Goes, Working
  <2>2. worker' \in [Worker -> Working]
    BY <1>1, <2>1 DEF WorkersTyped
  <2>3. ASSUME NEW v \in Worker
        PROVE  Errand(worker[v])'
    BY <1>1, <1>3, <2>1 DEF WorkersTyped, Errand
  <2> QED
    BY <2>1, <2>2, <2>3 DEF WorkersTyped
<1>4. \A w \in Worker : worker[w] \in Working /\ Errand(worker[w])
  BY <1>1 DEF WorkersTyped
<1>5. \A n \in 1..made : index[n] \in Index
  BY <1>1 DEF Made
<1>6. Resting \in Working /\ Errand(Resting)
  <2>1. 0 \in Index
    BY <1>1 DEF Index
  <2> QED
    BY <2>1 DEF Resting, Working, Errand
<1>7. ASSUME NEW w \in Worker, worker[w].kind # "none"
      PROVE  Through(w) \in Working /\ Errand(Through(w))
  <2>1. worker[w] \in Working
    BY <1>4
  <2>2. Through(w) \in Working
    BY <2>1, Zenon DEF Through, Working
  <2>3. Through(w).pc = "end" /\ Through(w).kind = worker[w].kind
    BY <2>1 DEF Through, Working
  <2>4. worker[w].kind \in Flagging \cup Marking
    BY <1>7, <2>1 DEF Working
  <2> QED
    BY <1>7, <2>2, <2>3, <2>4 DEF Errand
\* A worker that keeps its errand, and gets to p.
<1>8. ASSUME NEW w \in Worker, NEW p \in {"stop", "launch", "end"},
             worker[w].kind \in Flagging, p # "end" => worker[w].inst \in 1..made
      PROVE  /\ [worker[w] EXCEPT !.pc = p] \in Working
             /\ Errand([worker[w] EXCEPT !.pc = p])
  <2> DEFINE g == [worker[w] EXCEPT !.pc = p]
  <2>1. worker[w] \in Working
    BY <1>4
  <2>2. g \in Working
    BY <2>1, Zenon DEF Working
  <2>3. g.pc = p /\ g.kind = worker[w].kind /\ g.inst = worker[w].inst
    BY <2>1 DEF Working
  <2> HIDE DEF g
  <2>4. Errand(g)
    BY <1>8, <2>3 DEF Errand, Flagging
  <2> QED
    BY <2>2, <2>4 DEF g
<1>9. ASSUME NEW w \in Worker, StartRemediation(w)
      PROVE  WorkersTyped'
  <2>1. PICK i \in {index[n] : n \in 1..made} :
          Goes(w, [pc |-> "get", kind |-> "ladder", index |-> i, inst |-> None])
    BY <1>9 DEF StartRemediation
  <2>2. i \in Index /\ UNCHANGED made
    BY <1>5, <1>9 DEF StartRemediation, fleet
  <2>3. /\ [pc |-> "get", kind |-> "ladder", index |-> i, inst |-> None] \in Working
        /\ Errand([pc |-> "get", kind |-> "ladder", index |-> i, inst |-> None])
    BY <2>2 DEF Working, Flagging, Errand
  <2> QED
    BY <1>3, <2>1, <2>2, <2>3
<1>10. ASSUME NEW w \in Worker, LookUp(w)
       PROVE  WorkersTyped'
  <2>1. worker[w].pc = "get" /\ worker[w].kind \in Flagging /\ UNCHANGED made
    BY <1>4, <1>10 DEF LookUp, fleet, Errand, Flagging
  <2>2. CASE Goes(w, [worker[w] EXCEPT !.pc = "end"])
    BY <1>3, <1>8, <2>1, <2>2
  <2>3. CASE Get(worker[w].index) # {}
    <3> DEFINE n == CHOOSE n \in Get(worker[w].index) : TRUE
               g == [worker[w] EXCEPT !.pc = "begin", !.inst = n]
    <3>1. n \in 1..made
      BY <1>1, <2>3 DEF Get
    <3>2. Goes(w, g)
      BY <1>10, <2>3 DEF LookUp
    <3>3. worker[w] \in Working /\ worker[w].kind = "ladder"
      BY <1>4, <2>1 DEF Errand
    <3> HIDE DEF n
    <3>4. g \in Working
      BY <3>1, <3>3, Zenon DEF Working
    <3>5. g.pc = "begin" /\ g.kind = "ladder" /\ g.inst = n
      BY <3>3 DEF Working
    <3> HIDE DEF g
    <3>6. Errand(g)
      BY <3>1, <3>5 DEF Errand
    <3> QED
      BY <1>3, <2>1, <3>2, <3>4, <3>6
  <2> QED
    BY <1>10, <2>2, <2>3 DEF LookUp
<1>11. ASSUME NEW w \in Worker, Begin(w)
       PROVE  WorkersTyped'
  <2>1. /\ worker[w].kind \in Flagging /\ worker[w].inst \in 1..made /\ UNCHANGED made
        /\ Goes(w, [worker[w] EXCEPT !.pc = "stop"])
    BY <1>4, <1>11 DEF Begin, fleet, Errand, Flagging
  <2> QED
    BY <1>3, <1>8, <2>1
<1>12. ASSUME NEW w \in Worker, Finds(w)
       PROVE  WorkersTyped'
  <2>1. UNCHANGED made
    BY <1>12 DEF Finds, fleet
  <2>2. PICK n \in instances :
          \/ Goes(w, [pc |-> "claim", kind |-> "watchdog", index |-> index[n], inst |-> n])
          \/ Goes(w, [pc |-> "mark", kind |-> "rotate", index |-> index[n], inst |-> n])
    BY <1>12 DEF Finds
  <2>3. n \in 1..made /\ index[n] \in Index
    BY <1>1, <1>5
  <2>4. /\ [pc |-> "claim", kind |-> "watchdog", index |-> index[n], inst |-> n] \in Working
        /\ Errand([pc |-> "claim", kind |-> "watchdog", index |-> index[n], inst |-> n])
    BY <2>3 DEF Working, Flagging, Errand
  <2>5. /\ [pc |-> "mark", kind |-> "rotate", index |-> index[n], inst |-> n] \in Working
        /\ Errand([pc |-> "mark", kind |-> "rotate", index |-> index[n], inst |-> n])
    BY <2>3 DEF Working, Marking, Errand
  <2> QED
    BY <1>3, <2>1, <2>2, <2>4, <2>5
<1>13. ASSUME NEW w \in Worker, Claim(w)
       PROVE  WorkersTyped'
  <2>1. /\ worker[w].kind \in Flagging /\ worker[w].inst \in 1..made /\ UNCHANGED made
        /\ Goes(w, [worker[w] EXCEPT !.pc = "stop"]) \/ Goes(w, Resting)
    BY <1>4, <1>13 DEF Claim, fleet, Errand, Flagging
  <2> QED
    BY <1>3, <1>6, <1>8, <2>1
<1>14. ASSUME NEW w \in Worker, Mark(w)
       PROVE  WorkersTyped'
  <2>1. worker[w].kind = "rotate" /\ UNCHANGED made /\ (Goes(w, Through(w)) \/ Goes(w, Resting))
    BY <1>4, <1>14 DEF Mark, fleet, Errand
  <2> QED
    BY <1>3, <1>6, <1>7, <2>1
<1>15. ASSUME NEW w \in Worker, StopHeld(w) \/ Relaunch(w)
       PROVE  WorkersTyped'
  <2>1. /\ worker[w].kind \in Flagging /\ worker[w].inst \in 1..made /\ UNCHANGED made
    BY <1>4, <1>15 DEF StopHeld, Relaunch, fleet, Errand
  <2>2. Goes(w, [worker[w] EXCEPT !.pc = "launch"]) \/ Goes(w, Through(w))
    BY <1>15 DEF StopHeld, Relaunch, Done
  <2>3. worker[w].kind # "none"
    BY <2>1 DEF Flagging
  <2> QED
    BY <1>3, <1>7, <1>8, <2>1, <2>2, <2>3
<1>16. ASSUME NEW w \in Worker, End(w)
       PROVE  WorkersTyped'
  BY <1>3, <1>6, <1>16 DEF End, fleet
<1>17. ASSUME NEW r \in Resizer,
              \/ \E size \in Sizes : Resize(r, size)
              \/ Add(r) \/ List(r) \/ Remove(r) \/ Removed(r) \/ StopRemoved(r) \/ Forget(r)
       PROVE  WorkersTyped'
  <2>1. UNCHANGED worker
    BY <1>17 DEF Resize, Add, List, Remove, Removed, StopRemoved, Forget
  <2>2. made' = made \/ made' = made + 1
    BY <1>17 DEF Resize, Add, List, Remove, Removed, StopRemoved, Forget, fleet
  <2> QED
    BY <1>2, <2>1, <2>2
<1>18. ASSUME NEW n \in 1..made, Launch(n) \/ Crash(n)
       PROVE  WorkersTyped'
  BY <1>2, <1>18 DEF Launch, Crash, fleet
<1> QED
  BY <1>9, <1>10, <1>11, <1>12, <1>13, <1>14, <1>15, <1>16, <1>17, <1>18 DEF Next

LEMMA MarksTypedStep ==
  ASSUME FleetInv, Typed, Next
  PROVE  MarksTyped'
<1>1. MarksTyped /\ \A n \in 1..made : index[n] \in Index
  BY FleetAssumption DEF Typed, InstancesTyped, FleetInv, FleetType, Made
<1>2. \A w \in Worker : worker[w].index \in Index
  BY DEF Typed, WorkersTyped, Working
<1>3. \A r \in Resizer : resizer[r].inst # None => resizer[r].inst \in 1..made
  BY DEF Typed, ResizersTyped, Resized
\* Each step touches one index at most.
<1>4. ASSUME NEW i \in Index, NEW k \in Nat,
             remediating' \subseteq remediating \cup {i},
             rotating' \in {rotating, [rotating EXCEPT ![i] = k]},
             haunted' \subseteq haunted \cup {i}
      PROVE  MarksTyped'
  BY <1>1, <1>4 DEF MarksTyped
<1>5. \A i \in Index : rotating[i] \in Nat /\ rotating[i] + 1 \in Nat /\ OneLess(rotating[i]) \in Nat
  BY <1>1 DEF MarksTyped, OneLess
<1>6. ASSUME UNCHANGED <<remediating, rotating, haunted>>
      PROVE  MarksTyped'
  BY <1>1, <1>6 DEF MarksTyped
<1>7. ASSUME NEW r \in Resizer, Forget(r)
      PROVE  MarksTyped'
  <2>1. resizer[r].inst \in 1..made
    BY <1>3, <1>7 DEF Forget, Typed, ResizersTyped
  <2> QED
    BY <1>1, <1>4, <1>7, <2>1 DEF Forget
<1>8. ASSUME NEW w \in Worker, StartRemediation(w)
      PROVE  MarksTyped'
  BY <1>1, <1>4, <1>8 DEF StartRemediation, history
<1>9. ASSUME NEW w \in Worker, Begin(w) \/ Claim(w) \/ Mark(w)
      PROVE  MarksTyped'
  <2> DEFINE i == worker[w].index
  <2>1. i \in Index /\ rotating[i] + 1 \in Nat /\ 1 \in Nat
    BY <1>2, <1>5
  <2>2. UNCHANGED haunted /\ remediating' \subseteq remediating \cup {i}
    BY <1>9 DEF Begin, Claim, Mark, history
  <2>3. rotating' \in {rotating, [rotating EXCEPT ![i] = rotating[i] + 1], [rotating EXCEPT ![i] = 1]}
    BY <1>9 DEF Begin, Claim, Mark
  <2> HIDE DEF i
  <2> QED
    BY <1>4, <2>1, <2>2, <2>3
<1>10. ASSUME NEW w \in Worker, StopHeld(w) \/ Relaunch(w) \/ End(w)
       PROVE  MarksTyped'
  <2> DEFINE i == worker[w].index
  <2>1. i \in Index /\ OneLess(rotating[i]) \in Nat
    BY <1>2, <1>5
  <2>2. haunted' \subseteq haunted /\ remediating' \subseteq remediating
    BY <1>10 DEF StopHeld, Relaunch, End, history
  <2>3. rotating' \in {rotating, [rotating EXCEPT ![i] = OneLess(rotating[i])]}
    BY <1>10 DEF StopHeld, Relaunch, End, Done, EndRotation
  <2> HIDE DEF i
  <2> QED
    BY <1>4, <2>1, <2>2, <2>3
<1>11. ASSUME NEW w \in Worker, LookUp(w) \/ Finds(w)
       PROVE  MarksTyped'
  BY <1>6, <1>11 DEF LookUp, Finds, marks, history
<1>12. ASSUME NEW r \in Resizer,
              \/ \E size \in Sizes : Resize(r, size)
              \/ Add(r) \/ List(r) \/ Remove(r) \/ Removed(r) \/ StopRemoved(r)
       PROVE  MarksTyped'
  BY <1>6, <1>12 DEF Resize, Add, List, Remove, Removed, StopRemoved, marks, history
<1>13. ASSUME NEW n \in 1..made, Launch(n) \/ Crash(n)
       PROVE  MarksTyped'
  BY <1>6, <1>13 DEF Launch, Crash, marks, history
<1> QED
  BY <1>7, <1>8, <1>9, <1>10, <1>11, <1>12, <1>13 DEF Next

LEMMA TypedStep == FleetInv /\ Typed /\ [Next]_vars => Typed'
<1> SUFFICES ASSUME FleetInv, Typed, [Next]_vars
             PROVE  Typed'
  OBVIOUS
<1>1. CASE Next
  BY <1>1, InstancesTypedStep, ResizersTypedStep, WorkersTypedStep, MarksTypedStep DEF Typed
<1>2. CASE UNCHANGED vars
  <2>1. UNCHANGED <<made, index, tor, remediating, rotating, haunted, resizer, resizes, worker>>
    BY <1>2 DEF vars, fleet, marks, history
  <2> QED
    BY <2>1 DEF Typed, InstancesTyped, MarksTyped, ResizersTyped, WorkersTyped, Resized, Working,
                Errand
<1> QED
  BY <1>1, <1>2

-----------------------------------------------------------------------------
(* Flags and marks.                                                         *)

Busy == {"get", "begin", "stop", "launch", "end"}

Holds(kinds, w, i) ==
  worker[w].kind \in kinds /\ worker[w].index = i /\ worker[w].pc \in Busy

\* A ladder that has stacked a mark of its own.
Stacks(w, i) ==
  worker[w].kind = "ladder" /\ worker[w].index = i /\ worker[w].pc \in {"stop", "launch"}

\* w has a mark on i to take down.
Rotates(w, i) == Holds(Marking, w, i) \/ Stacks(w, i)

\* Who holds the flag of i is the only one and has put it up, and one rotation is exclusive.
InOrder(i) ==
  /\ \A v, w \in Worker : Holds(Flagging, v, i) /\ Holds(Flagging, w, i) => v = w
  /\ \A v, w \in Worker : Holds(Marking, v, i) /\ Holds(Marking, w, i) => v = w
  /\ \A w \in Worker : Holds(Flagging, w, i) => i \in remediating

\* An index has a mark for each who has put one there, and fewer once it was forgotten: so
\* that none is left when they are through.
Counted ==
  \A i \in Index :
    /\ IsFiniteSet(Rotators(i))
    /\ rotating[i] <= Cardinality(Rotators(i))
    /\ i \notin haunted => rotating[i] = Cardinality(Rotators(i))

WorkInOrder == \A i \in Index \ haunted : InOrder(i)

LEMMA HoldersAreThose ==
  ASSUME NEW kinds, NEW i
  PROVE  Holders(kinds, i) = {w \in Worker : Holds(kinds, w, i)}
  BY DEF Holders, Holds, Busy

LEMMA RotatorsAreThose ==
  ASSUME NEW i
  PROVE  /\ Rotators(i) = {w \in Worker : Rotates(w, i)}
         /\ Rotators(i)' = {w \in Worker : Rotates(w, i)'}
  BY DEF Rotators, Rotates, Holders, Holds, Stacks, Busy

\* A stacker holds the flag, and nobody holds both.
LEMMA Stacker ==
  ASSUME NEW w \in Worker, NEW i
  PROVE  /\ Stacks(w, i) => Holds(Flagging, w, i)
         /\ ~(Holds(Flagging, w, i) /\ Holds(Marking, w, i))
  BY DEF Stacks, Holds, Flagging, Marking, Busy

\* What nobody is at work on is in order.
LEMMA NobodyAtWork ==
  ASSUME NEW i, AtWork(i) = {}
  PROVE  InOrder(i)
<1>1. \A w \in Worker : ~Holds(Flagging, w, i) /\ ~Holds(Marking, w, i)
  BY DEF AtWork, Holders, Holds, Busy
<1> QED
  BY <1>1 DEF InOrder

LEMMA OrderInit == Init => WorkInOrder
<1> SUFFICES ASSUME Init, NEW i
             PROVE  InOrder(i)
  BY DEF WorkInOrder
<1>1. AtWork(i) = {}
  BY DEF Init, AtWork, Holders, Resting
<1> QED
  BY <1>1, NobodyAtWork

\* Nobody but w changes what it is at, and nothing but index i its marks.
OnlyAt(w, i) ==
  /\ \A v \in Worker \ {w} : worker'[v] = worker[v]
  /\ \A j \in Index \ {i} : rotating'[j] = rotating[j] /\ (j \in remediating => j \in remediating')
  /\ haunted \subseteq haunted' \cup {i}

\* A step of w that stays with index i leaves the other indexes in order.
LEMMA ElsewhereInOrder ==
  ASSUME WorkInOrder, NEW w \in Worker, NEW i, OnlyAt(w, i),
         worker'[w].index = i \/ worker'[w].kind = "none",
         NEW j \in Index \ haunted', j # i
  PROVE  InOrder(j)'
<1>1. j \notin haunted /\ InOrder(j)
  BY DEF WorkInOrder, OnlyAt
<1>2. /\ rotating'[j] = rotating[j]
      /\ j \in remediating => j \in remediating'
  BY DEF OnlyAt
<1>3. ~Holds(Flagging, w, j)' /\ ~Holds(Marking, w, j)' /\ ~Stacks(w, j)'
  BY DEF Holds, Stacks, Flagging, Marking
<1>4. \A v \in Worker \ {w} : /\ Holds(Flagging, v, j)' = Holds(Flagging, v, j)
                              /\ Holds(Marking, v, j)' = Holds(Marking, v, j)
                              /\ Stacks(v, j)' = Stacks(v, j)
  BY DEF OnlyAt, Holds, Stacks
<1> QED
  BY <1>1, <1>2, <1>3, <1>4 DEF InOrder

\* What the others hold they go on holding.
LEMMA OthersHold ==
  ASSUME NEW w \in Worker, NEW i, OnlyAt(w, i), NEW v \in Worker \ {w}, NEW j
  PROVE  /\ Holds(Flagging, v, j)' = Holds(Flagging, v, j)
         /\ Holds(Marking, v, j)' = Holds(Marking, v, j)
         /\ Stacks(v, j)' = Stacks(v, j)
  BY DEF OnlyAt, Holds, Stacks

\* w goes to another step, or away, without a change to the marks.
LEMMA MovesOn ==
  ASSUME Typed, WorkInOrder, NEW w \in Worker, LookUp(w) \/ Finds(w)
  PROVE  WorkInOrder'
<1>1. worker[w] \in Working /\ Errand(worker[w])
  BY DEF Typed, WorkersTyped
<1>2. /\ UNCHANGED <<remediating, rotating, haunted>>
      /\ \A v \in Worker \ {w} : worker'[v] = worker[v]
  BY DEF LookUp, Finds, Goes, marks, history, Typed, WorkersTyped
<1>3. /\ worker'[w].pc \in {"begin", "end", "claim", "mark"}
      /\ worker'[w].pc \in {"begin", "end"} =>
           /\ worker[w].pc = "get" /\ worker[w].kind = "ladder"
           /\ worker'[w].kind = worker[w].kind /\ worker'[w].index = worker[w].index
  <2>1. CASE LookUp(w)
    <3>1. worker[w].pc = "get" /\ worker[w].kind = "ladder"
      BY <1>1, <2>1 DEF LookUp, Errand
    <3>2. worker'[w] = IF Get(worker[w].index) = {} THEN [worker[w] EXCEPT !.pc = "end"]
            ELSE [worker[w] EXCEPT !.pc = "begin",
                                   !.inst = CHOOSE n \in Get(worker[w].index) : TRUE]
      BY <2>1 DEF LookUp, Goes, Typed, WorkersTyped
    <3> QED
      BY <1>1, <3>1, <3>2 DEF Working
  <2>2. CASE Finds(w)
    <3>1. worker'[w].pc \in {"claim", "mark"}
      BY <2>2 DEF Finds, Goes, Typed, WorkersTyped
    <3> QED
      BY <3>1
  <2> QED
    BY <2>1, <2>2
<1>4. \A v \in Worker, i \in Index :
        /\ Holds(Flagging, v, i)' => Holds(Flagging, v, i)
        /\ Holds(Marking, v, i)' => Holds(Marking, v, i)
        /\ Stacks(v, i)' => Stacks(v, i)
  BY <1>2, <1>3 DEF Holds, Stacks, Busy, Flagging, Marking
<1>5. \A i \in Index : InOrder(i) => InOrder(i)'
  BY <1>2, <1>4 DEF InOrder
<1> QED
  BY <1>2, <1>5 DEF WorkInOrder

\* The flag goes up: it was down.
LEMMA FlagGoesUp ==
  ASSUME FleetInv, Typed, WorkInOrder, NEW w \in Worker, StartRemediation(w) \/ Claim(w)
  PROVE  WorkInOrder'
<1>1. /\ worker[w] \in Working /\ Errand(worker[w])
      /\ \A n \in 1..made : index[n] \in Index
      /\ worker \in [Worker -> Working]
  <2>1. worker[w] \in Working /\ Errand(worker[w]) /\ worker \in [Worker -> Working]
    BY DEF Typed, WorkersTyped
  <2>2. made \in Nat /\ made <= MaxMade /\ MaxMade \in Nat /\ index \in [Made -> Index]
    BY FleetAssumption DEF FleetInv, FleetType, Typed, InstancesTyped
  <2> QED
    BY <2>1, <2>2 DEF Made
<1>2. UNCHANGED <<rotating, haunted>>
  BY DEF StartRemediation, Claim, history
<1>3. PICK i :
        \/ /\ i \notin remediating /\ remediating' = remediating \cup {i}
           /\ worker'[w].index = i /\ worker'[w].kind \in Flagging
           /\ worker'[w].kind = "ladder" => worker'[w].pc = "get"
        \/ UNCHANGED remediating /\ worker'[w] = Resting
  <2>1. CASE StartRemediation(w)
    <3>1. PICK i \in {index[n] : n \in 1..made} :
            /\ i \notin remediating /\ remediating' = remediating \cup {i}
            /\ worker' = [worker EXCEPT ![w] = [pc |-> "get", kind |-> "ladder",
                                                index |-> i, inst |-> None]]
      BY <2>1 DEF StartRemediation, Goes
    <3> QED
      BY <1>1, <3>1 DEF Flagging
  <2>2. CASE Claim(w)
    <3>1. worker[w].pc = "claim" /\ worker[w].kind = "watchdog"
      BY <1>1, <2>2 DEF Claim, Errand
    <3>2. CASE Unflagged(worker[w].index)
      <4>1. worker'[w] = [worker[w] EXCEPT !.pc = "stop"]
        BY <1>1, <2>2, <3>2 DEF Claim, Goes
      <4>2. /\ worker'[w].index = worker[w].index /\ worker'[w].kind = "watchdog"
        BY <1>1, <3>1, <4>1 DEF Working
      <4> QED
        BY <2>2, <3>2, <4>2 DEF Claim, Unflagged, Flagging
    <3>3. CASE ~Unflagged(worker[w].index)
      BY <1>1, <2>2, <3>3 DEF Claim, Goes
    <3> QED
      BY <3>2, <3>3
  <2> QED
    BY <2>1, <2>2
<1>4. OnlyAt(w, i)
  BY <1>1, <1>2, <1>3 DEF OnlyAt, StartRemediation, Claim, Goes
<1>5. worker'[w].index = i \/ worker'[w].kind = "none"
  BY <1>3 DEF Resting
<1>6. ASSUME NEW j \in Index \ haunted', j = i
      PROVE  InOrder(j)'
  <2>1. InOrder(j)
    BY <1>2 DEF WorkInOrder
  <2>2. ~Holds(Marking, w, j)' /\ ~Stacks(w, j)'
    BY <1>3 DEF Holds, Stacks, Flagging, Marking, Resting
  <2>3. CASE j \notin remediating /\ j \in remediating'
    BY <1>2, <1>4, <2>1, <2>2, <2>3, OthersHold DEF InOrder
  <2>4. CASE worker'[w] = Resting /\ UNCHANGED remediating
    <3>1. ~Holds(Flagging, w, j)'
      BY <2>4 DEF Holds, Flagging, Resting
    <3> QED
      BY <1>2, <1>4, <2>1, <2>2, <2>4, <3>1, OthersHold DEF InOrder
  <2> QED
    BY <1>3, <1>6, <2>3, <2>4
<1> QED
  BY <1>4, <1>5, <1>6, ElsewhereInOrder DEF WorkInOrder

\* A mark goes up: a ladder's is stacked, a rotation's is the only one.
LEMMA MarkGoesUp ==
  ASSUME Typed, WorkInOrder, Counted, NEW w \in Worker, Begin(w) \/ Mark(w)
  PROVE  WorkInOrder'
<1> PICK i : i = worker[w].index
  OBVIOUS
<1>1. /\ worker[w] \in Working /\ Errand(worker[w])
      /\ worker \in [Worker -> Working]
      /\ rotating \in [Index -> Nat] /\ i \in Index
  BY DEF Typed, WorkersTyped, MarksTyped, Working
<1>2. UNCHANGED <<remediating, haunted>>
  BY DEF Begin, Mark, history
<1>3. /\ \A v \in Worker \ {w} : worker'[v] = worker[v]
      /\ \A j \in Index \ {i} : rotating'[j] = rotating[j]
  BY <1>1 DEF Begin, Mark, Goes
<1>4. OnlyAt(w, i)
  BY <1>2, <1>3 DEF OnlyAt
<1>5. CASE Begin(w)
  <2>1. worker[w].pc = "begin" /\ worker[w].kind = "ladder"
    BY <1>1, <1>5 DEF Begin, Errand
  <2>2. worker'[w] = [worker[w] EXCEPT !.pc = "stop"] /\ rotating'[i] = rotating[i] + 1
    BY <1>1, <1>5 DEF Begin, Goes
  <2>3. worker'[w].pc = "stop" /\ worker'[w].kind = "ladder" /\ worker'[w].index = i
    BY <1>1, <2>1, <2>2 DEF Working
  <2>4. ASSUME i \notin haunted'
        PROVE  InOrder(i)'
    <3>1. InOrder(i) /\ rotating[i] \in Nat
      BY <1>1, <1>2, <2>4 DEF WorkInOrder
    <3>2. Holds(Flagging, w, i) /\ ~Holds(Marking, w, i)'
      BY <2>1, <2>3 DEF Holds, Flagging, Marking, Busy
    <3> QED
      BY <1>2, <1>4, <2>2, <3>1, <3>2, OthersHold DEF InOrder
  <2>5. \A j \in Index \ haunted' : j # i => InOrder(j)'
    BY <1>4, <2>3, ElsewhereInOrder
  <2> QED
    BY <2>4, <2>5 DEF WorkInOrder
<1>6. CASE Mark(w)
  <2>1. worker[w].pc = "mark" /\ worker[w].kind = "rotate"
    BY <1>1, <1>6 DEF Mark, Errand
  <2>2. \/ worker'[w] = Through(w) /\ rotating[i] = 0 /\ rotating'[i] = 1
        \/ worker'[w] = Resting /\ rotating'[i] = rotating[i]
    BY <1>1, <1>6 DEF Mark, Goes
  <2>3. Through(w).kind = "rotate" /\ Through(w).index = i
    BY <1>1, <2>1 DEF Through, Working
  <2>4. ASSUME i \notin haunted'
        PROVE  InOrder(i)'
    <3>1. InOrder(i) /\ rotating[i] \in Nat
      BY <1>1, <1>2, <2>4 DEF WorkInOrder
    <3>2. ~Holds(Flagging, w, i)' /\ ~Stacks(w, i)'
      BY <2>2, <2>3 DEF Holds, Stacks, Flagging, Resting
    <3>3. worker'[w] = Resting => ~Holds(Marking, w, i)'
      BY DEF Holds, Marking, Resting
    <3>4. ASSUME rotating[i] = 0
          PROVE  \A v \in Worker : ~Holds(Marking, v, i)
      <4>1. IsFiniteSet(Rotators(i)) /\ Cardinality(Rotators(i)) = 0
        BY <1>1, <1>2, <2>4, <3>4 DEF Counted
      <4>2. Rotators(i) = {}
        BY <4>1, FS_EmptySet
      <4> QED
        BY <4>2, RotatorsAreThose DEF Rotates
    <3>5. \A v, u \in Worker : Holds(Marking, v, i)' /\ Holds(Marking, u, i)' => v = u
      BY <1>4, <2>2, <3>1, <3>3, <3>4, OthersHold DEF InOrder
    <3> QED
      BY <1>2, <1>4, <3>1, <3>2, <3>5, OthersHold DEF InOrder
  <2>5. \A j \in Index \ haunted' : j # i => InOrder(j)'
    BY <1>4, <2>2, <2>3, ElsewhereInOrder DEF Resting
  <2> QED
    BY <2>4, <2>5 DEF WorkInOrder
<1> QED
  BY <1>5, <1>6

\* The work on an instance goes on, or is done; then a ladder takes its mark down.
LEMMA WorkIsDone ==
  ASSUME Typed, WorkInOrder, NEW w \in Worker, StopHeld(w) \/ Relaunch(w)
  PROVE  WorkInOrder'
<1> PICK i : i = worker[w].index
  OBVIOUS
<1>1. /\ worker[w] \in Working /\ Errand(worker[w])
      /\ worker \in [Worker -> Working]
      /\ rotating \in [Index -> Nat] /\ i \in Index
  BY DEF Typed, WorkersTyped, MarksTyped, Working
<1>2. UNCHANGED <<remediating, haunted>>
  BY DEF StopHeld, Relaunch, history
<1>3. worker[w].pc \in {"stop", "launch"} /\ worker[w].kind \in Flagging
  BY <1>1 DEF StopHeld, Relaunch, Errand
<1>4. \/ worker' = [worker EXCEPT ![w] = [worker[w] EXCEPT !.pc = "launch"]] /\ UNCHANGED rotating
      \/ /\ worker' = [worker EXCEPT ![w] = Through(w)]
         /\ \/ /\ worker[w].kind = "ladder"
               /\ rotating' = [rotating EXCEPT ![i] = OneLess(rotating[i])]
            \/ worker[w].kind # "ladder" /\ UNCHANGED rotating
  BY DEF StopHeld, Relaunch, Done, Goes, EndRotation
<1>5. /\ \A v \in Worker \ {w} : worker'[v] = worker[v]
      /\ \A j \in Index \ {i} : rotating'[j] = rotating[j]
  BY <1>1, <1>4
<1>6. OnlyAt(w, i)
  BY <1>2, <1>5 DEF OnlyAt
<1>7. /\ worker'[w].index = i /\ worker'[w].kind = worker[w].kind
      /\ worker'[w].pc \in {"launch", "end"}
      /\ worker'[w].pc = "launch" => UNCHANGED rotating
      /\ worker'[w].pc = "end" =>
           IF worker[w].kind = "ladder" THEN rotating'[i] = OneLess(rotating[i])
                                        ELSE UNCHANGED rotating
  <2>1. CASE worker'[w] = [worker[w] EXCEPT !.pc = "launch"] /\ UNCHANGED rotating
    BY <1>1, <2>1 DEF Working
  <2>2. CASE /\ worker'[w] = Through(w)
             /\ \/ worker[w].kind = "ladder" /\ rotating'[i] = OneLess(rotating[i])
                \/ worker[w].kind # "ladder" /\ UNCHANGED rotating
    <3>1. Through(w).index = i /\ Through(w).kind = worker[w].kind /\ Through(w).pc = "end"
      BY <1>1 DEF Through, Working
    <3> QED
      BY <2>2, <3>1
  <2> QED
    BY <1>1, <1>4, <2>1, <2>2
<1>8. ASSUME i \notin haunted'
      PROVE  InOrder(i)'
  <2>1. InOrder(i)
    BY <1>1, <1>2, <1>8 DEF WorkInOrder
  <2>2. Holds(Flagging, w, i)
    BY <1>3 DEF Holds, Busy
  <2>3. Holds(Flagging, w, i)' /\ ~Holds(Marking, w, i)'
    BY <1>3, <1>7 DEF Holds, Flagging, Marking, Busy
  <2> QED
    BY <1>2, <1>6, <2>1, <2>2, <2>3, OthersHold DEF InOrder
<1>9. \A j \in Index \ haunted' : j # i => InOrder(j)'
  BY <1>6, <1>7, ElsewhereInOrder
<1> QED
  BY <1>8, <1>9 DEF WorkInOrder

\* w takes down the flag or a mark: its own, unless the index is haunted.
LEMMA EndInOrder ==
  ASSUME Typed, WorkInOrder, NEW w \in Worker, End(w)
  PROVE  WorkInOrder'
<1> PICK i : i = worker[w].index
  OBVIOUS
<1>1. /\ worker[w] \in Working /\ Errand(worker[w])
      /\ worker \in [Worker -> Working]
      /\ rotating \in [Index -> Nat] /\ i \in Index
  BY DEF Typed, WorkersTyped, MarksTyped, Working
<1>2. /\ worker[w].pc = "end"
      /\ worker' = [worker EXCEPT ![w] = Resting]
      /\ haunted' = IF AtWork(i) \subseteq {w} THEN haunted \ {i} ELSE haunted
  BY DEF End, Goes
<1>3. \/ /\ worker[w].kind \in Flagging /\ remediating' = remediating \ {i}
         /\ UNCHANGED rotating
      \/ /\ worker[w].kind \in Marking /\ rotating' = [rotating EXCEPT ![i] = OneLess(rotating[i])]
         /\ UNCHANGED remediating
  BY DEF End, EndRotation
<1>4. /\ \A v \in Worker \ {w} : worker'[v] = worker[v]
      /\ worker'[w] = Resting
      /\ \A j \in Index \ {i} :
           rotating'[j] = rotating[j] /\ (j \in remediating => j \in remediating')
      /\ haunted \subseteq haunted' \cup {i}
  BY <1>1, <1>2, <1>3
<1>5. OnlyAt(w, i)
  BY <1>4 DEF OnlyAt
<1>6. ~Holds(Flagging, w, i)' /\ ~Holds(Marking, w, i)' /\ ~Stacks(w, i)'
  BY <1>4 DEF Holds, Stacks, Flagging, Marking, Resting
<1>7. ASSUME i \notin haunted', i \in haunted
      PROVE  InOrder(i)'
  <2>1. AtWork(i) \subseteq {w}
    BY <1>2, <1>7
  <2>2. \A v \in Worker \ {w} : ~Holds(Flagging, v, i) /\ ~Holds(Marking, v, i) /\ ~Stacks(v, i)
    BY <2>1, Stacker DEF AtWork, Holders, Holds, Busy
  <2>3. \A v \in Worker : ~Holds(Flagging, v, i)' /\ ~Holds(Marking, v, i)' /\ ~Stacks(v, i)'
    BY <1>5, <1>6, <2>2, OthersHold
  <2> QED
    BY <2>3 DEF InOrder
<1>8. ASSUME i \notin haunted
      PROVE  InOrder(i)'
  <2>1. InOrder(i) /\ rotating[i] \in Nat
    BY <1>1, <1>8 DEF WorkInOrder
  <2>2. CASE worker[w].kind \in Flagging
    <3>1. UNCHANGED rotating
      BY <1>3, <2>2 DEF Flagging, Marking
    <3>2. Holds(Flagging, w, i)
      BY <1>2, <2>2 DEF Holds, Busy
    <3>3. \A v \in Worker : ~Holds(Flagging, v, i)' /\ ~Stacks(v, i)'
      BY <1>5, <1>6, <2>1, <3>2, OthersHold, Stacker DEF InOrder
    <3> QED
      BY <1>5, <1>6, <2>1, <3>1, <3>3, OthersHold DEF InOrder
  <2>3. CASE worker[w].kind \in Marking
    <3>1. UNCHANGED remediating /\ rotating'[i] = OneLess(rotating[i])
      BY <1>1, <1>3, <2>3 DEF Flagging, Marking
    <3>2. Holds(Marking, w, i)
      BY <1>2, <2>3 DEF Holds, Busy
    <3>3. \A v \in Worker : ~Holds(Marking, v, i)'
      BY <1>5, <1>6, <2>1, <3>2, OthersHold DEF InOrder
    <3> QED
      BY <1>5, <1>6, <2>1, <3>1, <3>3, OthersHold DEF InOrder
  <2> QED
    BY <1>3, <2>2, <2>3
<1>9. \A j \in Index \ haunted' : j # i => InOrder(j)'
  BY <1>4, <1>5, ElsewhereInOrder DEF Resting
<1> QED
  BY <1>7, <1>8, <1>9 DEF WorkInOrder

\* forgetInstance wipes the marks of an index: nobody is at work on it, or it is haunted.
LEMMA ForgetInOrder ==
  ASSUME Typed, WorkInOrder, NEW r \in Resizer, Forget(r)
  PROVE  WorkInOrder'
<1> PICK i : i = index[resizer[r].inst]
  OBVIOUS
<1>1. /\ remediating' = remediating \ {i}
      /\ rotating' = [rotating EXCEPT ![i] = 0]
      /\ haunted' = IF AtWork(i) = {} THEN haunted ELSE haunted \cup {i}
      /\ UNCHANGED worker
      /\ rotating \in [Index -> Nat]
  BY DEF Forget, Typed, MarksTyped
<1>2. ASSUME NEW j \in Index \ haunted', j # i
      PROVE  InOrder(j)'
  <2>1. InOrder(j) /\ rotating'[j] = rotating[j] /\ (j \in remediating => j \in remediating')
    BY <1>1, <1>2 DEF WorkInOrder
  <2> QED
    BY <1>1, <2>1 DEF InOrder, Holds, Stacks
<1>3. ASSUME i \notin haunted'
      PROVE  InOrder(i)'
  <2>1. AtWork(i) = {}
    BY <1>1, <1>3
  <2>2. \A w \in Worker : ~Holds(Flagging, w, i) /\ ~Holds(Marking, w, i) /\ ~Stacks(w, i)
    BY <2>1, Stacker DEF AtWork, Holders, Holds, Busy
  <2>3. \A w \in Worker : ~Holds(Flagging, w, i)' /\ ~Holds(Marking, w, i)' /\ ~Stacks(w, i)'
    BY <1>1, <2>2 DEF Holds, Stacks
  <2> QED
    BY <2>3 DEF InOrder
<1> QED
  BY <1>2, <1>3 DEF WorkInOrder

LEMMA OrderStep == FleetInv /\ Typed /\ WorkInOrder /\ Counted /\ [Next]_vars => WorkInOrder'
<1> SUFFICES ASSUME FleetInv, Typed, WorkInOrder, Counted, [Next]_vars
             PROVE  WorkInOrder'
  OBVIOUS
<1>1. ASSUME UNCHANGED <<remediating, rotating, worker, haunted>>
      PROVE  WorkInOrder'
  BY <1>1 DEF WorkInOrder, InOrder, Holds, Stacks
<1>2. ASSUME NEW r \in Resizer,
             \/ \E size \in Sizes : Resize(r, size)
             \/ Add(r) \/ List(r) \/ Remove(r) \/ Removed(r) \/ StopRemoved(r)
      PROVE  WorkInOrder'
  BY <1>1, <1>2 DEF Resize, Add, List, Remove, Removed, StopRemoved, marks, history
<1>3. ASSUME NEW n \in 1..made, Launch(n) \/ Crash(n)
      PROVE  WorkInOrder'
  BY <1>1, <1>3 DEF Launch, Crash, marks, history
<1>4. ASSUME NEW r \in Resizer, Forget(r)
      PROVE  WorkInOrder'
  BY <1>4, ForgetInOrder
<1>5. ASSUME NEW w \in Worker,
             \/ StartRemediation(w) \/ LookUp(w) \/ Begin(w) \/ Finds(w)
             \/ Claim(w) \/ Mark(w) \/ StopHeld(w) \/ Relaunch(w) \/ End(w)
      PROVE  WorkInOrder'
  BY <1>5, MovesOn, FlagGoesUp, MarkGoesUp, WorkIsDone, EndInOrder
<1>6. CASE UNCHANGED vars
  BY <1>1, <1>6 DEF vars, marks, history
<1> QED
  BY <1>2, <1>3, <1>4, <1>5, <1>6 DEF Next

-----------------------------------------------------------------------------
(* How many marks there are.                                                *)

LEMMA CountedInit == Init => Counted
<1> SUFFICES ASSUME Init, NEW i \in Index
             PROVE  /\ IsFiniteSet(Rotators(i))
                    /\ rotating[i] = 0 /\ Cardinality(Rotators(i)) = 0
  BY DEF Counted
<1>1. Rotators(i) = {}
  BY DEF Init, Rotators, Holders, Resting
<1> QED
  BY <1>1, FS_EmptySet DEF Init

\* Who rotates what stays as it is, and so do the marks.
LEMMA NobodyRotates ==
  ASSUME Counted, UNCHANGED <<rotating, haunted>>,
         \A v \in Worker, i \in Index : Rotates(v, i)' = Rotates(v, i)
  PROVE  Counted'
<1>1. \A i \in Index : Rotators(i)' = Rotators(i)
  BY RotatorsAreThose
<1> QED
  BY <1>1 DEF Counted

\* w puts up a mark on i, or takes it down, or lets it be.
LEMMA MarksAdjust ==
  ASSUME Typed, Counted, NEW w \in Worker, NEW i \in Index,
         \A v \in Worker \ {w} : worker'[v] = worker[v],
         \A j \in Index \ {i} : rotating'[j] = rotating[j] /\ ~Rotates(w, j) /\ ~Rotates(w, j)',
         \/ (Rotates(w, i)' <=> Rotates(w, i)) /\ rotating'[i] = rotating[i]
         \/ ~Rotates(w, i) /\ Rotates(w, i)' /\ rotating'[i] = rotating[i] + 1
         \/ Rotates(w, i) /\ ~Rotates(w, i)' /\ rotating'[i] = OneLess(rotating[i]),
         \A j \in Index : j \in haunted /\ j \notin haunted' => Rotators(j)' = {},
         haunted' \subseteq haunted,
         rotating' \in [Index -> Nat]
  PROVE  Counted'
<1>1. \A v \in Worker \ {w}, j \in Index : Rotates(v, j)' <=> Rotates(v, j)
  BY DEF Rotates, Holds, Stacks
<1>2. \A j \in Index : /\ IsFiniteSet(Rotators(j)) /\ Cardinality(Rotators(j)) \in Nat
                       /\ rotating[j] \in Nat /\ rotating'[j] \in Nat
  BY FS_CardinalityType DEF Counted, Typed, MarksTyped
<1>3. ASSUME NEW j \in Index,
             Rotators(j)' = Rotators(j), rotating'[j] = rotating[j]
      PROVE  /\ IsFiniteSet(Rotators(j)')
             /\ rotating'[j] <= Cardinality(Rotators(j)')
             /\ j \notin haunted => rotating'[j] = Cardinality(Rotators(j)')
  BY <1>3 DEF Counted
<1>4. ASSUME NEW j \in Index, j # i
      PROVE  Rotators(j)' = Rotators(j) /\ rotating'[j] = rotating[j]
  <2>1. \A v \in Worker : Rotates(v, j)' <=> Rotates(v, j)
    BY <1>1, <1>4
  <2>2. Rotators(j)' = Rotators(j)
    BY <2>1, RotatorsAreThose, Zenon
  <2> QED
    BY <1>4, <2>2
<1>5. /\ IsFiniteSet(Rotators(i)')
      /\ rotating'[i] <= Cardinality(Rotators(i)')
      /\ i \notin haunted => rotating'[i] = Cardinality(Rotators(i)')
  <2> DEFINE c == Cardinality(Rotators(i))
  <2>1. /\ rotating[i] <= c
        /\ i \notin haunted => rotating[i] = c
    BY DEF Counted
  <2>2. CASE (Rotates(w, i)' <=> Rotates(w, i)) /\ rotating'[i] = rotating[i]
    <3>1. \A v \in Worker : Rotates(v, i)' <=> Rotates(v, i)
      BY <1>1, <2>2
    <3>2. Rotators(i)' = Rotators(i)
      BY <3>1, RotatorsAreThose, Zenon
    <3> QED
      BY <1>3, <2>2, <3>2
  <2>3. CASE ~Rotates(w, i) /\ Rotates(w, i)' /\ rotating'[i] = rotating[i] + 1
    <3>1. Rotators(i)' = Rotators(i) \cup {w} /\ w \notin Rotators(i)
      BY <1>1, <2>3, RotatorsAreThose
    <3>2. IsFiniteSet(Rotators(i)') /\ Cardinality(Rotators(i)') = c + 1
      BY <1>2, <3>1, FS_AddElement
    <3> QED
      BY <1>2, <2>1, <2>3, <3>2
  <2>4. CASE Rotates(w, i) /\ ~Rotates(w, i)' /\ rotating'[i] = OneLess(rotating[i])
    <3>1. Rotators(i)' = Rotators(i) \ {w} /\ w \in Rotators(i)
      BY <1>1, <2>4, RotatorsAreThose
    <3>2. IsFiniteSet(Rotators(i)') /\ Cardinality(Rotators(i)') = c - 1
      BY <1>2, <3>1, FS_RemoveElement
    <3>3. Cardinality(Rotators(i)') \in Nat
      BY <3>2, FS_CardinalityType
    <3> QED
      BY <1>2, <2>1, <2>4, <3>2, <3>3 DEF OneLess
  <2> QED
    BY <2>2, <2>3, <2>4
<1>6. ASSUME NEW j \in Index
      PROVE  /\ IsFiniteSet(Rotators(j)')
             /\ rotating'[j] <= Cardinality(Rotators(j)')
             /\ j \notin haunted => rotating'[j] = Cardinality(Rotators(j)')
  BY <1>3, <1>4, <1>5
<1>7. ASSUME NEW j \in Index, j \in haunted, j \notin haunted'
      PROVE  rotating'[j] = Cardinality(Rotators(j)')
  <2>1. Cardinality(Rotators(j)') = 0
    BY <1>7, FS_EmptySet
  <2> QED
    BY <1>2, <1>6, <2>1
<1> QED
  BY <1>6, <1>7 DEF Counted

\* A step of a worker adjusts the marks to who rotates.
LEMMA CountedWorkerStep ==
  ASSUME Typed, Typed', Counted, NEW w \in Worker,
         \/ LookUp(w) \/ Begin(w) \/ Claim(w) \/ Mark(w)
         \/ StopHeld(w) \/ Relaunch(w) \/ End(w)
  PROVE  Counted'
<1> PICK i : i = worker[w].index
  OBVIOUS
<1>1. /\ worker[w] \in Working /\ Errand(worker[w])
      /\ worker \in [Worker -> Working]
      /\ rotating \in [Index -> Nat] /\ rotating' \in [Index -> Nat] /\ i \in Index
  BY DEF Typed, WorkersTyped, MarksTyped, Working
<1>2. \A v \in Worker \ {w} : worker'[v] = worker[v]
  BY <1>1 DEF LookUp, Begin, Claim, Mark, StopHeld, Relaunch, Done, End, Goes
<1>3. \A j \in Index \ {i} : rotating'[j] = rotating[j]
  BY <1>1 DEF LookUp, Begin, Claim, Mark, StopHeld, Relaunch, Done, End, EndRotation, marks
<1>4. /\ haunted' \subseteq haunted
      /\ \A j \in Index : j \in haunted /\ j \notin haunted' => j = i /\ End(w) /\ AtWork(i) \subseteq {w}
  <2>1. CASE End(w)
    BY <2>1 DEF End
  <2>2. CASE ~End(w)
    <3>1. UNCHANGED haunted
      BY <2>2 DEF LookUp, Begin, Claim, Mark, StopHeld, Relaunch, history
    <3> QED
      BY <3>1
  <2> QED
    BY <2>1, <2>2
<1>5. /\ worker'[w] = Resting \/ (worker'[w].index = i /\ worker'[w].kind = worker[w].kind)
      /\ \/ (Rotates(w, i)' <=> Rotates(w, i)) /\ rotating'[i] = rotating[i]
         \/ ~Rotates(w, i) /\ Rotates(w, i)' /\ rotating'[i] = rotating[i] + 1
         \/ Rotates(w, i) /\ ~Rotates(w, i)' /\ rotating'[i] = OneLess(rotating[i])
  <2> DEFINE k == worker[w].kind
             p == worker[w].pc
  <2>1. Rotates(w, i) <=> \/ k = "rotate" /\ p = "end"
                          \/ k = "ladder" /\ p \in {"stop", "launch"}
    BY <1>1 DEF Rotates, Holds, Stacks, Marking, Busy, Errand, Flagging
  <2>2. ASSUME NEW q \in {"begin", "stop", "launch", "end"},
               worker'[w].pc = q, worker'[w].kind = k, worker'[w].index = i
        PROVE  Rotates(w, i)' <=> \/ k = "rotate" /\ Holds(Marking, w, i)'
                                  \/ k = "ladder" /\ q \in {"stop", "launch"}
    BY <1>1, <2>2 DEF Rotates, Holds, Stacks, Marking
  <2>3. worker'[w] = Resting => ~Rotates(w, i)'
    BY DEF Rotates, Holds, Stacks, Resting, Marking
  <2>4. CASE LookUp(w)
    <3>1. p = "get" /\ k = "ladder" /\ rotating' = rotating
      BY <1>1, <2>4 DEF LookUp, Errand, marks
    <3>2. worker'[w].pc \in {"begin", "end"} /\ worker'[w].kind = k /\ worker'[w].index = i
      BY <1>1, <2>4 DEF LookUp, Goes, Working
    <3> QED
      BY <2>1, <2>2, <3>1, <3>2
  <2>5. CASE Begin(w)
    <3>1. p = "begin" /\ k = "ladder" /\ rotating'[i] = rotating[i] + 1
      BY <1>1, <2>5 DEF Begin, Errand
    <3>2. worker'[w].pc = "stop" /\ worker'[w].kind = k /\ worker'[w].index = i
      BY <1>1, <2>5 DEF Begin, Goes, Working
    <3> QED
      BY <2>1, <2>2, <3>1, <3>2
  <2>6. CASE Claim(w)
    <3>1. p = "claim" /\ k = "watchdog" /\ rotating' = rotating
      BY <1>1, <2>6 DEF Claim, Errand
    <3>2. \/ worker'[w] = Resting
          \/ worker'[w].pc = "stop" /\ worker'[w].kind = k /\ worker'[w].index = i
      BY <1>1, <2>6 DEF Claim, Goes, Working
    <3> QED
      BY <2>1, <2>2, <2>3, <3>1, <3>2
  <2>7. CASE Mark(w)
    <3>1. p = "mark" /\ k = "rotate"
      BY <1>1, <2>7 DEF Mark, Errand
    <3>2. CASE rotating[i] = 0
      <4>1. worker'[w] = Through(w) /\ rotating'[i] = 1
        BY <1>1, <2>7, <3>2 DEF Mark, Goes
      <4>2. worker'[w].pc = "end" /\ worker'[w].kind = k /\ worker'[w].index = i
        BY <1>1, <4>1 DEF Through, Working
      <4>3. Rotates(w, i)'
        BY <3>1, <4>2 DEF Rotates, Holds, Marking, Busy
      <4> QED
        BY <2>1, <3>1, <3>2, <4>1, <4>2, <4>3
    <3>3. CASE rotating[i] # 0
      <4>1. worker'[w] = Resting /\ rotating' = rotating
        BY <1>1, <2>7, <3>3 DEF Mark, Goes
      <4> QED
        BY <2>1, <2>3, <3>1, <4>1
    <3> QED
      BY <3>2, <3>3
  <2>8. CASE StopHeld(w) \/ Relaunch(w)
    <3>1. p \in {"stop", "launch"} /\ k \in Flagging
      BY <1>1, <2>8 DEF StopHeld, Relaunch, Errand
    <3>2. \/ worker'[w] = [worker[w] EXCEPT !.pc = "launch"] /\ rotating' = rotating
          \/ Done(w)
      BY <1>1, <2>8 DEF StopHeld, Relaunch, Goes
    <3>3. CASE worker'[w] = [worker[w] EXCEPT !.pc = "launch"] /\ rotating' = rotating
      <4>1. worker'[w].pc = "launch" /\ worker'[w].kind = k /\ worker'[w].index = i
        BY <1>1, <3>3 DEF Working
      <4> QED
        BY <2>1, <2>2, <3>1, <3>3, <4>1 DEF Flagging
    <3>4. CASE Done(w)
      <4>1. worker'[w] = Through(w)
        BY <1>1, <3>4 DEF Done, Goes
      <4>2. worker'[w].pc = "end" /\ worker'[w].kind = k /\ worker'[w].index = i
        BY <1>1, <4>1 DEF Through, Working
      <4>3. IF k = "ladder" THEN rotating'[i] = OneLess(rotating[i]) ELSE rotating' = rotating
        BY <1>1, <3>4 DEF Done, EndRotation
      <4> QED
        BY <2>1, <2>2, <3>1, <4>2, <4>3 DEF Flagging
    <3> QED
      BY <3>2, <3>3, <3>4
  <2>9. CASE End(w)
    <3>1. p = "end" /\ worker'[w] = Resting
      BY <1>1, <2>9 DEF End, Goes
    <3>2. \/ k \in Flagging /\ rotating' = rotating
          \/ k = "rotate" /\ rotating'[i] = OneLess(rotating[i])
      BY <1>1, <2>9 DEF End, EndRotation, Marking
    <3> QED
      BY <2>1, <2>3, <3>1, <3>2 DEF Flagging
  <2> QED
    BY <2>4, <2>5, <2>6, <2>7, <2>8, <2>9
<1>6. \A j \in Index \ {i} : ~Rotates(w, j) /\ ~Rotates(w, j)'
  BY <1>5 DEF Rotates, Holds, Stacks, Resting, Marking
<1>7. ASSUME NEW j \in Index, j \in haunted, j \notin haunted'
      PROVE  Rotators(j)' = {}
  <2>1. j = i /\ End(w) /\ AtWork(i) \subseteq {w}
    BY <1>4, <1>7
  <2>2. worker'[w] = Resting
    BY <1>1, <2>1 DEF End, Goes
  <2>3. \A v \in Worker \ {w} : ~Rotates(v, i)
    BY <2>1 DEF AtWork, Holders, Rotates, Holds, Stacks, Busy, Flagging, Marking
  <2>4. \A v \in Worker : ~Rotates(v, i)'
    BY <1>2, <2>2, <2>3 DEF Rotates, Holds, Stacks, Resting, Marking
  <2> QED
    BY <2>1, <2>4, RotatorsAreThose
<1> QED
  BY <1>1, <1>2, <1>3, <1>4, <1>5, <1>6, <1>7, MarksAdjust

\* forgetInstance leaves no mark: as many as there ought to be, or the index is haunted.
LEMMA CountedForget ==
  ASSUME Typed, Counted, NEW r \in Resizer, Forget(r)
  PROVE  Counted'
<1> PICK i : i = index[resizer[r].inst]
  OBVIOUS
<1>1. /\ rotating' = [rotating EXCEPT ![i] = 0]
      /\ haunted' = IF AtWork(i) = {} THEN haunted ELSE haunted \cup {i}
      /\ UNCHANGED worker
      /\ rotating \in [Index -> Nat]
  BY DEF Forget, Typed, MarksTyped
<1>2. ASSUME NEW j \in Index
      PROVE  Rotators(j)' = Rotators(j)
  BY <1>1 DEF Rotators, Holders
<1>3. ASSUME NEW j \in Index, j # i
      PROVE  rotating'[j] = rotating[j] /\ (j \in haunted' <=> j \in haunted)
  BY <1>1, <1>3
<1>4. ASSUME i \in Index
      PROVE  /\ rotating'[i] = 0
             /\ i \notin haunted' => Cardinality(Rotators(i)) = 0
             /\ Cardinality(Rotators(i)) \in Nat
  <2>1. i \notin haunted' => AtWork(i) = {}
    BY <1>1
  <2>2. Rotators(i) \subseteq AtWork(i)
    BY DEF Rotators, AtWork, Holders, Flagging, Marking
  <2>3. i \notin haunted' => Rotators(i) = {}
    BY <2>1, <2>2
  <2>4. Cardinality(Rotators(i)) \in Nat
    BY <1>4, FS_CardinalityType DEF Counted
  <2> QED
    BY <1>1, <1>4, <2>3, <2>4, FS_EmptySet
<1> QED
  BY <1>2, <1>3, <1>4 DEF Counted

LEMMA CountedStep == Typed /\ Typed' /\ Counted /\ [Next]_vars => Counted'
<1> SUFFICES ASSUME Typed, Typed', Counted, [Next]_vars
             PROVE  Counted'
  OBVIOUS
<1>1. ASSUME UNCHANGED <<rotating, worker, haunted>>
      PROVE  Counted'
  BY <1>1, NobodyRotates DEF Rotates, Holds, Stacks
<1>2. ASSUME NEW r \in Resizer,
             \/ \E size \in Sizes : Resize(r, size)
             \/ Add(r) \/ List(r) \/ Remove(r) \/ Removed(r) \/ StopRemoved(r)
      PROVE  Counted'
  BY <1>1, <1>2 DEF Resize, Add, List, Remove, Removed, StopRemoved, marks, history
<1>3. ASSUME NEW n \in 1..made, Launch(n) \/ Crash(n)
      PROVE  Counted'
  BY <1>1, <1>3 DEF Launch, Crash, marks, history
<1>4. ASSUME NEW w \in Worker, StartRemediation(w) \/ Finds(w)
      PROVE  Counted'
  <2>1. /\ UNCHANGED <<rotating, haunted>>
        /\ worker[w] = Resting
        /\ worker'[w].pc \in {"get", "claim", "mark"}
        /\ \A v \in Worker \ {w} : worker'[v] = worker[v]
    BY <1>4 DEF StartRemediation, Finds, Goes, marks, history, Typed, WorkersTyped
  <2>2. worker'[w].kind # "rotate" \/ worker'[w].pc = "mark"
    BY <1>4 DEF StartRemediation, Finds, Goes, Typed, WorkersTyped
  <2>3. \A i \in Index : ~Rotates(w, i) /\ ~Rotates(w, i)'
    BY <2>1, <2>2 DEF Rotates, Holds, Stacks, Resting, Marking, Busy
  <2>4. \A v \in Worker, i \in Index : Rotates(v, i)' = Rotates(v, i)
    BY <2>1, <2>3 DEF Rotates, Holds, Stacks
  <2> QED
    BY <2>1, <2>4, NobodyRotates
<1>5. ASSUME NEW r \in Resizer, Forget(r)
      PROVE  Counted'
  BY <1>5, CountedForget
<1>6. ASSUME NEW w \in Worker,
             \/ LookUp(w) \/ Begin(w) \/ Claim(w) \/ Mark(w)
             \/ StopHeld(w) \/ Relaunch(w) \/ End(w)
      PROVE  Counted'
  BY <1>6, CountedWorkerStep
<1>7. CASE UNCHANGED vars
  BY <1>1, <1>7 DEF vars, marks, history
<1> QED
  BY <1>2, <1>3, <1>4, <1>5, <1>6, <1>7 DEF Next

\* pool.go:108-113, 487-502, remediate.go:137: no two goroutines ever remediate the instance
\* at one index, nor claim an exclusive rotation of it, at once, and its mark counts exactly
\* those who rotate it, but where the index was forgotten under somebody; however many
\* workers and resizers there are.
THEOREM WorkIsAlwaysExclusive == Spec => []WorkIsExclusive
<1> DEFINE Inv == FleetInv /\ Typed /\ WorkInOrder /\ Counted
<1>1. Init => Inv
  BY InitInv, TypedInit, OrderInit, CountedInit
<1>2. Inv /\ [Next]_vars => Inv'
  BY FleetStep, TypedStep, OrderStep, CountedStep
<1>3. Inv => WorkIsExclusive
  <2> SUFFICES ASSUME Inv
               PROVE  WorkIsExclusive
    OBVIOUS
  <2>1. \A S : (\A v, w \in S : v = w) => Cardinality(S) <= 1
    <3> SUFFICES ASSUME NEW S, \A v, w \in S : v = w
                 PROVE  Cardinality(S) <= 1
      OBVIOUS
    <3>1. CASE S = {}
      BY <3>1, FS_EmptySet
    <3>2. ASSUME NEW w \in S
          PROVE  Cardinality(S) <= 1
      <4>1. S = {w}
        OBVIOUS
      <4>2. Cardinality({w}) = 1
        BY FS_Singleton, Zenon
      <4> QED
        BY <4>1, <4>2
    <3> QED
      BY <3>1, <3>2
  <2>2. ASSUME NEW i \in Index \ haunted
        PROVE  /\ \A v, w \in Holders(Flagging, i) : v = w
               /\ \A v, w \in Holders(Marking, i) : v = w
    BY HoldersAreThose DEF WorkInOrder, InOrder
  <2>3. \A i \in Index \ haunted : rotating[i] = Cardinality(Rotators(i))
    BY DEF Counted
  <2> QED
    BY <2>1, <2>2, <2>3, TypedIsTypeOK DEF WorkIsExclusive
<1> QED
  BY <1>1, <1>2, <1>3, PTL DEF Spec

=============================================================================
