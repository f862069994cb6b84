------------------------------ MODULE StartupProofs ------------------------------
(* Theorems about Startup for every file and every width of the integer types. *)
EXTENDS Startup, SequenceTheorems, TLAPS

Ints == IntMin..IntMax

-----------------------------------------------------------------------------
(* The conversions *)

\* A remainder is known by what it leaves.
LEMMA ModUnique ==
  ASSUME NEW m \in Nat \ {0}, NEW a \in Int, NEW q \in Int, NEW r \in 0..m - 1, a = q * m + r
  PROVE  a % m = r
<1> DEFINE d == a \div m
           e == a % m
<1>1. d \in Int /\ e \in 0..m - 1 /\ a = m * d + e
  OBVIOUS
<1>2. m * (q - d) = e - r
  BY <1>1
<1> HIDE DEF d, e
<1>3. CASE q - d >= 1
  <2>1. m * (q - d) >= m
    BY <1>1, <1>3
  <2> QED BY <1>1, <1>2, <2>1
<1>4. CASE q - d <= -1
  <2>1. m * (q - d) <= -m
    BY <1>1, <1>4
  <2> QED BY <1>1, <1>2, <2>1
<1>5. CASE q - d = 0
  BY <1>1, <1>2, <1>5 DEF e
<1> QED BY <1>1, <1>3, <1>4, <1>5

\* The sizes of the types.
LEMMA TypeSizes ==
  /\ IntMin \in Int /\ IntMax \in Nat /\ IntMin = -IntMax - 1 /\ IntSize = 2 * IntMax + 2
  /\ \E k \in Nat \ {0} : LongSize = k * IntSize
<1>1. IntSize = 2 * (IntSize \div 2) /\ IntSize \div 2 \in Nat /\ IntSize \div 2 > 5000
  BY SizeAssumption, DefaultAssumption
<1>2. IntMin \in Int /\ IntMax \in Nat /\ IntMin = -IntMax - 1 /\ IntSize = 2 * IntMax + 2
  BY <1>1 DEF IntMin, IntMax
<1>3. LongSize = (LongSize \div IntSize) * IntSize /\ LongSize \div IntSize \in Int
  BY SizeAssumption
<1>4. LongSize \div IntSize \in Nat \ {0}
  <2> DEFINE k == LongSize \div IntSize
  <2>1. k \in Int /\ LongSize = k * IntSize /\ LongSize > 0 /\ IntSize > 0 /\ IntSize \in Nat
    BY <1>3, SizeAssumption
  <2> HIDE DEF k
  <2>2. k > 0
    BY <2>1
  <2> QED BY <2>1, <2>2 DEF k
<1> QED BY <1>2, <1>3, <1>4

\* int holds what a conversion to it makes.
LEMMA NarrowIsInt ==
  ASSUME NEW n \in Int
  PROVE  Narrow(n) \in Ints
<1>1. n % IntSize \in 0..IntSize - 1
  BY SizeAssumption
<1> QED BY <1>1, TypeSizes DEF Narrow, Ints

\* A number that an int holds survives std::stoul and the conversion to int,
\* negative ones included: both wrap by a multiple of the size of int.
LEMMA IntsSurvive ==
  ASSUME NEW t \in Ints
  PROVE  Narrow(Stoul(t)) = t
<1>0. t \in Int /\ IntMin <= t /\ t <= IntMax /\ IntSize \in Nat \ {0} /\ LongSize \in Nat \ {0}
  BY TypeSizes, SizeAssumption DEF Ints
<1>1. PICK k \in Nat \ {0} : LongSize = k * IntSize
  BY TypeSizes
<1>2. LongSize >= IntSize
  BY <1>0, <1>1
<1>3. CASE t >= 0
  <2>1. t = 0 * LongSize + t /\ t \in 0..LongSize - 1 /\ t = 0 * IntSize + t /\ t \in 0..IntSize - 1
    BY <1>0, <1>2, <1>3, TypeSizes
  <2>2. Stoul(t) = t
    BY <1>0, <2>1, ModUnique DEF Stoul
  <2>3. t % IntSize = t
    BY <1>0, <2>1, ModUnique
  <2> QED BY <1>0, <2>2, <2>3, TypeSizes DEF Narrow
<1>4. CASE t < 0
  <2>1. t = (-1) * LongSize + (t + LongSize) /\ t + LongSize \in 0..LongSize - 1
    BY <1>0, <1>2, <1>4, TypeSizes
  <2>2. Stoul(t) = t + LongSize
    BY <1>0, <2>1, ModUnique DEF Stoul
  <2>3. t + LongSize = (k - 1) * IntSize + (t + IntSize) /\ t + IntSize \in 0..IntSize - 1
    BY <1>0, <1>1, <1>4, TypeSizes
  <2>4. (t + LongSize) % IntSize = t + IntSize
    <3>1. t + LongSize \in Int /\ k - 1 \in Int
      BY <1>0
    <3> QED BY <1>0, <2>3, <3>1, ModUnique
  <2>5. t + IntSize > IntMax
    BY <1>0, TypeSizes
  <2> QED BY <1>0, <2>2, <2>4, <2>5 DEF Narrow
<1> QED BY <1>0, <1>3, <1>4

-----------------------------------------------------------------------------
(* The types *)

ConfigType ==
  [port : 0..PortSize - 1, minSize : Ints, maxSize : Ints, maxIdleTime : Ints, connectionTimeout : Ints]

\* What Config has to begin with fits into it.
LEMMA InitTypes == Init => TypeOK
<1> SUFFICES ASSUME Init PROVE TypeOK
  OBVIOUS
<1>1. {5, 20, 60, 5000} \subseteq Ints
  <2>1. IntMin <= 0 /\ IntMax >= 5000 /\ IntMin \in Int /\ IntMax \in Int
    <3>1. IntSize \div 2 \in Nat
      BY SizeAssumption
    <3> QED BY <3>1, DefaultAssumption DEF IntMin, IntMax
  <2> QED BY <2>1 DEF Ints
<1>2. 3306 \in 0..PortSize - 1
  BY DefaultAssumption, SizeAssumption
<1>3. config \in ConfigType
  BY <1>1, <1>2 DEF Init, LoadInit, ConfigType
<1>4. lines \in Seq(Line)
  BY EmptySeq DEF Init, LoadInit
<1>5. configMap \in [Settings -> Texts \cup {Unset}] /\ outcome = "reading"
  BY DEF Init, LoadInit, NoSettings
<1>6. 0 \in 0..MaxLeases /\ 0 \in Nat
  BY LeaseAssumption
<1> QED BY <1>3, <1>4, <1>5, <1>6 DEF Init, TypeOK, LoadTypeOK, ConfigType, Ints

\* What is converted is a number.
LEMMA TextIsNumber ==
  ASSUME configMap \in [Settings -> Texts \cup {Unset}], NEW s \in Numeric, Text(s) \notin {Word, Empty}
  PROVE  Text(s) \in Int
<1>1. Default[s] \in Int
  BY DEF Default, Numeric, Settings
<1>2. configMap[s] \in Texts \cup {Unset}
  BY DEF Settings
<1> QED BY <1>1, <1>2, TextAssumption DEF Text, Texts

\* And it is converted to a number that Config can hold.
LEMMA ConvertedType ==
  ASSUME configMap \in [Settings -> Texts \cup {Unset}], ~ConversionThrows
  PROVE  Converted \in ConfigType
<1>1. \A s \in {"port", "maxIdleTime", "connectionTimeout"} : ~StoiThrows(Text(s))
  BY DEF ConversionThrows
<1>2. \A s \in {"initSize", "maxSize"} : ~StoulThrows(Text(s)) /\ Text(s) \in Int
  <2>1. \A s \in {"initSize", "maxSize"} : ~StoulThrows(Text(s)) /\ s \in Numeric
    BY DEF ConversionThrows, Numeric
  <2> QED BY <2>1, TextIsNumber DEF StoulThrows
<1>3. \A s \in {"port", "maxIdleTime", "connectionTimeout"} : Text(s) \in Ints
  BY <1>1 DEF StoiThrows, Ints
<1>4. Text("port") \in Int
  BY <1>3, TypeSizes DEF Ints
<1>5. Text("port") % PortSize \in 0..PortSize - 1
  BY <1>4, SizeAssumption
<1>6. \A s \in {"initSize", "maxSize"} : Narrow(Stoul(Text(s))) \in Ints
  <2>1. \A s \in {"initSize", "maxSize"} : Stoul(Text(s)) \in Int
    BY <1>2, SizeAssumption DEF Stoul
  <2> QED BY <2>1, NarrowIsInt
<1> QED BY <1>3, <1>5, <1>6 DEF Converted, ConfigType

LEMMA LoadTypes ==
  ASSUME LoadTypeOK, LoadConfig
  PROVE  LoadTypeOK'
<1> USE DEF LoadTypeOK
<1>1. CASE OpenFails
  BY <1>1 DEF OpenFails
<1>2. ASSUME NEW l \in Line, ReadLine(l) PROVE LoadTypeOK'
  <2>1. lines' \in Seq(Line)
    BY <1>2 DEF ReadLine
  <2>2. l # Skipped => l[1] \in Settings /\ l[2] \in Texts
    BY DEF Line
  <2>3. configMap' \in [Settings -> Texts \cup {Unset}]
    BY <1>2, <2>2 DEF ReadLine, Assign
  <2> QED BY <1>2, <2>1, <2>3 DEF ReadLine
<1>3. CASE Load
  <2>1. lines' \in Seq(Line) /\ configMap' \in [Settings -> Texts \cup {Unset}]
    BY <1>3, EmptySeq DEF Load, NoSettings
  <2>2. config' = config \/ config' \in ConfigType
    BY <1>3, ConvertedType DEF Load
  <2>3. outcome' \in {"rejected", "throws", "accepted"}
    BY <1>3 DEF Load
  <2> QED BY <2>1, <2>2, <2>3 DEF ConfigType, Ints
<1> QED BY <1>1, <1>2, <1>3 DEF LoadConfig

LEMMA MinSizeIsInt == LoadTypeOK => config.minSize \in Int /\ config.maxSize \in Int
BY TypeSizes DEF LoadTypeOK

LEMMA TypeStep == TypeOK /\ [Next]_vars => TypeOK'
<1> SUFFICES ASSUME TypeOK, [Next]_vars PROVE TypeOK'
  OBVIOUS
<1>1. CASE LoadStep
  BY <1>1, LoadTypes DEF LoadStep, poolVars, TypeOK
<1>2. ASSUME UNCHANGED loadVars,
             stage' \in {"loading", "failed", "running", "undefined"},
             queued' \in Nat, active' \in 0..MaxLeases, creating' \in BOOLEAN
      PROVE  TypeOK'
  BY <1>2 DEF loadVars, TypeOK, LoadTypeOK
<1>3. CASE ConstructorFails \/ ProducerTests \/ ProducerPushes \/ Lend \/ Lose \/ Return
  <2>1. stage' \in {"loading", "failed", "running", "undefined"} /\ creating' \in BOOLEAN
    BY <1>3 DEF ConstructorFails, ProducerTests, ProducerPushes, Lend, Lose, Return, poolVars, TypeOK
  <2>2. queued' \in Nat /\ active' \in 0..MaxLeases
    <3>1. queued \in Nat /\ active \in 0..MaxLeases
      BY DEF TypeOK
    <3>2. CASE Lend \/ Lose \/ Return
      BY <3>1, <3>2, LeaseAssumption DEF Lend, Lose, Return
    <3>3. CASE ConstructorFails \/ ProducerTests \/ ProducerPushes
      BY <3>1, <3>3 DEF ConstructorFails, ProducerTests, ProducerPushes, poolVars
    <3> QED BY <1>3, <3>2, <3>3
  <2>3. UNCHANGED loadVars
    BY <1>3 DEF ConstructorFails, ProducerTests, ProducerPushes, Lend, Lose, Return
  <2> QED BY <1>2, <2>1, <2>2, <2>3
<1>4. CASE Initialize
  <2>1. config.minSize \in Int
    BY MinSizeIsInt DEF TypeOK
  <2>2. queued' \in Nat
    BY <1>4, <2>1 DEF Initialize, TypeOK
  <2> QED BY <1>2, <1>4, <2>2 DEF Initialize, TypeOK
<1>5. ASSUME NEW n \in 0..queued, Sweep(n) PROVE TypeOK'
  BY <1>2, <1>5 DEF Sweep, TypeOK
<1>6. CASE UNCHANGED vars
  BY <1>2, <1>6 DEF vars, poolVars, TypeOK
<1> QED BY <1>1, <1>3, <1>4, <1>5, <1>6 DEF Next

\* loadConfig and the constructor keep every variable in its type, whatever
\* the file says: each conversion ends in the range of its type or throws.
THEOREM StartupTypes == Spec => []TypeOK
BY InitTypes, TypeStep, PTL DEF Spec

-----------------------------------------------------------------------------
(* The pool *)

\* initSize = 0 passes the validation, and so does a number that becomes zero
\* or less as an int: no connection is ever opened and no request is served.
NoServiceWithoutMinimum ==
  stage = "running" /\ config.minSize <= 0 => queued = 0 /\ active = 0 /\ ~creating

\* With no minimum there is nothing in the pool, and the sweeper's loop goes
\* on at an empty queue only if the minimum is negative.
ServiceInv ==
  /\ stage = "loading" => queued = 0 /\ active = 0 /\ ~creating
  /\ NoServiceWithoutMinimum
  /\ FrontExists

LEMMA ServiceStep == TypeOK /\ ServiceInv /\ [Next]_vars => ServiceInv'
<1> SUFFICES ASSUME TypeOK, ServiceInv, [Next]_vars PROVE ServiceInv'
  OBVIOUS
<1>0. config.minSize \in Int /\ config.maxSize \in Int /\ queued \in Nat /\ active \in 0..MaxLeases
  BY MinSizeIsInt DEF TypeOK
<1> USE DEF ServiceInv, NoServiceWithoutMinimum, FrontExists
<1>1. CASE LoadStep
  BY <1>1 DEF LoadStep, poolVars
<1>2. CASE ConstructorFails
  BY <1>2 DEF ConstructorFails, loadVars, poolVars
<1>3. CASE Initialize
  BY <1>0, <1>3 DEF Initialize, loadVars
<1>4. CASE ProducerTests \/ ProducerPushes
  BY <1>0, <1>4 DEF ProducerTests, NeedMore, ProducerPushes, loadVars
<1>5. CASE Lend \/ Lose \/ Return
  BY <1>0, <1>5 DEF Lend, Lose, Return, loadVars
<1>6. ASSUME NEW n \in 0..queued, Sweep(n) PROVE ServiceInv'
  <2>1. queued' = n /\ n <= queued /\ n \in Nat /\ config' = config /\ UNCHANGED <<active, creating>>
        /\ stage = "running" /\ (stage' = stage \/ (stage' = "undefined" /\ n > config.minSize /\ n = 0))
    BY <1>0, <1>6 DEF Sweep, Sweeps, loadVars
  <2> QED BY <1>0, <2>1
<1>7. CASE UNCHANGED vars
  BY <1>7 DEF vars, loadVars, poolVars
<1> QED BY <1>1, <1>2, <1>3, <1>4, <1>5, <1>6, <1>7 DEF Next

LEMMA ServiceCorrect == Spec => []ServiceInv
<1>1. Init => ServiceInv
  BY DEF Init, ServiceInv, NoServiceWithoutMinimum, FrontExists
<1> QED BY <1>1, InitTypes, TypeStep, ServiceStep, PTL DEF Spec

\* A file whose initSize is zero, or becomes zero or less as an int, makes a
\* pool that never has a connection, for every width of the types.
THEOREM NoServiceFromZero == Spec => []NoServiceWithoutMinimum
<1>1. ServiceInv => NoServiceWithoutMinimum
  BY DEF ServiceInv
<1> QED BY <1>1, ServiceCorrect, PTL

\* The sweeper's front() is called on a queue with a connection in it, for
\* every accepted file but one whose initSize becomes negative.
THEOREM SweeperFindsAFront == Spec => []FrontExists
<1>1. ServiceInv => FrontExists
  BY DEF ServiceInv
<1> QED BY <1>1, ServiceCorrect, PTL

-----------------------------------------------------------------------------
(* The sizes of a pool that runs *)

\* CapacityBound of ConnectionPool, where a pool has connections at all.
Opening == IF creating THEN 1 ELSE 0
SizeBound ==
  stage = "running" /\ config.minSize > 0 => queued + active + Opening <= config.maxSize + 1

SizeInv ==
  /\ stage \in {"running", "undefined"} => outcome = "accepted"
  /\ outcome = "accepted" => ValidSizes(config)
  /\ SizeBound

LEMMA SizeStep == TypeOK /\ ServiceInv /\ SizeInv /\ [Next]_vars => SizeInv'
<1> SUFFICES ASSUME TypeOK, ServiceInv, SizeInv, [Next]_vars PROVE SizeInv'
  OBVIOUS
<1>0. /\ config.minSize \in Int /\ config.maxSize \in Int
      /\ queued \in Nat /\ active \in Nat /\ creating \in BOOLEAN
  BY MinSizeIsInt, LeaseAssumption DEF TypeOK
<1> USE DEF SizeInv, SizeBound, Opening
<1>1. CASE LoadStep
  <2>1. stage = "loading" /\ stage' = stage /\ outcome = "reading"
    BY <1>1 DEF LoadStep, LoadConfig, OpenFails, ReadLine, Load
  <2>2. outcome' = "accepted" => ValidSizes(config')
    BY <1>1, <2>1 DEF LoadStep, LoadConfig, OpenFails, ReadLine, Load
  <2> QED BY <2>1, <2>2 DEF ValidSizes
<1>2. ASSUME UNCHANGED loadVars, stage' = "running" => stage = "running",
             stage' = "undefined" => stage = "running",
             stage' = "running" /\ config.minSize > 0 => queued' + active' + Opening' <= config.maxSize + 1
      PROVE  SizeInv'
  BY <1>2 DEF loadVars, ValidSizes
<1>3. CASE ConstructorFails
  BY <1>2, <1>3 DEF ConstructorFails
<1>4. CASE Initialize
  <2>1. UNCHANGED <<config, outcome, active, creating>> /\ outcome = "accepted" /\ stage' # "undefined"
        /\ active = 0 /\ ~creating
    BY <1>4 DEF Initialize, loadVars, ServiceInv
  <2>2. stage' = "running" /\ config.minSize > 0 => queued' = config.minSize
    BY <1>4 DEF Initialize
  <2>3. config.minSize <= config.maxSize
    BY <2>1 DEF ValidSizes
  <2> QED BY <1>0, <2>1, <2>2, <2>3 DEF ValidSizes
<1>5. CASE ProducerTests \/ ProducerPushes
  <2>1. /\ stage = "running" /\ stage' = stage /\ UNCHANGED loadVars
        /\ config.minSize > 0 => queued' + active' + Opening' <= config.maxSize + 1
    BY <1>0, <1>5 DEF ProducerTests, NeedMore, ProducerPushes
  <2> QED BY <1>2, <2>1
<1>6. CASE Lend \/ Lose \/ Return
  <2>1. /\ stage = "running" /\ stage' = stage /\ UNCHANGED loadVars
        /\ config.minSize > 0 => queued' + active' + Opening' <= config.maxSize + 1
    BY <1>0, <1>6 DEF Lend, Lose, Return
  <2> QED BY <1>2, <2>1
<1>7. ASSUME NEW n \in 0..queued, Sweep(n) PROVE SizeInv'
  <2>1. /\ stage = "running" /\ UNCHANGED loadVars
        /\ config.minSize > 0 => queued' + active' + Opening' <= config.maxSize + 1
    BY <1>0, <1>7 DEF Sweep
  <2> QED BY <1>2, <2>1
<1>8. CASE UNCHANGED vars
  BY <1>8 DEF vars, loadVars, poolVars, ValidSizes
<1> QED BY <1>1, <1>3, <1>4, <1>5, <1>6, <1>7, <1>8 DEF Next

LEMMA SizesCorrect == Spec => [](TypeOK /\ SizeInv)
<1>1. Init => SizeInv
  BY DEF Init, LoadInit, SizeInv, SizeBound
<1> QED BY <1>1, InitTypes, TypeStep, ServiceCorrect, SizeStep, PTL DEF Spec

\* For every file, every repetition of its keys and every width of the types:
\* a pool that runs has the sizes that the other modules assume, unless its
\* minimum has become negative, and then it never has a connection.
THEOREM SizesAsAssumed == Spec => []SizesFit
<1>1. TypeOK /\ SizeInv => SizesFit
  BY MinSizeIsInt DEF TypeOK, SizeInv, ValidSizes, SizesFit
<1> QED BY <1>1, SizesCorrect, PTL

\* At most one connection too many here as well: counting connections instead
\* of following the threads has not changed what the producer can do.
THEOREM CountsWithinBound == Spec => []SizeBound
<1>1. SizeInv => SizeBound
  BY DEF SizeInv
<1> QED BY <1>1, SizesCorrect, PTL

-----------------------------------------------------------------------------
(* What is accepted *)

\* The sizes are what the file says if an int can hold that.
THEOREM SizesAsWritten == Spec => AcceptedAsWritten
<1> DEFINE Sizes == {Text("initSize"), Text("maxSize")}
           Faithful == outcome = "reading" /\ outcome' = "accepted" /\ Sizes \subseteq IntMin..IntMax
             => /\ config'.minSize = Text("initSize") /\ config'.maxSize = Text("maxSize")
                /\ Text("initSize") <= Text("maxSize")
<1>1. Next => Faithful \/ UNCHANGED loadVars
  <2> SUFFICES ASSUME Next, outcome = "reading", outcome' = "accepted", Sizes \subseteq IntMin..IntMax
               PROVE  /\ config'.minSize = Text("initSize") /\ config'.maxSize = Text("maxSize")
                      /\ Text("initSize") <= Text("maxSize")
    BY Zenon
  <2>1. LoadConfig
    BY DEF Next, LoadStep, ConstructorFails, Initialize, ProducerTests, ProducerPushes, Lend, Lose,
           Return, Sweep, loadVars
  <2>2. Load
    BY <2>1 DEF LoadConfig, OpenFails, ReadLine
  <2>3. config' = Converted /\ ValidSizes(Converted)
    BY <2>2 DEF Load
  <2>4. Text("initSize") \in Ints /\ Text("maxSize") \in Ints
    BY DEF Ints
  <2>5. Converted.minSize = Text("initSize") /\ Converted.maxSize = Text("maxSize")
    BY <2>4, IntsSurvive DEF Converted
  <2> QED BY <2>3, <2>5 DEF ValidSizes
<1>2. [Next]_vars => [Faithful]_loadVars
  BY <1>1 DEF vars
<1> QED BY <1>2, PTL DEF Spec, AcceptedAsWritten

-----------------------------------------------------------------------------
(* Duplicate keys *)

\* configMap has for every key the last line with that key.
Places(s) == {i \in DOMAIN lines : lines[i] # Skipped /\ lines[i][1] = s}
LastInv ==
  outcome = "reading" => \A s \in Settings :
    \/ Places(s) = {} /\ configMap[s] = Unset
    \/ \E i \in Places(s) : (\A j \in Places(s) : j <= i) /\ configMap[s] = lines[i][2]

LEMMA LastStep == TypeOK /\ LastInv /\ [Next]_vars => LastInv'
<1> SUFFICES ASSUME TypeOK, LastInv, [Next]_vars, outcome' = "reading" PROVE LastInv'
  BY DEF LastInv
<1>0. lines \in Seq(Line) /\ configMap \in [Settings -> Texts \cup {Unset}]
  BY DEF TypeOK, LoadTypeOK
<1>1. CASE UNCHANGED loadVars
  BY <1>1 DEF loadVars, LastInv, Places
<1>2. ASSUME NEW l \in Line, ReadLine(l) PROVE LastInv'
  <2> DEFINE n == Len(lines) + 1
  <2>1. /\ lines' = Append(lines, l) /\ lines' \in Seq(Line) /\ Len(lines) \in Nat
        /\ DOMAIN lines' = 1..n /\ DOMAIN lines = 1..Len(lines)
        /\ lines'[n] = l /\ \A i \in 1..Len(lines) : lines'[i] = lines[i]
        /\ outcome = "reading"
    BY <1>0, <1>2 DEF ReadLine
  <2>2. ASSUME NEW s \in Settings, l = Skipped \/ l[1] # s
        PROVE  Places(s)' = Places(s) /\ configMap'[s] = configMap[s]
    <3>1. Places(s)' = Places(s)
      BY <2>1, <2>2 DEF Places
    <3>2. configMap'[s] = configMap[s]
      BY <1>0, <1>2, <2>2 DEF ReadLine, Assign, Line
    <3> QED BY <3>1, <3>2
  <2>3. ASSUME NEW s \in Settings, l # Skipped, l[1] = s
        PROVE  n \in Places(s)' /\ (\A j \in Places(s)' : j <= n) /\ configMap'[s] = lines'[n][2]
    <3>1. n \in Places(s)' /\ (\A j \in Places(s)' : j <= n)
      BY <2>1, <2>3 DEF Places
    <3>2. configMap'[s] = l[2]
      BY <1>0, <1>2, <2>3 DEF ReadLine, Assign
    <3> QED BY <2>1, <3>1, <3>2
  <2>4. \A s \in Settings : \A i \in Places(s) : lines'[i] = lines[i]
    BY <2>1 DEF Places
  <2> HIDE DEF n
  <2>5. ASSUME NEW s \in Settings
        PROVE  \/ Places(s)' = {} /\ configMap'[s] = Unset
               \/ \E i \in Places(s)' : (\A j \in Places(s)' : j <= i) /\ configMap'[s] = lines'[i][2]
    <3>1. CASE l # Skipped /\ l[1] = s
      BY <2>3, <3>1
    <3>2. CASE l = Skipped \/ l[1] # s
      <4>1. Places(s)' = Places(s) /\ configMap'[s] = configMap[s]
        BY <2>2, <3>2
      <4>2. \/ Places(s) = {} /\ configMap[s] = Unset
            \/ \E i \in Places(s) : (\A j \in Places(s) : j <= i) /\ configMap[s] = lines[i][2]
        BY <2>1 DEF LastInv
      <4> QED BY <2>4, <4>1, <4>2
    <3> QED BY <3>1, <3>2
  <2> QED BY <2>5 DEF LastInv
<1>3. CASE UNCHANGED vars
  BY <1>1, <1>3 DEF vars
<1>4. CASE LoadStep
  BY <1>2, <1>4 DEF LoadStep, LoadConfig, OpenFails, Load
<1> QED BY <1>1, <1>2, <1>3, <1>4
        DEF Next, ConstructorFails, Initialize, ProducerTests, ProducerPushes, Lend, Lose, Return, Sweep

\* For a file of any length, with its keys in any order and as often as it
\* likes, the last assignment of a key is the one that counts.
THEOREM LastOneWins == Spec => []LastAssignmentWins
<1>1. Init => LastInv
  BY EmptySeq DEF Init, LoadInit, NoSettings, LastInv, Places
<1>2. TypeOK /\ LastInv => LastAssignmentWins
  <2> SUFFICES ASSUME TypeOK, LastInv, outcome = "reading", NEW s \in Settings
               PROVE  configMap[s] = IF Places(s) = {} THEN Unset
                        ELSE lines[CHOOSE i \in Places(s) : \A j \in Places(s) : j <= i][2]
    BY DEF LastAssignmentWins, Places
  <2>1. CASE Places(s) = {}
    BY <2>1 DEF LastInv
  <2>2. CASE Places(s) # {}
    <3>1. PICK i \in Places(s) : (\A j \in Places(s) : j <= i) /\ configMap[s] = lines[i][2]
      BY <2>2 DEF LastInv
    <3>2. Places(s) \subseteq Int
      BY DEF Places, TypeOK, LoadTypeOK
    <3>3. \A k \in Places(s) : (\A j \in Places(s) : j <= k) => k = i
      BY <3>1, <3>2
    <3>4. (CHOOSE k \in Places(s) : \A j \in Places(s) : j <= k) = i
      BY <3>1, <3>3
    <3> QED BY <2>2, <3>1, <3>4
  <2> QED BY <2>1, <2>2
<1> QED BY <1>1, <1>2, InitTypes, TypeStep, LastStep, PTL DEF Spec
=============================================================================
