-------------------------- MODULE LogConfigProofs --------------------------
(***************************************************************************)
(* What setValue promises its listeners, and what the listener of LogIniter *)
(* makes of the loggers while the program uses them, for any setters,       *)
(* listeners, values and loggers.                                           *)
(***************************************************************************)
EXTENDS LogConfig, TLAPS

(* A setter has listeners before it only while it has the read lock, and    *)
(* those are registered.                                                    *)
TellInv ==
  \A s \in Setters :
    /\ toTell[s] \subseteq m_cbs
    /\ setPc[s] # "tell" => toTell[s] = {}

(* While no calls have overlapped, one setter at most is under way, and     *)
(* every listener it has been through knows the value that it will store.   *)
ToldInv ==
  ~overlapped =>
    /\ \A s, u \in Setters : setPc[s] # "out" /\ setPc[u] # "out" => s = u
    /\ \A s \in Setters : setPc[s] # "out" =>
         \A l \in m_cbs \ toTell[s] : told[l] = setTo[s]
    /\ (\A s \in Setters : setPc[s] = "out") => \A l \in m_cbs : told[l] = m_val

VarInv == VarTypeOK /\ TellInv /\ ToldInv

(* The constructor of the variable establishes the invariant ... *)
LEMMA VarInvInit == ASSUME Init PROVE VarInv
<1>1. VarTypeOK
  <2>1. m_val \in Values /\ setTo \in [Setters -> Values] /\ told \in [Listeners -> Values]
    BY ConfigVarAssumption DEF Init, VarInit
  <2>2. sets \in 0..MaxSets
    BY ConfigVarAssumption DEF Init, VarInit
  <2>3. /\ setPc \in [Setters -> {"out", "tell", "store"}]
        /\ m_cbs \subseteq Listeners
        /\ toTell \in [Setters -> SUBSET Listeners]
    BY DEF Init, VarInit
  <2>4. overlapped \in BOOLEAN
    BY DEF Init, VarInit
  <2> QED BY <2>1, <2>2, <2>3, <2>4 DEF VarTypeOK
<1>2. TellInv
  BY DEF Init, VarInit, TellInv
<1>3. ToldInv
  BY DEF Init, VarInit, ToldInv
<1> QED BY <1>1, <1>2, <1>3 DEF VarInv

(* Every step of the composition is a step of the variable or leaves it.    *)
LEMMA VarSteps ==
  ASSUME [Next]_vars
  PROVE  \/ \E s \in Setters, v \in Values : SetValue(s, v)
         \/ \E s \in Setters, l \in Listeners : Tell(s, l)
         \/ \E s \in Setters : Told(s) \/ Store(s)
         \/ \E l \in Listeners : AddListener(l) \/ DelListener(l)
         \/ UNCHANGED varVars
BY DEF Next, vars, Set, Step, Finish, StoreLogs, Listen, Use, Write

(* ... and setValue, addListener and delListener keep it.                   *)
LEMMA VarInvNext == ASSUME VarInv, [Next]_vars PROVE VarInv'
<1> USE DEF VarInv
<1>1. ASSUME NEW s \in Setters, NEW v \in Values, SetValue(s, v) PROVE VarInv'
  <2>1. VarTypeOK'
    BY <1>1, ConfigVarAssumption DEF VarTypeOK, SetValue
  <2>2. TellInv'
    BY <1>1 DEF VarTypeOK, TellInv, SetValue
  <2>3. ToldInv'
    BY <1>1 DEF VarTypeOK, ToldInv, SetValue
  <2> QED BY <2>1, <2>2, <2>3
<1>2. ASSUME NEW s \in Setters, NEW l \in Listeners, Tell(s, l) PROVE VarInv'
  <2>1. VarTypeOK'
    BY <1>2 DEF VarTypeOK, Tell
  <2>2. TellInv'
    BY <1>2 DEF VarTypeOK, TellInv, Tell
  <2>3. ToldInv'
    BY <1>2 DEF VarTypeOK, ToldInv, Tell
  <2> QED BY <2>1, <2>2, <2>3
<1>3. ASSUME NEW s \in Setters, Told(s) PROVE VarInv'
  <2>1. VarTypeOK'
    BY <1>3 DEF VarTypeOK, Told
  <2>2. TellInv'
    BY <1>3 DEF VarTypeOK, TellInv, Told
  <2>3. ToldInv'
    BY <1>3 DEF VarTypeOK, ToldInv, Told
  <2> QED BY <2>1, <2>2, <2>3
<1>4. ASSUME NEW s \in Setters, Store(s) PROVE VarInv'
  <2>1. VarTypeOK'
    BY <1>4 DEF VarTypeOK, Store
  <2>2. TellInv'
    BY <1>4 DEF VarTypeOK, TellInv, Store
  <2>3. toTell[s] = {}
    BY <1>4 DEF TellInv, Store
  <2>4. ToldInv'
    BY <1>4, <2>3 DEF VarTypeOK, ToldInv, Store
  <2> QED BY <2>1, <2>2, <2>4
<1>5. ASSUME NEW l \in Listeners, AddListener(l) PROVE VarInv'
  <2>1. VarTypeOK'
    BY <1>5 DEF VarTypeOK, AddListener
  <2>2. TellInv'
    BY <1>5 DEF VarTypeOK, TellInv, AddListener
  <2>3. ToldInv'
    BY <1>5 DEF VarTypeOK, ToldInv, AddListener
  <2> QED BY <2>1, <2>2, <2>3
<1>6. ASSUME NEW l \in Listeners, DelListener(l) PROVE VarInv'
  <2>1. VarTypeOK'
    BY <1>6 DEF VarTypeOK, DelListener
  <2>2. TellInv'
    BY <1>6 DEF VarTypeOK, TellInv, DelListener, WriteLockFree
  <2>3. ToldInv'
    BY <1>6 DEF VarTypeOK, ToldInv, DelListener
  <2> QED BY <2>1, <2>2, <2>3
<1>7. CASE UNCHANGED varVars
  BY <1>7 DEF varVars, VarTypeOK, TellInv, ToldInv
<1> QED BY <1>1, <1>2, <1>3, <1>4, <1>5, <1>6, <1>7, VarSteps

(* The invariant of the variable holds in every behaviour. *)
THEOREM VarInvariant == Spec => []VarInv
<1>1. Init => VarInv
  BY VarInvInit
<1>2. VarInv /\ [Next]_vars => VarInv'
  BY VarInvNext
<1> QED BY <1>1, <1>2, PTL DEF Spec

(* delListener takes the write lock, so a listener it has removed is not    *)
(* called by any setValue that goes on or begins later.                     *)
THEOREM DeletedStaysSilent == Spec => []DeletedIsNotTold
<1>1. VarInv => DeletedIsNotTold
  BY DEF VarInv, TellInv, DeletedIsNotTold
<1> QED BY <1>1, VarInvariant, PTL

(* As long as no two calls of setValue overlap, what a listener was told    *)
(* last is the value of the variable whenever nobody is setting it.         *)
THEOREM ListenersAgree == Spec => []ToldIsValue
<1>1. VarInv => ToldIsValue
  BY DEF VarInv, ToldInv, ToldIsValue
<1> QED BY <1>1, VarInvariant, PTL

-----------------------------------------------------------------------------
(* The loggers.                                                             *)

LogShape ==
  /\ m_loggers \subseteq Names
  /\ m_level = [n \in Names |-> m_level[n]]
  /\ m_formater \in [Names -> Pattern]
  /\ m_appenders \in [Names -> Seq(Appender)]

LogInv == LogShape /\ FollowsLogger

(* What setFormatter and the constructors make are appenders. *)
LEMMA AppendersMade ==
  /\ DefaultFormat \in Pattern /\ NoFormat \in Pattern /\ Formats \subseteq Pattern
  /\ NewAppender \in Appender
  /\ \A f \in Pattern : Given(f) \in Appender /\ Given(f).kept
  /\ MadeAppenders \subseteq Appender
<1>1. DefaultFormat \in Pattern /\ NoFormat \in Pattern /\ Formats \subseteq Pattern
  BY LogAssumption DEF Pattern
<1>2. NewAppender \in Appender
  BY <1>1 DEF Appender, NewAppender
<1>3. ASSUME NEW f \in Pattern
      PROVE  /\ Given(f) \in Appender /\ Given(f).kept
             /\ [NewAppender EXCEPT !.fmt = f] \in Appender
  BY <1>2 DEF Appender, NewAppender, Given
<1> QED BY <1>1, <1>2, <1>3 DEF MadeAppenders

LEMMA LogInvInit == ASSUME Init PROVE LogInv
<1>1. LogShape
  <2>1. \A n \in Names : m_appenders[n] \in Seq(Appender)
    <3> DEFINE e == [NewAppender EXCEPT !.fmt = DefaultFormat]
    <3>1. e \in Appender
      BY AppendersMade DEF Appender
    <3>2. \A n \in Names : m_appenders[n] = IF n = Root THEN <<e>> ELSE <<>>
      BY DEF Init, LogInit
    <3> HIDE DEF e
    <3>3. <<e>> \in Seq(Appender) /\ <<>> \in Seq(Appender)
      BY <3>1
    <3> QED BY <3>2, <3>3
  <2> QED BY <2>1, AppendersMade, LogAssumption DEF Init, LogInit, LogShape
<1>2. FollowsLogger
  BY LogAssumption DEF Init, LogInit, FollowsLogger, NewAppender
<1> QED BY <1>1, <1>2 DEF LogInv

(* One operation on the logger n: what it does to the others, and that the  *)
(* appenders keep following their logger.                                   *)
OtherLoggersKept(n) ==
  /\ m_loggers \subseteq m_loggers'
  /\ \A x \in Names : x # n => m_level'[x] = m_level[x] /\ m_appenders'[x] = m_appenders[x]

LEMMA OneLoggerChanges ==
  ASSUME LogInv, NEW n \in Names,
         m_loggers' = m_loggers \/ m_loggers' = m_loggers \cup {n},
         m_level' = m_level \/ \E l : m_level' = [m_level EXCEPT ![n] = l],
         NEW f \in Pattern, m_formater' = [m_formater EXCEPT ![n] = f],
         NEW q \in Seq(Appender), m_appenders' = [m_appenders EXCEPT ![n] = q],
         \A i \in DOMAIN q : q[i].own \/ q[i].kept \/ q[i].fmt = f
  PROVE  LogInv' /\ OtherLoggersKept(n)
<1>1. \A x \in Names : /\ m_formater'[x] = IF x = n THEN f ELSE m_formater[x]
                       /\ m_appenders'[x] = IF x = n THEN q ELSE m_appenders[x]
  BY DEF LogInv, LogShape
<1>2. LogShape'
  <2>1. m_level' = [x \in Names |-> m_level'[x]]
    BY DEF LogInv, LogShape
  <2>2. m_formater' \in [Names -> Pattern] /\ m_appenders' \in [Names -> Seq(Appender)]
    BY DEF LogInv, LogShape
  <2> QED BY <2>1, <2>2 DEF LogInv, LogShape
<1>3. FollowsLogger'
  BY <1>1 DEF LogInv, FollowsLogger
<1>4. \A x \in Names : x # n => m_level'[x] = m_level[x]
  BY DEF LogInv, LogShape
<1> QED BY <1>1, <1>2, <1>3, <1>4 DEF LogInv, OtherLoggersKept

(* Erasing an element of a sequence leaves a sequence of the others. *)
LEMMA RemoveOne ==
  ASSUME NEW S, NEW q \in Seq(S), NEW i \in DOMAIN q, NEW r, r = RemoveAt(q, i)
  PROVE  r \in Seq(S) /\ \A j \in DOMAIN r : \E l \in DOMAIN q : r[j] = q[l]
<1> DEFINE a == SubSeq(q, 1, i - 1)
           b == SubSeq(q, i + 1, Len(q))
<1>0. Len(q) \in Nat /\ i \in 1..Len(q) /\ DOMAIN q = 1..Len(q)
  OBVIOUS
<1>1. a \in Seq(S) /\ Len(a) = i - 1 /\ \A j \in 1..(i - 1) : a[j] = q[j]
  BY <1>0
<1>2. b \in Seq(S) /\ Len(b) = Len(q) - i /\ \A j \in 1..(Len(q) - i) : b[j] = q[i + j]
  BY <1>0
<1> r = a \o b
  BY DEF RemoveAt
<1> HIDE DEF a, b
<1>3. r \in Seq(S) /\ Len(r) = Len(q) - 1 /\ DOMAIN r = 1..(Len(q) - 1)
  <2>1. r \in Seq(S) /\ Len(r) = Len(a) + Len(b)
    BY <1>1, <1>2
  <2>2. Len(a) + Len(b) = Len(q) - 1
    BY <1>0, <1>1, <1>2
  <2> QED BY <2>1, <2>2
<1>4. ASSUME NEW j \in 1..(Len(q) - 1) PROVE r[j] = q[j] \/ r[j] = q[j + 1]
  <2>1. CASE j < i
    BY <1>0, <1>1, <1>2, <2>1
  <2>2. CASE ~(j < i)
    <3>1. r[j] = b[j - (i - 1)] /\ j - (i - 1) \in 1..(Len(q) - i)
      BY <1>0, <1>1, <1>2, <2>2
    <3>2. i + (j - (i - 1)) = j + 1
      BY <1>0
    <3> QED BY <1>2, <3>1, <3>2
  <2> QED BY <2>1, <2>2
<1>5. \A j \in 1..(Len(q) - 1) : j \in DOMAIN q /\ j + 1 \in DOMAIN q
  BY <1>0
<1> QED BY <1>3, <1>4, <1>5

(* The operations that change levels and appenders, and all of them *)
Changing(n) ==
  \/ \E l : SetLevel(n, l)
  \/ \E a \in Appender : AddAppender(n, a)
  \/ ClearAppenders(n)
  \/ \E i \in DOMAIN m_appenders[n] :
       DelAppender(n, i) \/ \E f \in Pattern : AppenderSetFormatter(n, i, f)
Operation(n) ==
  \/ GetLogger(n) \/ Changing(n)
  \/ (\E f \in Pattern : SetFormatter(n, f)) \/ (\E f : SetPattern(n, f))

LEMMA DoesOperations == ASSUME NEW n, NEW o, Do(n, o) PROVE Operation(n)
<1>1. \A f \in Formats : Given(f) \in Appender
  BY AppendersMade
<1> QED BY <1>1, AppendersMade DEF Do, Operation, Changing

LEMMA UsesOperations ==
  ASSUME Use
  PROVE  \/ (\E n \in Names : GetLogger(n)) /\ UNCHANGED touched
         \/ (\E n \in Names, f \in Pattern : SetFormatter(n, f) \/ SetPattern(n, f)) /\ UNCHANGED touched
         \/ \E n \in m_loggers : Changing(n) /\ touched' = touched \cup {n}
<1>1. \A a \in MadeAppenders : a \in Appender
  BY AppendersMade
<1>2. CASE \E n \in m_loggers :
             /\ \/ SetLevel(n, FATAL)
                \/ \E a \in MadeAppenders : AddAppender(n, a)
                \/ ClearAppenders(n)
                \/ \E i \in DOMAIN m_appenders[n] :
                     DelAppender(n, i) \/ \E f \in Pattern : AppenderSetFormatter(n, i, f)
             /\ touched' = touched \cup {n}
  BY <1>1, <1>2 DEF Changing
<1> QED BY <1>2 DEF Use

LEMMA OperationsKeepLogInv ==
  ASSUME LogInv, NEW n \in Names, Operation(n)
  PROVE  LogInv' /\ OtherLoggersKept(n)
<1> DEFINE q == m_appenders[n]
<1>1. /\ m_formater[n] \in Pattern /\ q \in Seq(Appender)
      /\ \A i \in DOMAIN q : q[i].own \/ q[i].kept \/ q[i].fmt = m_formater[n]
      /\ \A i \in DOMAIN q : q[i] \in Appender
      /\ m_formater = [m_formater EXCEPT ![n] = m_formater[n]]
      /\ m_appenders = [m_appenders EXCEPT ![n] = q]
  BY DEF LogInv, LogShape, FollowsLogger
<1>2. CASE GetLogger(n)
  BY <1>1, <1>2, OneLoggerChanges DEF GetLogger
<1>3. CASE \E l : SetLevel(n, l)
  BY <1>1, <1>3, OneLoggerChanges, ZenonT(60) DEF SetLevel
<1>4. ASSUME NEW f \in Pattern, SetFormatter(n, f) PROVE LogInv' /\ OtherLoggersKept(n)
  <2> DEFINE g(i) == [q[i] EXCEPT !.fmt = f, !.kept = FALSE]
             r == [i \in DOMAIN q |-> IF q[i].own THEN q[i] ELSE g(i)]
  <2>1. /\ m_formater' = [m_formater EXCEPT ![n] = f]
        /\ m_appenders' = [m_appenders EXCEPT ![n] = r]
        /\ UNCHANGED <<m_loggers, m_level>>
    BY <1>4 DEF SetFormatter
  <2>2. r \in Seq(Appender) /\ \A i \in DOMAIN r : r[i].own \/ r[i].kept \/ r[i].fmt = f
    <3>1. \A i \in DOMAIN q : g(i) \in Appender /\ g(i).fmt = f
      BY <1>1, <1>4 DEF Appender
    <3>2. DOMAIN q = 1..Len(q) /\ Len(q) \in Nat
      BY <1>1
    <3>3. \A i \in DOMAIN q : r[i] \in Appender /\ (r[i].own \/ r[i].fmt = f)
      <4> SUFFICES ASSUME NEW i \in DOMAIN q PROVE r[i] \in Appender /\ (r[i].own \/ r[i].fmt = f)
        OBVIOUS
      <4>1. CASE q[i].own
        BY <1>1, <4>1
      <4>2. CASE ~q[i].own
        <5> HIDE DEF g
        <5> QED BY <3>1, <4>2
      <4> QED BY <4>1, <4>2
    <3>4. DOMAIN r = DOMAIN q /\ r = [i \in DOMAIN q |-> r[i]]
      OBVIOUS
    <3> HIDE DEF q, r
    <3>5. r \in [1..Len(q) -> Appender]
      BY <3>2, <3>3, <3>4
    <3> QED BY <3>2, <3>3, <3>4, <3>5
  <2> HIDE DEF q, r
  <2> QED BY <1>4, <2>1, <2>2, OneLoggerChanges
<1>9. ASSUME NEW f, SetPattern(n, f) PROVE LogInv' /\ OtherLoggersKept(n)
  <2>1. CASE f \in Formats
    BY <1>4, <1>9, <2>1, AppendersMade DEF SetPattern
  <2>2. CASE f \notin Formats
    BY <1>9, <2>2 DEF SetPattern, logVars, LogInv, LogShape, FollowsLogger, OtherLoggersKept
  <2> QED BY <2>1, <2>2
<1>5. ASSUME NEW a \in Appender, AddAppender(n, a) PROVE LogInv' /\ OtherLoggersKept(n)
  <2> DEFINE e == Adopted(n, a)
             r == Append(q, e)
  <2>1. e \in Appender /\ (e.kept \/ e.fmt = m_formater[n])
    BY <1>1, <1>5 DEF Appender, Adopted
  <2>2. m_appenders' = [m_appenders EXCEPT ![n] = r] /\ UNCHANGED <<m_loggers, m_level, m_formater>>
    BY <1>5 DEF AddAppender
  <2> HIDE DEF e, q
  <2>3. r \in Seq(Appender) /\ \A i \in DOMAIN r : r[i].own \/ r[i].kept \/ r[i].fmt = m_formater[n]
    BY <1>1, <2>1
  <2> HIDE DEF r
  <2> QED BY <1>1, <2>2, <2>3, OneLoggerChanges
<1>6. CASE ClearAppenders(n)
  <2>1. <<>> \in Seq(Appender) /\ DOMAIN <<>> = {}
    OBVIOUS
  <2>2. m_appenders' = [m_appenders EXCEPT ![n] = <<>>] /\ UNCHANGED <<m_loggers, m_level, m_formater>>
    BY <1>6 DEF ClearAppenders
  <2> QED BY <1>1, <2>1, <2>2, OneLoggerChanges
<1>7. ASSUME NEW i \in DOMAIN q, DelAppender(n, i) PROVE LogInv' /\ OtherLoggersKept(n)
  <2> DEFINE r == RemoveAt(q, i)
  <2>1. m_appenders' = [m_appenders EXCEPT ![n] = r] /\ UNCHANGED <<m_loggers, m_level, m_formater>>
    BY <1>7 DEF DelAppender
  <2>2. r \in Seq(Appender) /\ \A j \in DOMAIN r : \E l \in DOMAIN q : r[j] = q[l]
    <3> HIDE DEF q
    <3>1. q \in Seq(Appender)
      BY <1>1
    <3>2. \A t : t = RemoveAt(q, i) => t \in Seq(Appender) /\ \A j \in DOMAIN t : \E l \in DOMAIN q : t[j] = q[l]
      BY <1>7, <3>1, RemoveOne
    <3> QED BY <3>2
  <2> HIDE DEF q, r
  <2>3. \A j \in DOMAIN r : r[j].own \/ r[j].kept \/ r[j].fmt = m_formater[n]
    BY <1>1, <2>2
  <2> QED BY <1>1, <2>1, <2>2, <2>3, OneLoggerChanges
<1>8. ASSUME NEW i \in DOMAIN q, NEW f \in Pattern, AppenderSetFormatter(n, i, f)
      PROVE  LogInv' /\ OtherLoggersKept(n)
  <2> DEFINE e == Given(f)
             r == [q EXCEPT ![i] = e]
  <2>1. e \in Appender /\ e.kept
    BY <1>8, AppendersMade
  <2>2. m_appenders' = [m_appenders EXCEPT ![n] = r] /\ UNCHANGED <<m_loggers, m_level, m_formater>>
    BY <1>8 DEF AppenderSetFormatter
  <2> HIDE DEF e, q
  <2>3. r \in Seq(Appender) /\ \A j \in DOMAIN r : r[j].own \/ r[j].kept \/ r[j].fmt = m_formater[n]
    BY <1>1, <1>8, <2>1
  <2> HIDE DEF r
  <2> QED BY <1>1, <2>2, <2>3, OneLoggerChanges
<1> QED BY <1>2, <1>3, <1>4, <1>5, <1>6, <1>7, <1>8, <1>9 DEF Operation, Changing

-----------------------------------------------------------------------------
(* The listener of LogIniter.                                               *)

(* What SetUp and TearDown are, operation by operation *)
ClearAt(d) == IF d.formatter = NoFormat THEN 3 ELSE 4

LEMMA ConcatEntries ==
  ASSUME NEW S, NEW u \in Seq(S), NEW w \in Seq(S), NEW r, r = u \o w
  PROVE  /\ r \in Seq(S) /\ Len(r) = Len(u) + Len(w)
         /\ Len(u) \in Nat /\ Len(w) \in Nat
         /\ \A i \in 1..Len(u) : r[i] = u[i]
         /\ \A i \in 1..Len(w) : r[Len(u) + i] = w[i]
<1>1. /\ r \in Seq(S) /\ Len(r) = Len(u) + Len(w)
      /\ Len(u) \in Nat /\ Len(w) \in Nat
      /\ \A i \in 1..Len(u) : r[i] = u[i]
  OBVIOUS
<1>2. ASSUME NEW i \in 1..Len(w) PROVE r[Len(u) + i] = w[i]
  <2>1. /\ Len(u) + i \in 1..(Len(u) + Len(w)) /\ Len(u) + i > Len(u)
        /\ (Len(u) + i) - Len(u) = i
    BY <1>1
  <2> QED BY <1>1, <2>1
<1> QED BY <1>1, <1>2

LEMMA SetUpOperations ==
  ASSUME NEW d \in LogDefine
  PROVE  /\ Len(d.appenders) \in Nat /\ DOMAIN d.appenders = 1..Len(d.appenders)
         /\ ClearAt(d) \in {3, 4}
         /\ Len(SetUp(d)) = ClearAt(d) + Len(d.appenders)
         /\ SetUp(d)[1] = Op("get", 0) /\ SetUp(d)[2] = Op("level", d.level)
         /\ ClearAt(d) = 4 => SetUp(d)[3] = Op("formatter", d.formatter)
         /\ SetUp(d)[ClearAt(d)] = Op("clear", 0)
         /\ \A i \in 1..Len(d.appenders) : SetUp(d)[ClearAt(d) + i] = Op("append", d.appenders[i])
<1> DEFINE A == {Op("get", 0), Op("level", d.level), Op("formatter", d.formatter), Op("clear", 0)}
                  \cup {Op("append", d.appenders[i]) : i \in DOMAIN d.appenders}
           a == <<Op("get", 0), Op("level", d.level)>>
           f == IF d.formatter = NoFormat THEN <<>> ELSE <<Op("formatter", d.formatter)>>
           c == <<Op("clear", 0)>>
           p == [i \in DOMAIN d.appenders |-> Op("append", d.appenders[i])]
           k == Len(d.appenders)
<1>1. d.appenders \in Seq(Pattern) /\ k \in Nat /\ DOMAIN d.appenders = 1..k
  BY DEF LogDefine
<1> HIDE DEF k
<1>2. p \in Seq(A) /\ Len(p) = k /\ \A i \in 1..k : p[i] = Op("append", d.appenders[i])
  <2>1. p \in [1..k -> A]
    BY <1>1
  <2>2. DOMAIN p = 1..k
    BY <1>1
  <2> HIDE DEF p, A
  <2>3. p \in Seq(A) /\ Len(p) = k
    BY <1>1, <2>1, <2>2
  <2> QED BY <1>1, <2>3 DEF p
<1>3. /\ a \in Seq(A) /\ Len(a) = 2 /\ a[1] = Op("get", 0) /\ a[2] = Op("level", d.level)
      /\ c \in Seq(A) /\ Len(c) = 1 /\ c[1] = Op("clear", 0)
  BY DEF A
<1>4. SetUp(d) = ((a \o f) \o c) \o p
  BY DEF SetUp
<1>5. \/ ClearAt(d) = 3 /\ f = <<>>
      \/ ClearAt(d) = 4 /\ f = <<Op("formatter", d.formatter)>> /\ Op("formatter", d.formatter) \in A
  BY DEF ClearAt
<1> HIDE DEF A
<1>6. /\ ClearAt(d) \in {3, 4} /\ f \in Seq(A) /\ Len(f) = ClearAt(d) - 3
      /\ ClearAt(d) = 4 => f[1] = Op("formatter", d.formatter)
  <2> HIDE DEF f
  <2>1. CASE ClearAt(d) = 3 /\ f = <<>>
    BY <2>1
  <2>2. CASE /\ ClearAt(d) = 4 /\ f = <<Op("formatter", d.formatter)>>
             /\ Op("formatter", d.formatter) \in A
    <3> DEFINE o == Op("formatter", d.formatter)
    <3> HIDE DEF o
    <3>1. f = <<o>> /\ o \in A
      BY <2>2 DEF o
    <3>2. f \in Seq(A) /\ Len(f) = 1 /\ f[1] = o
      BY <3>1
    <3> QED BY <2>2, <3>2 DEF o
  <2> QED BY <1>5, <2>1, <2>2
<1> HIDE DEF a, f, c, p
<1> DEFINE g == a \o f
           h == g \o c
           w == h \o p
<1>7. /\ g \in Seq(A) /\ Len(g) = Len(a) + Len(f)
      /\ \A i \in 1..Len(a) : g[i] = a[i]
      /\ \A i \in 1..Len(f) : g[Len(a) + i] = f[i]
  <2>1. a \in Seq(A) /\ f \in Seq(A)
    BY <1>3, <1>6
  <2> QED BY <2>1, ConcatEntries
<1> HIDE DEF g
<1>8. /\ h \in Seq(A) /\ Len(h) = Len(g) + Len(c)
      /\ \A i \in 1..Len(g) : h[i] = g[i]
      /\ \A i \in 1..Len(c) : h[Len(g) + i] = c[i]
  <2>1. g \in Seq(A) /\ c \in Seq(A)
    BY <1>3, <1>7
  <2> QED BY <2>1, ConcatEntries
<1> HIDE DEF h
<1>9. /\ Len(w) = Len(h) + Len(p)
      /\ \A i \in 1..Len(h) : w[i] = h[i]
      /\ \A i \in 1..Len(p) : w[Len(h) + i] = p[i]
  <2>1. h \in Seq(A) /\ p \in Seq(A)
    BY <1>2, <1>8
  <2> QED BY <2>1, ConcatEntries
<1>10. SetUp(d) = w
  BY <1>4 DEF g, h
<1> HIDE DEF w
<1>11. /\ g[1] = Op("get", 0) /\ g[2] = Op("level", d.level) /\ Len(g) = ClearAt(d) - 1
       /\ ClearAt(d) = 4 => g[3] = Op("formatter", d.formatter)
  BY <1>3, <1>6, <1>7
<1>12. /\ h[1] = Op("get", 0) /\ h[2] = Op("level", d.level) /\ Len(h) = ClearAt(d)
       /\ ClearAt(d) = 4 => h[3] = Op("formatter", d.formatter)
       /\ h[ClearAt(d)] = Op("clear", 0)
  BY <1>3, <1>6, <1>8, <1>11
<1>13. /\ w[1] = Op("get", 0) /\ w[2] = Op("level", d.level) /\ Len(w) = ClearAt(d) + k
       /\ ClearAt(d) = 4 => w[3] = Op("formatter", d.formatter)
       /\ w[ClearAt(d)] = Op("clear", 0)
       /\ \A i \in 1..k : w[ClearAt(d) + i] = Op("append", d.appenders[i])
  BY <1>2, <1>6, <1>9, <1>12, SMTT(30)
<1> QED BY <1>1, <1>6, <1>10, <1>13 DEF k

LEMMA TearDownOperations ==
  /\ Len(TearDown) = 3 /\ TearDown[1] = Op("get", 0)
  /\ TearDown[2] = Op("level", Off) /\ TearDown[3] = Op("clear", 0)
  BY DEF TearDown

(* The names that the listener has before it are those that the two values  *)
(* do not share, and only while its setter has the read lock; and what the  *)
(* variable held so far is what came into it.                               *)
WorkInv ==
  /\ todo \in [Setters -> SUBSET Names] /\ at \in [Setters -> Nat \ {0}]
  /\ Logs \in m_cbs /\ DOMAIN m_val \subseteq DOMAIN since
  /\ \A s \in Setters :
       /\ todo[s] # {} => setPc[s] = "tell" /\ Logs \in toTell[s]
       /\ todo[s] \subseteq Changes(m_val, setTo[s])
       /\ todo[s] = {} => at[s] = 1
       /\ setPc[s] = "out" => DOMAIN setTo[s] \subseteq DOMAIN since
       /\ \A n \in todo[s] :
            (\A m \in todo[s] : Before(s, n, m)) => at[s] <= Len(Work(s, n))

LEMMA WorkInvInit == ASSUME Init PROVE WorkInv
<1>1. todo = [s \in Setters |-> {}] /\ at = [s \in Setters |-> 1]
  BY DEF Init
<1>2. m_cbs = Listeners /\ m_val = Default /\ since = Default /\ \A s \in Setters : setTo[s] = Default
  BY DEF Init, VarInit
<1> QED BY <1>1, <1>2, LogConfigAssumption DEF WorkInv

LEMMA WorkLength ==
  ASSUME NEW v \in Values, NEW n
  PROVE  LET w == IF n \in DOMAIN v THEN SetUp(v[n]) ELSE TearDown
         IN  Len(w) \in Nat /\ Len(w) >= 3
<1>1. CASE n \in DOMAIN v
  <2>1. v[n] \in LogDefine
    BY <1>1, LogConfigAssumption
  <2>2. /\ Len(SetUp(v[n])) = ClearAt(v[n]) + Len(v[n].appenders)
        /\ Len(v[n].appenders) \in Nat /\ ClearAt(v[n]) \in {3, 4}
    BY <2>1, SetUpOperations
  <2> QED BY <1>1, <2>2
<1>2. CASE n \notin DOMAIN v
  BY <1>2, TearDownOperations
<1> QED BY <1>1, <1>2

LEMMA LogInvNext == ASSUME LogInv, WorkInv, [Next]_vars PROVE LogInv'
<1>1. CASE UNCHANGED logVars
  BY <1>1 DEF logVars, LogInv, LogShape, FollowsLogger
<1>2. ASSUME NEW s \in Setters, Step(s) PROVE LogInv'
  <2>1. PICK n \in todo[s] : Do(n, Work(s, n)[at[s]])
    BY <1>2 DEF Step
  <2>2. n \in Names
    BY <2>1 DEF WorkInv
  <2> QED BY <2>1, <2>2, DoesOperations, OperationsKeepLogInv
<1>3. CASE Use
  <2>1. m_loggers \subseteq Names
    BY DEF LogInv, LogShape
  <2>2. \E n \in Names : Operation(n)
    BY <1>3, <2>1, UsesOperations DEF Operation
  <2> QED BY <2>2, OperationsKeepLogInv
<1>4. CASE Write
  BY <1>4 DEF Write, Log, LogInv, LogShape, FollowsLogger
<1> QED BY <1>1, <1>2, <1>3, <1>4 DEF Next, Set, Finish, StoreLogs, Listen, vars

LEMMA WorkInvNext == ASSUME VarInv, VarInv', WorkInv, [Next]_vars PROVE WorkInv'
<1> USE DEF WorkInv
<1>0. ASSUME UNCHANGED <<todo, at, since, m_val, setTo>>, Logs \in m_cbs',
             \A s \in Setters : todo[s] # {} => setPc'[s] = "tell" /\ Logs \in toTell'[s],
             \A s \in Setters : setPc'[s] = "out" => setPc[s] = "out"
      PROVE  WorkInv'
  BY <1>0 DEF Before, Work
<1>1. ASSUME NEW s \in Setters, NEW v \in Values, Set(s, v) PROVE WorkInv'
  <2>1. /\ setPc[s] = "out" /\ todo[s] = {} /\ at[s] = 1
        /\ UNCHANGED <<m_val, m_cbs, at, since>>
        /\ setPc' = [setPc EXCEPT ![s] = "tell"] /\ setTo' = [setTo EXCEPT ![s] = v]
        /\ toTell' = [toTell EXCEPT ![s] = m_cbs]
        /\ todo' = [todo EXCEPT ![s] = Changes(m_val, v)]
    BY <1>1 DEF Set, SetValue
  <2>2. Changes(m_val, v) \subseteq Names
    BY LogConfigAssumption DEF VarInv, VarTypeOK, Changes
  <2>3. todo' \in [Setters -> SUBSET Names] /\ at' \in [Setters -> Nat \ {0}]
    BY <2>1, <2>2
  <2>4. /\ setTo'[s] = v /\ setPc'[s] = "tell" /\ toTell'[s] = m_cbs
        /\ todo'[s] = Changes(m_val, v)
        /\ \A u \in Setters : u # s => /\ setTo'[u] = setTo[u] /\ setPc'[u] = setPc[u]
                                       /\ toTell'[u] = toTell[u] /\ todo'[u] = todo[u]
    BY <2>1 DEF VarInv, VarTypeOK
  <2>5. ASSUME NEW u \in Setters
        PROVE  /\ todo'[u] # {} => setPc'[u] = "tell" /\ Logs \in toTell'[u]
               /\ todo'[u] \subseteq Changes(m_val', setTo'[u])
               /\ todo'[u] = {} => at'[u] = 1
               /\ setPc'[u] = "out" => DOMAIN setTo'[u] \subseteq DOMAIN since'
    BY <2>1, <2>4
  <2>6. ASSUME NEW u \in Setters, NEW n \in todo'[u], \A m \in todo'[u] : Before(u, n, m)'
        PROVE  at'[u] <= Len(Work(u, n)')
    <3>1. CASE u = s
      <4>1. Work(u, n)' = IF n \in DOMAIN v THEN SetUp(v[n]) ELSE TearDown
        BY <2>4, <3>1 DEF Work
      <4>2. Len(Work(u, n)') \in Nat /\ Len(Work(u, n)') >= 3
        BY <4>1, WorkLength
      <4> QED BY <2>1, <3>1, <4>2
    <3>2. CASE u # s
      <4>1. Work(u, n)' = Work(u, n) /\ \A m : Before(u, n, m)' <=> Before(u, n, m)
        BY <2>4, <3>2 DEF Work, Before
      <4> QED BY <2>1, <2>4, <2>6, <3>2, <4>1
    <3> QED BY <3>1, <3>2
  <2> QED BY <2>1, <2>3, <2>5, <2>6
<1>2. ASSUME NEW s \in Setters, Step(s) PROVE WorkInv'
  <2>1. PICK n \in todo[s] :
          /\ \A m \in todo[s] : Before(s, n, m)
          /\ IF at[s] < Len(Work(s, n))
               THEN at' = [at EXCEPT ![s] = @ + 1] /\ UNCHANGED todo
               ELSE at' = [at EXCEPT ![s] = 1] /\ todo' = [todo EXCEPT ![s] = @ \ {n}]
    BY <1>2 DEF Step
  <2>2. UNCHANGED <<varVars, since>>
    BY <1>2 DEF Step
  <2>3. /\ \A u, x : Work(u, x)' = Work(u, x)
        /\ \A u, x, m : Before(u, x, m)' <=> Before(u, x, m)
    BY <2>2 DEF varVars, Work, Before
  <2>4. \A u \in Setters : \A x : Len(Work(u, x)) \in Nat /\ Len(Work(u, x)) >= 3
    BY WorkLength DEF Work, VarInv, VarTypeOK
  <2>5. CASE at[s] < Len(Work(s, n)) /\ at' = [at EXCEPT ![s] = @ + 1] /\ UNCHANGED todo
    <3>1. at'[s] = at[s] + 1 /\ \A u \in Setters : u # s => at'[u] = at[u]
      BY <2>5
    <3>2. at' \in [Setters -> Nat \ {0}]
      BY <2>5
    <3>3. ASSUME NEW u \in Setters, NEW x \in todo[u], \A m \in todo[u] : Before(u, x, m)
          PROVE  at'[u] <= Len(Work(u, x))
      <4>1. CASE u = s
        <5>1. x = n
          BY <2>1, <3>3, <4>1, LogAssumption DEF Before
        <5> QED BY <2>4, <2>5, <3>1, <4>1, <5>1
      <4>2. CASE u # s
        BY <3>1, <3>3, <4>2
      <4> QED BY <4>1, <4>2
    <3> QED BY <2>1, <2>2, <2>3, <2>5, <3>1, <3>2, <3>3 DEF varVars
  <2>6. CASE at' = [at EXCEPT ![s] = 1] /\ todo' = [todo EXCEPT ![s] = @ \ {n}]
    <3>1. /\ at'[s] = 1 /\ todo'[s] = todo[s] \ {n}
          /\ \A u \in Setters : u # s => at'[u] = at[u] /\ todo'[u] = todo[u]
      BY <2>6
    <3>2. at' \in [Setters -> Nat \ {0}] /\ todo' \in [Setters -> SUBSET Names]
      BY <2>6
    <3>3. ASSUME NEW u \in Setters, NEW x \in todo'[u], \A m \in todo'[u] : Before(u, x, m)
          PROVE  at'[u] <= Len(Work(u, x))
      <4>1. CASE u = s
        BY <2>4, <3>1, <4>1
      <4>2. CASE u # s
        BY <3>1, <3>3, <4>2
      <4> QED BY <4>1, <4>2
    <3>4. \A u \in Setters :
            /\ todo'[u] \subseteq todo[u]
            /\ todo'[u] = {} => at'[u] = 1
      BY <3>1
    <3> QED BY <2>2, <2>3, <3>2, <3>3, <3>4 DEF varVars
  <2> QED BY <2>1, <2>5, <2>6
<1>3. ASSUME NEW s \in Setters, Finish(s) PROVE WorkInv'
  <2>1. UNCHANGED <<todo, at, since>>
    BY <1>3 DEF Finish
  <2>2. CASE \E l \in Listeners : Tell(s, l) /\ (l = Logs => todo[s] = {})
    <3>1. PICK l \in Listeners : Tell(s, l) /\ (l = Logs => todo[s] = {})
      BY <2>2
    <3>2. \A u \in Setters : todo[u] # {} => Logs \in toTell'[u]
      BY <3>1 DEF Tell, VarInv, VarTypeOK
    <3> QED BY <1>0, <2>1, <3>1, <3>2 DEF Tell
  <2>3. CASE Told(s)
    <3>1. /\ todo[s] = {} /\ setPc' = [setPc EXCEPT ![s] = "store"]
          /\ UNCHANGED <<m_val, m_cbs, setTo, toTell>>
      BY <2>3 DEF Told
    <3>2. \A u \in Setters : setPc'[u] = IF u = s THEN "store" ELSE setPc[u]
      BY <3>1 DEF VarInv, VarTypeOK
    <3> QED BY <1>0, <2>1, <3>1, <3>2
  <2> QED BY <1>3, <2>2, <2>3 DEF Finish
<1>4. ASSUME NEW s \in Setters, StoreLogs(s) PROVE WorkInv'
  <2>1. /\ UNCHANGED <<todo, at, m_cbs, setTo, toTell>> /\ m_val' = setTo[s]
        /\ setPc' = [setPc EXCEPT ![s] = "out"]
        /\ \A u \in Setters : setPc[u] # "tell"
        /\ DOMAIN since' = DOMAIN since \cup DOMAIN setTo[s]
    BY <1>4 DEF StoreLogs, Store, WriteLockFree
  <2>2. \A u \in Setters : todo[u] = {}
    BY <2>1
  <2>3. \A u \in Setters : setPc'[u] = IF u = s THEN "out" ELSE setPc[u]
    BY <2>1 DEF VarInv, VarTypeOK
  <2> QED BY <2>1, <2>2, <2>3
<1>5. CASE Listen
  <2>1. PICK l \in Listeners \ {Logs} : AddListener(l) \/ DelListener(l)
    BY <1>5 DEF Listen
  <2>2. UNCHANGED <<m_val, setTo, setPc, toTell, todo, at, since>> /\ Logs \in m_cbs'
    BY <1>5, <2>1 DEF Listen, AddListener, DelListener
  <2> QED BY <1>0, <2>2
<1>6. CASE UNCHANGED <<varVars, todo, at, since>>
  BY <1>0, <1>6 DEF varVars
<1> QED BY <1>1, <1>2, <1>3, <1>4, <1>5, <1>6 DEF Next, Use, Write, vars

LEMMA ListenerKept == Spec => [](VarInv /\ WorkInv /\ LogInv)
<1>1. Init => VarInv /\ WorkInv /\ LogInv
  BY VarInvInit, WorkInvInit, LogInvInit
<1>2. (VarInv /\ WorkInv /\ LogInv) /\ [Next]_vars => (VarInv /\ WorkInv /\ LogInv)'
  BY VarInvNext, WorkInvNext, LogInvNext
<1> QED BY <1>1, <1>2, PTL DEF Spec

(* An appender without a formatter of its own writes in the format of its   *)
(* logger, however the program and the listeners of any number of setValue  *)
(* mix addAppender, delAppender, clearAppenders and setFormatter with any   *)
(* formatter, null ones included.  The exceptions are those of              *)
(* FollowsLogger: it came with a formatter from elsewhere, or its own was   *)
(* replaced by null, and the logger's setFormatter was not called since.    *)
THEOREM AppendersFollowLogger == Spec => []FollowsLogger
<1>1. VarInv /\ WorkInv /\ LogInv => FollowsLogger
  BY DEF LogInv
<1> QED BY <1>1, ListenerKept, PTL

-----------------------------------------------------------------------------
(* The root logger.                                                         *)

RootExcused ==
  \/ Root \in touched \cup DOMAIN since
  \/ \E s \in Setters : Root \in DOMAIN setTo[s]

(* The root logger keeps an appender for as long as nobody has a reason to  *)
(* take it away.                                                            *)
RootInv == ~RootExcused => m_appenders[Root] # <<>> /\ crashed # "root"

LEMMA RootInvInit == ASSUME Init PROVE RootInv
<1>1. m_appenders[Root] = <<[NewAppender EXCEPT !.fmt = DefaultFormat]>> /\ crashed = "no"
  BY LogAssumption DEF Init, LogInit
<1>2. m_appenders[Root] # <<>>
  BY <1>1
<1> QED BY <1>1, <1>2 DEF RootInv

(* A reason does not go away: what a setter has set is in the variable      *)
(* before it sets anything else.                                            *)
LEMMA RootExcusedStays == ASSUME VarInv, WorkInv, RootExcused, [Next]_vars PROVE RootExcused'
<1>1. ASSUME NEW s \in Setters, NEW v \in Values, Set(s, v) PROVE RootExcused'
  <2>1. /\ UNCHANGED <<since, touched>> /\ setPc[s] = "out"
        /\ setTo' = [setTo EXCEPT ![s] = v]
    BY <1>1 DEF Set, SetValue
  <2>2. DOMAIN setTo[s] \subseteq DOMAIN since
    BY <2>1 DEF WorkInv
  <2>3. \A u \in Setters : u # s => setTo'[u] = setTo[u]
    BY <2>1 DEF VarInv, VarTypeOK
  <2> QED BY <2>1, <2>2, <2>3 DEF RootExcused
<1>2. ASSUME NEW s \in Setters, Step(s) \/ Finish(s) PROVE RootExcused'
  BY <1>2 DEF RootExcused, Step, Finish, Tell, Told, varVars
<1>3. ASSUME NEW s \in Setters, StoreLogs(s) PROVE RootExcused'
  <2>1. UNCHANGED <<touched, setTo>> /\ DOMAIN since \subseteq DOMAIN since'
    BY <1>3 DEF StoreLogs, Store
  <2> QED BY <2>1 DEF RootExcused
<1>4. CASE Listen
  BY <1>4 DEF RootExcused, Listen, AddListener, DelListener
<1>5. CASE Use
  BY <1>5 DEF RootExcused, Use, varVars
<1>6. CASE Write
  BY <1>6 DEF RootExcused, Write, varVars
<1>7. CASE UNCHANGED vars
  BY <1>7 DEF RootExcused, vars, varVars
<1> QED BY <1>1, <1>2, <1>3, <1>4, <1>5, <1>6, <1>7 DEF Next

LEMMA RootInvNext ==
  ASSUME VarInv, WorkInv, LogInv, RootInv, [Next]_vars PROVE RootInv'
<1> SUFFICES ASSUME ~RootExcused'
             PROVE  m_appenders'[Root] # <<>> /\ crashed' # "root"
  BY DEF RootInv
<1>1. ~RootExcused /\ m_appenders[Root] # <<>> /\ crashed # "root"
  BY RootExcusedStays DEF RootInv
<1>2. CASE UNCHANGED logVars
  BY <1>1, <1>2 DEF logVars
<1>3. ASSUME NEW s \in Setters, Step(s) PROVE m_appenders'[Root] # <<>> /\ crashed' # "root"
  <2>1. PICK n \in todo[s] : Do(n, Work(s, n)[at[s]])
    BY <1>3 DEF Step
  <2>2. n \in Names /\ n # Root
    BY <1>1, <2>1 DEF WorkInv, Changes, RootExcused
  <2>3. OtherLoggersKept(n)
    BY <2>1, <2>2, DoesOperations, OperationsKeepLogInv
  <2>4. UNCHANGED crashed
    BY <2>1 DEF Do, GetLogger, SetLevel, SetPattern, SetFormatter, logVars, ClearAppenders, AddAppender
  <2> QED BY <1>1, <2>2, <2>3, <2>4, LogAssumption DEF OtherLoggersKept
<1>4. CASE Use
  <2>0. UNCHANGED crashed
    BY <1>4 DEF Use, GetLogger, SetLevel, SetFormatter, SetPattern, logVars, ClearAppenders,
                AddAppender, DelAppender, AppenderSetFormatter
  <2>1. CASE \E n \in Names : GetLogger(n)
    BY <1>1, <2>0, <2>1 DEF GetLogger
  <2>2. ASSUME NEW n \in Names, NEW f \in Pattern, SetFormatter(n, f) \/ SetPattern(n, f)
        PROVE  m_appenders'[Root] # <<>>
    <3>1. CASE n # Root
      <4>1. OtherLoggersKept(n)
        BY <2>2, OperationsKeepLogInv DEF Operation
      <4> QED BY <1>1, <3>1, <4>1, LogAssumption DEF OtherLoggersKept
    <3>2. CASE n = Root
      <4>1. DOMAIN m_appenders'[Root] = DOMAIN m_appenders[Root]
        <5>1. CASE SetFormatter(n, f)
          BY <3>2, <5>1 DEF SetFormatter, LogInv, LogShape
        <5>2. CASE UNCHANGED logVars
          BY <5>2 DEF logVars
        <5> QED BY <2>2, <5>1, <5>2 DEF SetPattern
      <4>2. m_appenders[Root] \in Seq(Appender)
        BY LogAssumption DEF LogInv, LogShape
      <4>3. DOMAIN m_appenders[Root] # {}
        <5> DEFINE q == m_appenders[Root]
        <5>1. q \in Seq(Appender) /\ q # <<>>
          BY <1>1, <4>2
        <5> HIDE DEF q
        <5>2. Len(q) \in Nat \ {0} /\ DOMAIN q = 1..Len(q)
          BY <5>1
        <5>3. 1 \in DOMAIN q
          BY <5>2
        <5> QED BY <5>3 DEF q
      <4> QED BY <4>1, <4>3
    <3> QED BY <3>1, <3>2
  <2>3. ASSUME NEW n \in m_loggers, touched' = touched \cup {n}, Changing(n)
        PROVE  m_appenders'[Root] # <<>>
    <3>1. n # Root
      BY <2>3 DEF RootExcused
    <3>2. n \in Names
      BY DEF LogInv, LogShape
    <3>3. OtherLoggersKept(n)
      BY <2>3, <3>2, OperationsKeepLogInv DEF Operation
    <3> QED BY <1>1, <3>1, <3>3, LogAssumption DEF OtherLoggersKept
  <2> QED BY <1>1, <1>4, <2>0, <2>1, <2>2, <2>3, UsesOperations
<1>5. CASE Write
  BY <1>1, <1>5 DEF Write, Log, NoTarget
<1> QED BY <1>2, <1>3, <1>4, <1>5 DEF Next, Set, Finish, StoreLogs, Listen, vars

(* Log follows the null m_root of the root logger only if the program took  *)
(* the root logger's appenders away or the configuration ever named it.     *)
THEOREM RootServesOthers == Spec => []RootServes
<1>1. Init => RootInv
  BY RootInvInit
<1>2. (VarInv /\ WorkInv /\ LogInv) /\ RootInv /\ [Next]_vars => RootInv'
  BY RootInvNext
<1>3. RootInv => RootServes
  BY DEF RootInv, RootExcused, RootServes
<1> QED BY <1>1, <1>2, <1>3, ListenerKept, PTL DEF Spec

-----------------------------------------------------------------------------
(* The loggers and the configuration.                                       *)

SwitchedOff(n) == m_level[n] = Off /\ m_appenders[n] = <<>>

(* What the stored value says of a name that was ever in it, and what the   *)
(* value being set will say of it once the listener is through with it      *)
Settled(n) == IF n \in DOMAIN m_val THEN SetUpAs(n, since[n]) ELSE SwitchedOff(n)
Done(s, n) == IF n \in DOMAIN setTo[s] THEN SetUpAs(n, setTo[s][n]) ELSE SwitchedOff(n)

(* How far the listener is with the name it is at *)
UpTo(p, n, d) ==
  /\ p > 1 => n \in m_loggers
  /\ p > 2 => m_level[n] = d.level
  /\ p > ClearAt(d) =>
       /\ Len(m_appenders[n]) = p - ClearAt(d) - 1
       /\ \A i \in 1..(p - ClearAt(d) - 1) :
            m_appenders[n][i].own = (d.appenders[i] \in Formats)
Partly(s, n) ==
  IF n \in DOMAIN setTo[s] THEN UpTo(at[s], n, setTo[s][n])
  ELSE at[s] > 2 => m_level[n] = Off

(* LoggersFollowConfig speaks of the moments when nobody sets the variable. *)
(* In between, the names that the listener leaves alone are as the old      *)
(* value has them, those it is through with are as the new one will have    *)
(* them, and the one it is at has had all of its operations so far.         *)
SinceInv == DOMAIN since \subseteq Names /\ \A n \in DOMAIN since : since[n] \in LogDefine
FollowInv ==
  ~overlapped =>
    /\ \A n \in DOMAIN since \ touched :
         (\A s \in Setters : setPc[s] # "out" => n \notin Changes(m_val, setTo[s]))
           => Settled(n)
    /\ \A s \in Setters : setPc[s] # "out" =>
         \A n \in Changes(m_val, setTo[s]) \ touched :
           IF n \notin todo[s] THEN Done(s, n)
           ELSE (\A m \in todo[s] : Before(s, n, m)) => Partly(s, n)

LEMMA SinceInvInit == ASSUME Init PROVE SinceInv
  BY LogConfigAssumption DEF Init, SinceInv

LEMMA SinceInvNext == ASSUME VarInv, WorkInv, SinceInv, [Next]_vars PROVE SinceInv'
<1>1. ASSUME NEW s \in Setters, StoreLogs(s) PROVE SinceInv'
  <2>1. setTo[s] \in Values
    BY DEF VarInv, VarTypeOK
  <2>2. DOMAIN setTo[s] \subseteq Names /\ \A n \in DOMAIN setTo[s] : setTo[s][n] \in LogDefine
    BY <2>1, LogConfigAssumption
  <2>3. since' = [n \in DOMAIN since \cup DOMAIN setTo[s] |->
                   IF n \in DOMAIN setTo[s] \ DOMAIN m_val THEN setTo[s][n] ELSE since[n]]
    BY <1>1 DEF StoreLogs
  <2>4. \A n \in DOMAIN setTo[s] : n \in DOMAIN m_val => n \in DOMAIN since
    BY DEF WorkInv
  <2> QED BY <2>2, <2>3, <2>4 DEF SinceInv
<1>2. CASE UNCHANGED since
  BY <1>2 DEF SinceInv
<1> QED BY <1>1, <1>2 DEF Next, Set, Step, Finish, Listen, Use, Write, vars

LEMMA FollowInvInit == ASSUME Init PROVE FollowInv
<1>1. DOMAIN since = {} /\ \A s \in Setters : setPc[s] = "out"
  BY LogConfigAssumption DEF Init, VarInit
<1> QED BY <1>1 DEF FollowInv

(* All that Settled, Done and Partly look at *)
LookKept(x) ==
  /\ m_level'[x] = m_level[x]
  /\ x \in m_loggers => x \in m_loggers'
  /\ Len(m_appenders'[x]) = Len(m_appenders[x])
  /\ \A i \in 1..Len(m_appenders[x]) : m_appenders'[x][i].own = m_appenders[x][i].own
  /\ m_appenders[x] = <<>> => m_appenders'[x] = <<>>

LEMMA SetUpKept ==
  ASSUME NEW x, NEW d \in LogDefine, LookKept(x), SetUpAs(x, d)
  PROVE  SetUpAs(x, d)'
<1>1. DOMAIN d.appenders = 1..Len(d.appenders)
  BY SetUpOperations
<1> QED BY <1>1 DEF LookKept, SetUpAs

LEMMA UpToKept ==
  ASSUME NEW x, NEW d, NEW p, LookKept(x), UpTo(p, x, d)
  PROVE  UpTo(p, x, d)'
  BY DEF LookKept, UpTo

(* The program may look a logger up, give it another formatter or change    *)
(* one that then counts as touched, at any point of the listener's work.    *)
LEMMA FollowInvKept ==
  ASSUME VarInv, WorkInv, SinceInv, FollowInv,
         UNCHANGED <<m_val, setTo, todo, at, since>>, overlapped => overlapped',
         \A s \in Setters : setPc'[s] = "out" <=> setPc[s] = "out",
         touched \subseteq touched', \A x \in Names : x \notin touched' => LookKept(x)
  PROVE  FollowInv'
<1> SUFFICES ASSUME ~overlapped' PROVE FollowInv'
  BY DEF FollowInv
<1>0. \A s \in Setters : DOMAIN setTo[s] \subseteq Names /\ \A n \in DOMAIN setTo[s] : setTo[s][n] \in LogDefine
  BY LogConfigAssumption DEF VarInv, VarTypeOK
<1>1. ASSUME NEW n \in DOMAIN since', n \notin touched',
             \A s \in Setters : setPc'[s] # "out" => n \notin Changes(m_val', setTo'[s])
      PROVE  Settled(n)'
  <2>1. n \in DOMAIN since /\ n \in Names /\ LookKept(n) /\ since[n] \in LogDefine
    BY <1>1 DEF SinceInv
  <2>2. Settled(n)
    BY <1>1, <2>1 DEF FollowInv
  <2>3. CASE n \in DOMAIN m_val
    <3>1. SetUpAs(n, since[n])
      BY <2>2, <2>3 DEF Settled
    <3> QED BY <2>1, <2>3, <3>1, SetUpKept DEF Settled, SetUpAs
  <2>4. CASE n \notin DOMAIN m_val
    BY <2>1, <2>2, <2>4 DEF Settled, SwitchedOff, LookKept
  <2> QED BY <2>3, <2>4
<1>2. ASSUME NEW s \in Setters, setPc'[s] # "out",
             NEW n \in Changes(m_val', setTo'[s]), n \notin touched'
      PROVE  IF n \notin todo'[s] THEN Done(s, n)'
             ELSE (\A m \in todo'[s] : Before(s, n, m)') => Partly(s, n)'
  <2>0. n \in Names
    BY <1>0, <1>2, LogConfigAssumption DEF Changes, VarInv, VarTypeOK
  <2>1. LookKept(n)
    BY <1>2, <2>0
  <2>2. CASE n \notin todo[s]
    <3>1. Done(s, n)
      BY <1>2, <2>2 DEF FollowInv
    <3>2. CASE n \in DOMAIN setTo[s]
      <4>1. SetUpAs(n, setTo[s][n]) /\ setTo[s][n] \in LogDefine
        BY <1>0, <3>1, <3>2 DEF Done
      <4> QED BY <2>1, <2>2, <3>2, <4>1, SetUpKept DEF Done, SetUpAs
    <3>3. CASE n \notin DOMAIN setTo[s]
      BY <2>1, <2>2, <3>1, <3>3 DEF Done, SwitchedOff, LookKept
    <3> QED BY <3>2, <3>3
  <2>3. CASE n \in todo[s] /\ \A m \in todo[s] : Before(s, n, m)
    <3>1. Partly(s, n)
      BY <1>2, <2>3 DEF FollowInv
    <3>2. CASE n \in DOMAIN setTo[s]
      <4>1. UpTo(at[s], n, setTo[s][n])
        BY <3>1, <3>2 DEF Partly
      <4>2. PICK p, d : p = at[s] /\ d = setTo[s][n]
        OBVIOUS
      <4>3. UpTo(p, n, d)'
        BY <2>1, <4>1, <4>2, UpToKept
      <4>4. p = at'[s] /\ d = setTo'[s][n] /\ n \in DOMAIN setTo'[s]
        BY <3>2, <4>2
      <4>5. Partly(s, n)'
        BY <4>3, <4>4 DEF Partly, UpTo
      <4> QED BY <2>3, <4>5
    <3>3. CASE n \notin DOMAIN setTo[s]
      BY <2>1, <2>3, <3>1, <3>3 DEF Partly, LookKept
    <3> QED BY <3>2, <3>3
  <2>4. (\A m \in todo'[s] : Before(s, n, m)') <=> \A m \in todo[s] : Before(s, n, m)
    BY DEF Before
  <2> QED BY <2>2, <2>3, <2>4
<1> QED BY <1>1, <1>2 DEF FollowInv

LEMMA OthersLookKept ==
  ASSUME NEW n, OtherLoggersKept(n), NEW x \in Names, x # n
  PROVE  LookKept(x)
  BY DEF OtherLoggersKept, LookKept

LEMMA FormatterKeepsLook ==
  ASSUME LogInv, NEW n \in Names, NEW f \in Pattern, SetFormatter(n, f)
  PROVE  LookKept(n)
<1> DEFINE q == m_appenders[n]
           g(i) == [q[i] EXCEPT !.fmt = f, !.kept = FALSE]
           r == [i \in DOMAIN q |-> IF q[i].own THEN q[i] ELSE g(i)]
<1>1. q \in Seq(Appender)
  BY DEF LogInv, LogShape
<1>2. m_appenders'[n] = r /\ UNCHANGED <<m_loggers, m_level>>
  BY DEF SetFormatter, LogInv, LogShape
<1>3. Len(q) \in Nat /\ DOMAIN q = 1..Len(q) /\ \A i \in 1..Len(q) : q[i] \in Appender
  BY <1>1
<1>4. DOMAIN r = 1..Len(q) /\ \A i \in 1..Len(q) : r[i].own = q[i].own
  <2>1. \A i \in 1..Len(q) : g(i).own = q[i].own
    BY <1>3 DEF Appender
  <2> HIDE DEF g
  <2>2. \A i \in 1..Len(q) : r[i] = q[i] \/ r[i] = g(i)
    BY <1>3
  <2>3. DOMAIN r = 1..Len(q)
    BY <1>3
  <2> QED BY <2>1, <2>2, <2>3
<1>5. q = <<>> => r = <<>>
  OBVIOUS
<1>6. r \in Seq(Appender)
  <2>1. LogInv'
    BY OperationsKeepLogInv DEF Operation
  <2>2. m_appenders'[n] \in Seq(Appender)
    BY <2>1 DEF LogInv, LogShape
  <2> HIDE DEF r
  <2> QED BY <1>2, <2>2
<1> HIDE DEF r
<1>7. Len(r) = Len(q)
  BY <1>3, <1>4, <1>6
<1> QED BY <1>2, <1>4, <1>5, <1>7 DEF LookKept

LEMMA PatternKeepsLook ==
  ASSUME LogInv, NEW n \in Names, NEW f, SetPattern(n, f)
  PROVE  LookKept(n) /\ UNCHANGED <<m_loggers, m_level>>
<1>1. CASE f \in Formats
  <2>1. f \in Pattern /\ SetFormatter(n, f)
    BY <1>1, AppendersMade DEF SetPattern
  <2> QED BY <2>1, FormatterKeepsLook DEF SetFormatter
<1>2. CASE f \notin Formats
  BY <1>2 DEF SetPattern, logVars, LookKept
<1> QED BY <1>1, <1>2

(* The listener's operations on a new name, one after the other ...         *)
LEMMA OneOperation ==
  ASSUME LogInv, NEW n \in Names, NEW d \in LogDefine, NEW p \in 1..Len(SetUp(d)),
         UpTo(p, n, d), Do(n, SetUp(d)[p])
  PROVE  UpTo(p + 1, n, d)'
<1> DEFINE c == ClearAt(d)
           q == m_appenders[n]
<1>1. /\ c \in {3, 4} /\ Len(d.appenders) \in Nat /\ p \in 1..(c + Len(d.appenders))
      /\ SetUp(d)[1] = Op("get", 0) /\ SetUp(d)[2] = Op("level", d.level)
      /\ c = 4 => SetUp(d)[3] = Op("formatter", d.formatter)
      /\ SetUp(d)[c] = Op("clear", 0)
      /\ \A i \in 1..Len(d.appenders) : SetUp(d)[c + i] = Op("append", d.appenders[i])
  BY SetUpOperations
<1>2. /\ q \in Seq(Appender) /\ Len(q) \in Nat
      /\ \A l : [m_level EXCEPT ![n] = l][n] = l
      /\ \A l : [m_appenders EXCEPT ![n] = l][n] = l
  BY DEF LogInv, LogShape
<1>3. CASE p = 1
  <2>1. GetLogger(n)
    BY <1>1, <1>3 DEF Do, Op
  <2> QED BY <1>1, <1>3, <2>1 DEF GetLogger, UpTo
<1>4. CASE p = 2
  <2>1. SetLevel(n, d.level)
    BY <1>1, <1>4 DEF Do, Op
  <2>2. m_level'[n] = d.level /\ UNCHANGED m_loggers
    BY <1>2, <2>1 DEF SetLevel
  <2> QED BY <1>1, <1>4, <2>2 DEF UpTo
<1>5. CASE p = 3 /\ c = 4
  <2>1. SetPattern(n, d.formatter)
    BY <1>1, <1>5 DEF Do, Op
  <2>2. UNCHANGED <<m_loggers, m_level>>
    BY <2>1, PatternKeepsLook
  <2> QED BY <1>1, <1>5, <2>2 DEF UpTo
<1>6. CASE p = c
  <2>1. ClearAppenders(n)
    BY <1>1, <1>6 DEF Do, Op
  <2>2. m_appenders'[n] = <<>> /\ UNCHANGED <<m_loggers, m_level>>
    BY <1>2, <2>1 DEF ClearAppenders
  <2>3. Len(<<>>) = 0
    OBVIOUS
  <2> QED BY <1>1, <1>6, <2>2, <2>3 DEF UpTo
<1>7. CASE p > c
  <2> DEFINE i == p - c
             b == IF d.appenders[i] \in Formats THEN Given(d.appenders[i]) ELSE NewAppender
             e == Adopted(n, b)
  <2>1. i \in 1..Len(d.appenders) /\ p = c + i
    BY <1>1, <1>7
  <2>2. AddAppender(n, b)
    <3>1. SetUp(d)[p] = Op("append", d.appenders[i])
      BY <1>1, <2>1
    <3> QED BY <3>1 DEF Do, Op
  <2>3. m_appenders'[n] = Append(q, e) /\ UNCHANGED <<m_loggers, m_level>>
    BY <1>2, <2>2 DEF AddAppender
  <2>4. e.own = (d.appenders[i] \in Formats)
    <3>1. CASE d.appenders[i] \in Formats
      <4>1. d.appenders[i] # NoFormat
        BY <3>1, LogAssumption
      <4> QED BY <3>1, <4>1 DEF Given, Adopted
    <3>2. CASE d.appenders[i] \notin Formats
      <4>1. b = NewAppender
        BY <3>2
      <4>2. e.own = FALSE
        BY <4>1 DEF NewAppender, Adopted
      <4>3. (d.appenders[i] \in Formats) = FALSE
        BY <3>2
      <4> QED BY <4>2, <4>3
    <3> QED BY <3>1, <3>2
  <2>5. /\ n \in m_loggers /\ m_level[n] = d.level /\ Len(q) = i - 1
        /\ \A j \in 1..(i - 1) : q[j].own = (d.appenders[j] \in Formats)
    BY <1>1, <1>7, <2>1 DEF UpTo
  <2> HIDE DEF q, e, i, b
  <2>6. /\ Len(Append(q, e)) = i
        /\ \A j \in 1..i : Append(q, e)[j] = IF j = i THEN e ELSE q[j]
    BY <1>2, <2>1, <2>5
  <2>7. \A j \in 1..i : m_appenders'[n][j].own = (d.appenders[j] \in Formats)
    BY <2>1, <2>3, <2>4, <2>5, <2>6
  <2>8. (p + 1) - c - 1 = i /\ p + 1 > 2
    BY <1>1, <2>1
  <2> HIDE DEF c
  <2> QED BY <2>3, <2>5, <2>6, <2>7, <2>8 DEF UpTo, c
<1> QED BY <1>1, <1>3, <1>4, <1>5, <1>6, <1>7

(* ... leave it set up as its definition says.                              *)
LEMMA AllOperations ==
  ASSUME NEW n \in Names, NEW d \in LogDefine, UpTo(Len(SetUp(d)) + 1, n, d)'
  PROVE  SetUpAs(n, d)'
<1>1. /\ ClearAt(d) \in {3, 4} /\ Len(d.appenders) \in Nat
      /\ DOMAIN d.appenders = 1..Len(d.appenders)
      /\ Len(SetUp(d)) = ClearAt(d) + Len(d.appenders)
  BY SetUpOperations
<1>2. /\ (Len(SetUp(d)) + 1) - ClearAt(d) - 1 = Len(d.appenders)
      /\ Len(SetUp(d)) + 1 > ClearAt(d) /\ Len(SetUp(d)) + 1 > 2
  BY <1>1
<1> QED BY <1>1, <1>2 DEF UpTo, SetUpAs

LEMMA FollowInvNext ==
  ASSUME VarInv, VarInv', WorkInv, LogInv, SinceInv, FollowInv, [Next]_vars
  PROVE  FollowInv'
<1>0. \A s \in Setters : /\ DOMAIN setTo[s] \subseteq Names
                         /\ \A n \in DOMAIN setTo[s] : setTo[s][n] \in LogDefine
  BY LogConfigAssumption DEF VarInv, VarTypeOK
<1>1. ASSUME NEW s \in Setters, NEW v \in Values, Set(s, v) PROVE FollowInv'
  <2> SUFFICES ASSUME ~overlapped' PROVE FollowInv'
    BY DEF FollowInv
  <2>1. /\ ~overlapped /\ \A u \in Setters : setPc[u] = "out"
        /\ UNCHANGED <<m_val, m_loggers, m_level, m_appenders, at, since, touched>>
    BY <1>1 DEF Set, SetValue, logVars
  <2>2. /\ setPc'[s] = "tell" /\ setTo'[s] = v /\ todo'[s] = Changes(m_val, v) /\ at'[s] = 1
        /\ \A u \in Setters : u # s => setPc'[u] = "out"
    BY <1>1, <2>1 DEF Set, SetValue, VarInv, VarTypeOK, WorkInv
  <2>3. \A n \in DOMAIN since' \ touched' : Settled(n)'
    BY <2>1 DEF FollowInv, Settled, SetUpAs, SwitchedOff
  <2>4. ASSUME NEW n \in Changes(m_val', setTo'[s]) PROVE n \in todo'[s] /\ Partly(s, n)'
    <3>1. n \in todo'[s]
      BY <2>1, <2>2, <2>4
    <3>2. CASE n \in DOMAIN v
      <4>1. v[n] \in LogDefine
        BY <3>2, LogConfigAssumption
      <4>2. ClearAt(v[n]) \in {3, 4}
        BY <4>1, SetUpOperations
      <4>3. ~(1 > 1) /\ ~(1 > 2) /\ ~(1 > ClearAt(v[n]))
        BY <4>2
      <4> QED BY <2>2, <3>1, <4>3 DEF Partly, UpTo
    <3>3. CASE n \notin DOMAIN v
      BY <2>2, <3>1, <3>3 DEF Partly
    <3> QED BY <3>2, <3>3
  <2> QED BY <2>2, <2>3, <2>4 DEF FollowInv
<1>2. ASSUME NEW s \in Setters, Step(s) PROVE FollowInv'
  <2> SUFFICES ASSUME ~overlapped' PROVE FollowInv'
    BY DEF FollowInv
  <2>1. PICK n \in todo[s] :
          /\ \A m \in todo[s] : Before(s, n, m)
          /\ Do(n, Work(s, n)[at[s]])
          /\ IF at[s] < Len(Work(s, n))
               THEN at' = [at EXCEPT ![s] = @ + 1] /\ UNCHANGED todo
               ELSE at' = [at EXCEPT ![s] = 1] /\ todo' = [todo EXCEPT ![s] = @ \ {n}]
    BY <1>2 DEF Step
  <2>2. UNCHANGED <<m_val, setPc, setTo, overlapped, since, touched>> /\ ~overlapped
    BY <1>2 DEF Step, varVars
  <2>3. /\ n \in Names /\ setPc[s] = "tell" /\ n \in Changes(m_val, setTo[s])
        /\ \A u \in Setters : setPc[u] # "out" => u = s
    BY <2>1, <2>2 DEF WorkInv, VarInv, ToldInv
  <2>4. OtherLoggersKept(n) /\ LogInv'
    BY <2>1, <2>3, DoesOperations, OperationsKeepLogInv
  <2>5. \A x \in Names : x # n => LookKept(x)
    BY <2>4, OthersLookKept
  <2>6. ASSUME NEW x \in DOMAIN since, x \notin touched, x \notin Changes(m_val, setTo[s])
        PROVE  Settled(x)'
    <3>1. x \in Names /\ x # n /\ since[x] \in LogDefine
      BY <2>3, <2>6 DEF SinceInv
    <3>2. LookKept(x) /\ Settled(x)
      BY <2>2, <2>3, <2>5, <2>6, <3>1 DEF FollowInv
    <3>3. CASE x \in DOMAIN m_val
      <4>1. SetUpAs(x, since[x])
        BY <3>2, <3>3 DEF Settled
      <4> QED BY <2>2, <3>1, <3>2, <3>3, <4>1, SetUpKept DEF Settled, SetUpAs
    <3>4. CASE x \notin DOMAIN m_val
      BY <2>2, <3>2, <3>4 DEF Settled, SwitchedOff, LookKept
    <3> QED BY <3>3, <3>4
  <2>7. ASSUME NEW x \in Changes(m_val, setTo[s]), x \notin touched, x # n, x \notin todo[s]
        PROVE  Done(s, x)'
    <3>1. x \in Names
      BY <1>0, <2>7, LogConfigAssumption DEF Changes, VarInv, VarTypeOK
    <3>2. LookKept(x) /\ Done(s, x)
      BY <2>2, <2>3, <2>5, <2>7, <3>1 DEF FollowInv
    <3>3. CASE x \in DOMAIN setTo[s]
      <4>1. SetUpAs(x, setTo[s][x]) /\ setTo[s][x] \in LogDefine
        BY <1>0, <3>2, <3>3 DEF Done
      <4> QED BY <2>2, <3>2, <3>3, <4>1, SetUpKept DEF Done, SetUpAs
    <3>4. CASE x \notin DOMAIN setTo[s]
      BY <2>2, <3>2, <3>4 DEF Done, SwitchedOff, LookKept
    <3> QED BY <3>3, <3>4
  <2>8. /\ at[s] \in Nat \ {0} /\ at[s] <= Len(Work(s, n))
        /\ Len(Work(s, n)) \in Nat /\ Len(Work(s, n)) >= 3
    BY <2>1, WorkLength DEF WorkInv, Work, VarInv, VarTypeOK
  <2>9. ASSUME n \notin touched, n \in DOMAIN setTo[s]
        PROVE  \A p : p = at[s] + 1 => UpTo(p, n, setTo[s][n])'
    <3>1. PICK p, d : p = at[s] /\ d = setTo[s][n]
      OBVIOUS
    <3>2. d \in LogDefine /\ Work(s, n) = SetUp(d) /\ UpTo(p, n, d)
      BY <1>0, <2>1, <2>2, <2>3, <2>9, <3>1 DEF Work, FollowInv, Partly
    <3>3. p \in 1..Len(SetUp(d)) /\ Do(n, SetUp(d)[p])
      BY <2>1, <2>8, <3>1, <3>2
    <3>4. UpTo(p + 1, n, d)'
      BY <2>3, <3>2, <3>3, OneOperation
    <3>5. d = setTo'[s][n]
      BY <2>2, <3>1
    <3> QED BY <3>1, <3>4, <3>5 DEF UpTo
  <2>10. ASSUME n \notin touched, n \notin DOMAIN setTo[s]
         PROVE  /\ at[s] >= 2 => m_level'[n] = Off
                /\ at[s] = 3 => m_appenders'[n] = <<>>
    <3>0. Work(s, n) = TearDown /\ Len(TearDown) = 3
      BY <2>10, TearDownOperations DEF Work
    <3>1. Work(s, n) = TearDown /\ at[s] \in {1, 2, 3}
      BY <2>8, <3>0
    <3>2. at[s] > 2 => m_level[n] = Off
      BY <2>1, <2>2, <2>3, <2>10 DEF FollowInv, Partly
    <3>3. CASE at[s] = 1
      BY <3>3
    <3>4. CASE at[s] = 2
      <4>1. SetLevel(n, Off)
        BY <2>1, <3>1, <3>4, TearDownOperations DEF Do, Op
      <4> QED BY <2>3, <3>4, <4>1 DEF SetLevel, LogInv, LogShape
    <3>5. CASE at[s] = 3
      <4>1. ClearAppenders(n)
        BY <2>1, <3>1, <3>5, TearDownOperations DEF Do, Op
      <4> QED BY <2>3, <3>2, <3>5, <4>1 DEF ClearAppenders, LogInv, LogShape
    <3> QED BY <3>1, <3>3, <3>4, <3>5
  <2>11. CASE at[s] < Len(Work(s, n))
    <3>1. at'[s] = at[s] + 1 /\ UNCHANGED todo
      BY <2>1, <2>11 DEF WorkInv
    <3>2. ASSUME n \notin touched PROVE Partly(s, n)'
      <4>1. CASE n \in DOMAIN setTo[s]
        BY <2>2, <2>9, <3>1, <3>2, <4>1 DEF Partly, UpTo
      <4>2. CASE n \notin DOMAIN setTo[s]
        BY <2>2, <2>8, <2>10, <3>1, <3>2, <4>2 DEF Partly
      <4> QED BY <4>1, <4>2
    <3>3. ASSUME NEW x \in todo[s], \A m \in todo[s] : Before(s, x, m) PROVE x = n
      <4>1. n \in Nat /\ x \in Nat
        BY <2>3, <3>3, LogAssumption DEF WorkInv
      <4>2. Before(s, n, x) /\ Before(s, x, n)
        BY <2>1, <3>3
      <4> QED BY <4>1, <4>2 DEF Before
    <3>4. \A x : (\A m \in todo[s] : Before(s, x, m)') <=> \A m \in todo[s] : Before(s, x, m)
      BY <2>2 DEF Before
    <3>5. \A x \in Changes(m_val', setTo'[s]) \ touched' :
            IF x \notin todo'[s] THEN Done(s, x)'
            ELSE (\A m \in todo'[s] : Before(s, x, m)') => Partly(s, x)'
      BY <2>1, <2>2, <2>7, <3>1, <3>2, <3>3, <3>4
    <3> QED BY <2>2, <2>3, <2>6, <3>5 DEF FollowInv
  <2>12. CASE ~(at[s] < Len(Work(s, n)))
    <3>1. at'[s] = 1 /\ todo'[s] = todo[s] \ {n} /\ at[s] = Len(Work(s, n))
      BY <2>1, <2>8, <2>12 DEF WorkInv
    <3>2. ASSUME n \notin touched PROVE Done(s, n)'
      <4>1. CASE n \in DOMAIN setTo[s]
        <5>1. PICK d : d = setTo[s][n]
          OBVIOUS
        <5>2. d \in LogDefine /\ Work(s, n) = SetUp(d) /\ d = setTo'[s][n]
          BY <1>0, <2>2, <4>1, <5>1 DEF Work
        <5>3. UpTo(Len(SetUp(d)) + 1, n, d)'
          BY <2>9, <3>1, <3>2, <4>1, <5>2 DEF UpTo
        <5>4. SetUpAs(n, d)'
          BY <2>3, <5>2, <5>3, AllOperations
        <5> QED BY <2>2, <4>1, <5>2, <5>4 DEF Done, SetUpAs
      <4>2. CASE n \notin DOMAIN setTo[s]
        <5>1. at[s] = 3
          BY <3>1, <4>2, TearDownOperations DEF Work
        <5> QED BY <2>2, <2>10, <3>2, <4>2, <5>1 DEF Done, SwitchedOff
      <4> QED BY <4>1, <4>2
    <3>3. \A x \in todo'[s] : Partly(s, x)'
      <4> SUFFICES ASSUME NEW x \in todo'[s] PROVE Partly(s, x)'
        OBVIOUS
      <4>1. CASE x \in DOMAIN setTo[s]
        <5>1. ClearAt(setTo[s][x]) \in {3, 4}
          BY <1>0, <4>1, SetUpOperations
        <5>2. ~(1 > 1) /\ ~(1 > 2) /\ ~(1 > ClearAt(setTo[s][x]))
          BY <5>1
        <5> QED BY <2>2, <3>1, <4>1, <5>2 DEF Partly, UpTo
      <4>2. CASE x \notin DOMAIN setTo[s]
        BY <2>2, <3>1, <4>2 DEF Partly
      <4> QED BY <4>1, <4>2
    <3>4. \A x \in Changes(m_val', setTo'[s]) \ touched' :
            IF x \notin todo'[s] THEN Done(s, x)'
            ELSE (\A m \in todo'[s] : Before(s, x, m)') => Partly(s, x)'
      BY <2>1, <2>2, <2>7, <3>1, <3>2, <3>3
    <3> QED BY <2>2, <2>3, <2>6, <3>4 DEF FollowInv
  <2> QED BY <2>11, <2>12
<1>3. ASSUME NEW s \in Setters, Finish(s) PROVE FollowInv'
  <2>1. \A u \in Setters : setPc'[u] = "out" <=> setPc[u] = "out"
    BY <1>3 DEF Finish, Tell, Told, VarInv, VarTypeOK
  <2>2. UNCHANGED <<m_val, setTo, todo, at, since, overlapped, touched, m_loggers, m_level, m_appenders>>
    BY <1>3 DEF Finish, Tell, Told, logVars
  <2>3. \A x \in Names : LookKept(x)
    BY <2>2 DEF LookKept
  <2> QED BY <2>1, <2>2, <2>3, FollowInvKept
<1>4. ASSUME NEW s \in Setters, StoreLogs(s) PROVE FollowInv'
  <2> SUFFICES ASSUME ~overlapped' PROVE FollowInv'
    BY DEF FollowInv
  <2>1. /\ setPc[s] = "store" /\ ~overlapped /\ m_val' = setTo[s]
        /\ UNCHANGED <<m_loggers, m_level, m_appenders, touched>>
        /\ since' = [n \in DOMAIN since \cup DOMAIN setTo[s] |->
                       IF n \in DOMAIN setTo[s] \ DOMAIN m_val THEN setTo[s][n] ELSE since[n]]
    BY <1>4 DEF StoreLogs, Store, logVars
  <2>2. \A u \in Setters : setPc'[u] = "out" /\ (setPc[u] # "out" => u = s)
    BY <1>4, <2>1 DEF StoreLogs, Store, VarInv, VarTypeOK, ToldInv
  <2>3. todo[s] = {} /\ DOMAIN m_val \subseteq DOMAIN since
    BY <2>1 DEF WorkInv
  <2>4. ASSUME NEW n \in DOMAIN since', n \notin touched PROVE Settled(n)'
    <3>1. CASE n \in Changes(m_val, setTo[s])
      <4>1. Done(s, n)
        BY <2>1, <2>3, <2>4, <3>1 DEF FollowInv
      <4> QED BY <2>1, <2>4, <3>1, <4>1 DEF Done, Settled, SetUpAs, SwitchedOff, Changes
    <3>2. CASE n \notin Changes(m_val, setTo[s])
      <4>1. n \in DOMAIN since
        BY <2>1, <2>3, <2>4, <3>2 DEF Changes
      <4>2. Settled(n)
        BY <2>1, <2>2, <2>4, <3>2, <4>1 DEF FollowInv
      <4>3. n \in DOMAIN setTo[s] <=> n \in DOMAIN m_val
        BY <3>2 DEF Changes
      <4>4. n \in DOMAIN m_val => since'[n] = since[n]
        BY <2>1, <2>4
      <4> QED BY <2>1, <4>2, <4>3, <4>4 DEF Settled, SetUpAs, SwitchedOff
    <3> QED BY <3>1, <3>2
  <2> QED BY <2>1, <2>2, <2>4 DEF FollowInv
<1>5. CASE Listen
  <2>1. UNCHANGED <<m_val, setPc, setTo, todo, at, since, touched, m_loggers, m_level, m_appenders>>
    BY <1>5 DEF Listen, AddListener, DelListener, logVars
  <2>2. overlapped => overlapped'
    <3>1. PICK l : AddListener(l) \/ DelListener(l)
      BY <1>5 DEF Listen
    <3>2. CASE AddListener(l)
      BY <3>2, Zenon DEF AddListener
    <3>3. CASE DelListener(l)
      BY <3>3 DEF DelListener
    <3> QED BY <3>1, <3>2, <3>3
  <2>3. \A x \in Names : LookKept(x)
    BY <2>1 DEF LookKept
  <2> QED BY <2>1, <2>2, <2>3, FollowInvKept
<1>6. CASE Use
  <2>1. UNCHANGED <<m_val, setPc, setTo, overlapped, todo, at, since>> /\ touched \subseteq touched'
    BY <1>6 DEF Use, varVars
  <2>2. ASSUME NEW n \in Names, GetLogger(n), NEW x \in Names PROVE LookKept(x)
    BY <2>2 DEF GetLogger, LookKept
  <2>3. ASSUME NEW n \in Names, NEW f \in Pattern, SetFormatter(n, f) \/ SetPattern(n, f),
               NEW x \in Names
        PROVE  LookKept(x)
    <3>1. CASE x = n
      BY <2>3, <3>1, FormatterKeepsLook, PatternKeepsLook
    <3>2. CASE x # n
      <4>1. OtherLoggersKept(n)
        BY <2>3, OperationsKeepLogInv DEF Operation
      <4> QED BY <3>2, <4>1, OthersLookKept
    <3> QED BY <3>1, <3>2
  <2>4. ASSUME NEW n \in m_loggers, touched' = touched \cup {n}, Changing(n),
               NEW x \in Names, x \notin touched'
        PROVE  LookKept(x)
    <3>1. n \in Names /\ x # n
      BY <2>4 DEF LogInv, LogShape
    <3>2. OtherLoggersKept(n)
      BY <2>4, <3>1, OperationsKeepLogInv DEF Operation
    <3> QED BY <3>1, <3>2, OthersLookKept
  <2>5. \A x \in Names : x \notin touched' => LookKept(x)
    BY <1>6, <2>2, <2>3, <2>4, UsesOperations
  <2> QED BY <2>1, <2>5, FollowInvKept
<1>7. CASE Write \/ UNCHANGED vars
  <2>1. UNCHANGED <<m_val, setPc, setTo, overlapped, todo, at, since, touched, m_loggers, m_level, m_appenders>>
    BY <1>7 DEF Write, Log, vars, varVars, logVars
  <2>2. \A x \in Names : LookKept(x)
    BY <2>1 DEF LookKept
  <2> QED BY <2>1, <2>2, FollowInvKept
<1> QED BY <1>1, <1>2, <1>3, <1>4, <1>5, <1>6, <1>7 DEF Next

(* Whenever nobody sets the variable, and no two calls of setValue ever     *)
(* overlapped, the loggers are what the present value says, for any         *)
(* sequence of values and any use of the loggers in between that leaves     *)
(* levels and appenders alone.  The exception is a name whose definition    *)
(* was replaced while it stayed in the value (qlc_log.cpp:720): its logger  *)
(* is still as the definition that it came with.                            *)
THEOREM LoggersFollow == Spec => []LoggersFollowConfig
<1>1. Init => SinceInv /\ FollowInv
  BY SinceInvInit, FollowInvInit
<1>2. /\ VarInv /\ WorkInv /\ LogInv
      /\ (VarInv /\ WorkInv /\ LogInv)'
      /\ SinceInv /\ FollowInv /\ [Next]_vars
      => (SinceInv /\ FollowInv)'
  BY SinceInvNext, FollowInvNext
<1>3. FollowInv => LoggersFollowConfig
  BY DEF FollowInv, LoggersFollowConfig, ChangedInPlace, Settled, SwitchedOff
<1> QED BY <1>1, <1>2, <1>3, ListenerKept, PTL DEF Spec

=============================================================================
