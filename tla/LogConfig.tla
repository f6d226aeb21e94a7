----------------------------- MODULE LogConfig -----------------------------
(***************************************************************************)
(* The configuration variable "logs" and the loggers it sets up: setValue, *)
(* by LoadFromYaml on any thread, runs the listener of LogIniter, which    *)
(* works through the difference of the old and the new set of definitions  *)
(* one operation on a logger at a time, while the program uses the         *)
(* loggers.  A value is a function from names to definitions, as LogDefine *)
(* is ordered by its name alone.                                           *)
(***************************************************************************)
EXTENDS ConfigVar, Log

CONSTANTS
  Logs,          \* the listener of LogIniter, one of Listeners
  MaxUses        \* bound: operations of the program on loggers

VARIABLES
  todo,     \* names the listener has still to deal with, per setter
  at,       \* where it is in what it does for the name
  since,    \* history: the definition with which a name came into the value
  touched,  \* history: loggers whose level or appenders the program changed
  uses      \* bounded counter

vars == <<varVars, logVars, todo, at, since, touched, uses>>

LogDefine == [level : 0..FATAL, formatter : Pattern, appenders : Seq(Pattern)]

(* The variable is made with an empty set, and lexical_cast makes values of *)
(* complete definitions.                                                    *)
ASSUME LogConfigAssumption ==
  /\ Logs \in Listeners /\ MaxUses \in Nat /\ DOMAIN Default = {}
  /\ \A v \in Values :
       DOMAIN v \subseteq Names /\ \A n \in DOMAIN v : v[n] \in LogDefine

(* operator== of std::set<LogDefine>; LogDefine's compares appenders with   *)
(* itself                                                                   *)
LogsEqual(v, w) ==
  /\ DOMAIN v = DOMAIN w
  /\ \A n \in DOMAIN v :
       v[n].level = w[n].level /\ v[n].formatter = w[n].formatter

Op(op, arg) == [op |-> op, arg |-> arg]

(* Mutant: the appenders are cleared last. *)
SetUpClearsLast(d) ==
  <<Op("get", 0), Op("level", d.level)>>
  \o [i \in DOMAIN d.appenders |-> Op("append", d.appenders[i])]
  \o <<Op("clear", 0)>>
(* What the listener does for a name that is new ... *)
SetUp(d) ==
  <<Op("get", 0), Op("level", d.level)>>
  \o (IF d.formatter = NoFormat THEN <<>> ELSE <<Op("formatter", d.formatter)>>)
  \o <<Op("clear", 0)>>
  \o [i \in DOMAIN d.appenders |-> Op("append", d.appenders[i])]
(* ... and for one that is gone *)
TearDown == <<Op("get", 0), Op("level", Off), Op("clear", 0)>>
Work(s, n) == IF n \in DOMAIN setTo[s] THEN SetUp(setTo[s][n]) ELSE TearDown

(* A name that stays is left alone, whatever its definition. *)
Changes(old, new) == (DOMAIN new \ DOMAIN old) \cup (DOMAIN old \ DOMAIN new)
(* The loop over the new value comes before the one over the old value, and *)
(* both are in the order of the names.                                      *)
Before(s, n, m) ==
  IF n \in DOMAIN setTo[s] THEN m \in DOMAIN setTo[s] => n <= m
  ELSE m \notin DOMAIN setTo[s] /\ n <= m

Init ==
  /\ VarInit /\ LogInit
  /\ todo = [s \in Setters |-> {}]
  /\ at = [s \in Setters |-> 1]
  /\ since = Default
  /\ touched = {}
  /\ uses = 0

(* setValue up to the calls of the listeners *)
Set(s, v) ==
  /\ SetValue(s, v)
  /\ todo' = [todo EXCEPT ![s] = Changes(m_val, v)]
  /\ UNCHANGED <<logVars, at, since, touched, uses>>

(* The listener does one thing for the name it is at. *)
Do(n, o) ==
  \/ o.op = "get" /\ GetLogger(n)
  \/ o.op = "level" /\ SetLevel(n, o.arg)
  \/ o.op = "formatter" /\ SetPattern(n, o.arg)
  \/ o.op = "clear" /\ ClearAppenders(n)
  \/ o.op = "append" /\ AddAppender(n, IF o.arg \in Formats THEN Given(o.arg) ELSE NewAppender)
Step(s) ==
  /\ \E n \in todo[s] :
       /\ \A m \in todo[s] : Before(s, n, m)
       /\ Do(n, Work(s, n)[at[s]])
       /\ IF at[s] < Len(Work(s, n))
            THEN at' = [at EXCEPT ![s] = @ + 1] /\ UNCHANGED todo
            ELSE at' = [at EXCEPT ![s] = 1] /\ todo' = [todo EXCEPT ![s] = @ \ {n}]
  /\ UNCHANGED <<varVars, since, touched, uses>>

Finish(s) ==
  /\ \/ \E l \in Listeners : Tell(s, l) /\ (l = Logs => todo[s] = {})
     \/ Told(s)
  /\ UNCHANGED <<logVars, todo, at, since, touched, uses>>

StoreLogs(s) ==
  /\ Store(s)
  /\ since' = [n \in DOMAIN since \cup DOMAIN setTo[s] |->
       IF n \in DOMAIN setTo[s] \ DOMAIN m_val THEN setTo[s][n] ELSE since[n]]
  /\ UNCHANGED <<logVars, todo, at, touched, uses>>

(* Other listeners of the variable come and go. *)
Listen ==
  /\ \E l \in Listeners \ {Logs} : AddListener(l) \/ DelListener(l)
  /\ UNCHANGED <<logVars, todo, at, since, touched, uses>>

(* The program's own use of its loggers: of one operation after the other   *)
(* on loggers it has looked up, and of the macros, which write to them.  An *)
(* appender that it adds is new, was given a formatter, or was in a logger  *)
(* before, this one or another.                                             *)
MadeAppenders ==
  {Given(f) : f \in Pattern} \cup {[NewAppender EXCEPT !.fmt = f] : f \in Pattern}
Use ==
  /\ uses < MaxUses /\ uses' = uses + 1
  /\ \/ /\ \E n \in Names : \/ GetLogger(n)
                            \/ n \in m_loggers /\ \E f \in Pattern :
                                 SetFormatter(n, f) \/ (f # NoFormat /\ SetPattern(n, f))
        /\ UNCHANGED touched
     \/ \E n \in m_loggers :
          /\ \/ SetLevel(n, FATAL)
             \/ \E a \in MadeAppenders : AddAppender(n, a)
             \/ ClearAppenders(n)
             \/ \E i \in DOMAIN m_appenders[n] :
                  \/ DelAppender(n, i)
                  \/ \E f \in Pattern : AppenderSetFormatter(n, i, f)
          /\ touched' = touched \cup {n}
  /\ UNCHANGED <<varVars, todo, at, since>>

Write ==
  /\ \E n \in m_loggers : Log(n, DEBUG)
  /\ UNCHANGED <<varVars, todo, at, since, touched, uses>>

Next ==
  /\ crashed = "no"
  /\ \/ \E s \in Setters :
          \/ \E v \in Values : Set(s, v)
          \/ Step(s) \/ Finish(s) \/ StoreLogs(s)
     \/ Listen \/ Use \/ Write

Spec == Init /\ [][Next]_vars

(* The variable and the loggers keep their types, and a listener has        *)
(* something to do only while its setter holds the read lock.               *)
TypeOK ==
  /\ VarTypeOK /\ LogTypeOK
  /\ \A s \in Setters : todo[s] # {} => setPc[s] = "tell" /\ Logs \in toTell[s]
  /\ uses \in 0..MaxUses

SetUpAs(n, d) ==
  /\ n \in m_loggers
  /\ m_level[n] = d.level
  /\ Len(m_appenders[n]) = Len(d.appenders)
  /\ \A i \in DOMAIN d.appenders :
       m_appenders[n][i].own = (d.appenders[i] \in Formats)

(* The definition of n was replaced by another while the name stayed in the *)
(* value: the listener goes on to the next name (qlc_log.cpp:720), although *)
(* its comment wants a new logger for every change (qlc_log.cpp:706).       *)
ChangedInPlace(n) == since[n] # m_val[n]

(* When no setValue is under way, and none overlapped another, the loggers  *)
(* are what the present configuration says: a configured name has the level *)
(* and the appenders of its definition, unless that was changed in place or *)
(* the program changed the logger; a name that was removed has its output   *)
(* switched off and no appender left.                                       *)
LoggersFollowConfig ==
  (~overlapped /\ \A s \in Setters : setPc[s] = "out") =>
    \A n \in DOMAIN since \ touched :
      IF n \in DOMAIN m_val THEN ChangedInPlace(n) \/ SetUpAs(n, m_val[n])
      ELSE m_level[n] = Off /\ m_appenders[n] = <<>>

(* An event of a logger without appenders finds the root logger's, as the   *)
(* comment on m_root promises, unless the program took them away or the     *)
(* root logger itself was ever in the configuration: then Log follows its   *)
(* null m_root, for instance while the listener has cleared its appenders   *)
(* and not added the new ones yet.                                          *)
RootServes ==
  crashed = "root" =>
    \/ Root \in touched \cup DOMAIN since
    \/ \E s \in Setters : Root \in DOMAIN setTo[s]

=============================================================================
