-------------------------------- MODULE Log --------------------------------
(***************************************************************************)
(* Loggers, their levels, formatters and appenders, and the manager that   *)
(* makes them.  Every operation runs under the logger's (or the manager's) *)
(* spinlock and is one step.  An appender belongs to one logger, as        *)
(* everywhere in the repository, so it is a record in the logger's list.   *)
(* What is written, and where, is left out.                                *)
(***************************************************************************)
EXTENDS Naturals, Sequences, SequencesExt

CONSTANTS
  Names,           \* names of loggers, as numbers in the order of the strings
  Root,            \* the name "root"
  Formats,         \* well-formed formatters
  DefaultFormat,   \* the one of Logger's constructor
  BadFormat,       \* a pattern that does not parse, and its LogFormatter
  NoFormat         \* a null formatter, an empty pattern

DEBUG == 1
FATAL == 5
Off == 100

ASSUME LogAssumption ==
  /\ Names \subseteq Nat /\ Root \in Names
  /\ DefaultFormat \in Formats /\ {BadFormat, NoFormat} \cap Formats = {}

VARIABLES
  m_loggers,      \* the names that have a logger
  m_level,        \* per name; the constructor's values while there is no logger
  m_formater,
  m_appenders,    \* per name, a sequence of appenders
  crashed         \* what Log has followed: the null m_root of the root logger
                  \* ("root"), a null formatter ("formatter"), or neither ("no")

logVars == <<m_loggers, m_level, m_formater, m_appenders, crashed>>

Pattern == Formats \cup {BadFormat, NoFormat}

(* LogAppender: its formatter, and hasFormatter; and, for a history,        *)
(* whether its formatter, or that it has none, is not from its logger       *)
Appender == [fmt : Pattern, own : BOOLEAN, kept : BOOLEAN]
NewAppender == [fmt |-> NoFormat, own |-> FALSE, kept |-> FALSE]

(* Mutant: the root logger is made without an appender. *)
LogInitBare ==
  /\ m_loggers = {Root}
  /\ m_level = [n \in Names |-> DEBUG]
  /\ m_formater = [n \in Names |-> DefaultFormat]
  /\ m_appenders = [n \in Names |-> <<>>]
  /\ crashed = "no"
(* LoggerManager's constructor: a root logger with one appender *)
LogInit ==
  /\ m_loggers = {Root}
  /\ m_level = [n \in Names |-> DEBUG]
  /\ m_formater = [n \in Names |-> DefaultFormat]
  /\ m_appenders = [n \in Names |->
       IF n = Root THEN <<[NewAppender EXCEPT !.fmt = DefaultFormat]>> ELSE <<>>]
  /\ crashed = "no"

(* getLogger: the logger of that name, made and entered if it is new *)
GetLogger(n) ==
  /\ m_loggers' = m_loggers \cup {n}
  /\ UNCHANGED <<m_level, m_formater, m_appenders, crashed>>

SetLevel(n, level) ==
  /\ m_level' = [m_level EXCEPT ![n] = level]
  /\ UNCHANGED <<m_loggers, m_formater, m_appenders, crashed>>

(* Mutant: the appenders are not given the new formatter. *)
SetFormatterAlone(n, f) ==
  /\ m_formater' = [m_formater EXCEPT ![n] = f]
  /\ UNCHANGED <<m_loggers, m_level, m_appenders, crashed>>
(* Logger::setFormatter with a pointer, which may be null or isError() *)
SetFormatter(n, f) ==
  /\ m_formater' = [m_formater EXCEPT ![n] = f]
  /\ m_appenders' = [m_appenders EXCEPT ![n] =
       [i \in DOMAIN @ |->
          IF @[i].own THEN @[i] ELSE [@[i] EXCEPT !.fmt = f, !.kept = FALSE]]]
  /\ UNCHANGED <<m_loggers, m_level, crashed>>
(* ... and with a pattern: one that does not parse changes nothing *)
SetPattern(n, p) ==
  IF p \in Formats THEN SetFormatter(n, p) ELSE UNCHANGED logVars

(* LogAppender::setFormatter; a null formatter is no formatter of its own *)
Given(f) == [fmt |-> f, own |-> f # NoFormat, kept |-> TRUE]

(* addAppender: only an appender that has a null formatter gets the         *)
(* logger's; one that was in a logger before comes with the formatter it    *)
(* had there                                                                *)
Adopted(n, a) ==
  [a EXCEPT !.fmt = IF @ = NoFormat THEN m_formater[n] ELSE @,
            !.kept = (a.fmt # NoFormat)]
AddAppender(n, a) ==
  /\ m_appenders' = [m_appenders EXCEPT ![n] = Append(@, Adopted(n, a))]
  /\ UNCHANGED <<m_loggers, m_level, m_formater, crashed>>

DelAppender(n, i) ==
  /\ m_appenders' = [m_appenders EXCEPT ![n] = RemoveAt(@, i)]
  /\ UNCHANGED <<m_loggers, m_level, m_formater, crashed>>

ClearAppenders(n) ==
  /\ m_appenders' = [m_appenders EXCEPT ![n] = <<>>]
  /\ UNCHANGED <<m_loggers, m_level, m_formater, crashed>>

(* LogAppender::setFormatter on an appender that is attached *)
AppenderSetFormatter(n, i, f) ==
  /\ m_appenders' = [m_appenders EXCEPT ![n][i] = Given(f)]
  /\ UNCHANGED <<m_loggers, m_level, m_formater, crashed>>

(* Logger::Log: a logger without appenders passes the event to its m_root,  *)
(* with its mutex held; the root logger has a null m_root.  An appender     *)
(* follows its formatter.                                                   *)
NoTarget(n, level) == level >= m_level[n] /\ m_appenders[n] = <<>>
NullFormatter(n, level) ==
  level >= m_level[n] /\ \E i \in DOMAIN m_appenders[n] : m_appenders[n][i].fmt = NoFormat
Log(n, level) ==
  /\ \/ NoTarget(n, level) /\ NoTarget(Root, level) /\ crashed' = "root"
     \/ /\ NullFormatter(n, level) \/ (NoTarget(n, level) /\ NullFormatter(Root, level))
        /\ crashed' = "formatter"
  /\ UNCHANGED <<m_loggers, m_level, m_formater, m_appenders>>

LogTypeOK ==
  /\ m_loggers \subseteq Names /\ Root \in m_loggers
  /\ m_level \in [Names -> (0..FATAL) \cup {Off}]
  /\ m_formater \in [Names -> Pattern]
  /\ \A n \in Names :
       /\ m_appenders[n] \in Seq(Appender)
       /\ m_appenders[n] # <<>> => n \in m_loggers
  /\ crashed \in {"no", "root", "formatter"}

(* An appender that has no formatter of its own writes in the format of its *)
(* logger (the comment on hasFormatter: "only if it has none is the         *)
(* logger's formatter given to it"), whatever the order of addAppender,     *)
(* setFormatter on the logger or on the appender, and reconfiguration.  Two *)
(* kinds of appenders have none and do not: one that was added with a       *)
(* formatter it had from another logger or from an earlier time, and one    *)
(* whose own formatter was replaced by null; both until the logger's        *)
(* setFormatter is called again.                                            *)
FollowsLogger ==
  \A n \in Names : \A i \in DOMAIN m_appenders[n] :
    LET a == m_appenders[n][i] IN a.own \/ a.kept \/ a.fmt = m_formater[n]

=============================================================================
