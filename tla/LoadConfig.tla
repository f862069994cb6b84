------------------------------ MODULE LoadConfig ------------------------------
(***************************************************************************)
(* ConnectionPool::loadConfig of src/src/CommonConnectionPool.cc: the      *)
(* lines of the configuration file, the numbers they are converted to and  *)
(* what is accepted.                                                       *)
(*                                                                         *)
(* A text is the number it begins with, Word or Empty; the host is left    *)
(* out, and so are keys that loadConfig does not look up.  The integer     *)
(* types are given by how many values they have, so that conversions wrap  *)
(* and fail where the types do.                                            *)
(***************************************************************************)
EXTENDS Integers, Sequences

CONSTANTS
  Numbers,                      \* the numbers that texts are
  Word, Empty,                  \* a text that is no number, and no text
  Unset,                        \* no entry in configMap
  Skipped,                      \* a line that is blank, a comment or has no '='
  Required,                     \* the settings that must not be empty
  IntSize, LongSize, PortSize,  \* values of int, unsigned long and uint16_t
  MaxLines                      \* bound on the length of the file

ASSUME SizeAssumption ==
  /\ {IntSize, LongSize, PortSize} \subseteq Nat \ {0}
  /\ IntSize % 2 = 0 /\ LongSize % IntSize = 0
\* The types hold the numbers that Config has to begin with.
ASSUME DefaultAssumption == 3306 < PortSize /\ 5000 < IntSize \div 2
ASSUME TextAssumption ==
  /\ Numbers \subseteq Int
  /\ {Word, Empty, Unset} \cap Numbers = {}
  /\ Word # Empty /\ Word # Unset /\ Empty # Unset

VARIABLES
  lines,      \* the lines read so far
  configMap,  \* configMap
  config,     \* _config, its numbers
  outcome     \* how far loadConfig is, and what came of it

loadVars == <<lines, configMap, config, outcome>>

Texts == Numbers \cup {Word, Empty}
Numeric == {"port", "initSize", "maxSize", "maxIdleTime", "connectionTimeout"}
Settings == Required \cup Numeric
Line == (Settings \X Texts) \cup {Skipped}

IntMin == -(IntSize \div 2)
IntMax == IntSize \div 2 - 1

LoadTypeOK ==
  /\ lines \in Seq(Line)
  /\ configMap \in [Settings -> Texts \cup {Unset}]
  /\ config \in [port : 0..PortSize - 1, minSize : IntMin..IntMax, maxSize : IntMin..IntMax,
                 maxIdleTime : IntMin..IntMax, connectionTimeout : IntMin..IntMax]
  /\ outcome \in {"reading", "rejected", "throws", "accepted"}

NoSettings == [s \in Settings |-> Unset]

\* The members of Config before loadConfig assigns them.
LoadInit ==
  /\ lines = <<>> /\ configMap = NoSettings
  /\ config = [port |-> 3306, minSize |-> 5, maxSize |-> 20,
               maxIdleTime |-> 60, connectionTimeout |-> 5000]
  /\ outcome = "reading"

-----------------------------------------------------------------------------
\* The file cannot be opened.
OpenFails ==
  /\ outcome = "reading" /\ lines = <<>>
  /\ outcome' = "rejected"
  /\ UNCHANGED <<lines, configMap, config>>

\* Slip: emplace() in place of operator[].
KeepFirst(l) == IF configMap[l[1]] = Unset THEN [configMap EXCEPT ![l[1]] = l[2]] ELSE configMap

Assign(l) == [configMap EXCEPT ![l[1]] = l[2]]

ReadLine(l) ==
  /\ outcome = "reading" /\ Len(lines) < MaxLines
  /\ lines' = Append(lines, l)
  /\ configMap' = IF l = Skipped THEN configMap ELSE Assign(l)
  /\ UNCHANGED <<config, outcome>>

\* getConfig(s, default).
Default == [s \in Settings |->
  CASE s = "port" -> 3306
    [] s = "initSize" -> 5
    [] s = "maxSize" -> 20
    [] s = "maxIdleTime" -> 60
    [] s = "connectionTimeout" -> 5000
    [] OTHER -> Empty]
Text(s) == IF configMap[s] = Unset THEN Default[s] ELSE configMap[s]

\* std::stoi and std::stoul throw when there is no number and when it is out
\* of range.  stoul takes a minus sign and wraps.
StoiThrows(t) == t \in {Word, Empty} \/ t \notin IntMin..IntMax
StoulThrows(t) == t \in {Word, Empty} \/ t \notin -(LongSize - 1)..(LongSize - 1)
Stoul(t) == t % LongSize

\* Slip: the sizes are kept unsigned.
KeepUnsigned(n) == n % IntSize

\* The conversion of an unsigned long to int.
Narrow(n) == IF n % IntSize > IntMax THEN (n % IntSize) - IntSize ELSE n % IntSize

ConversionThrows ==
  \/ \E s \in {"port", "maxIdleTime", "connectionTimeout"} : StoiThrows(Text(s))
  \/ \E s \in {"initSize", "maxSize"} : StoulThrows(Text(s))

Converted ==
  [port |-> Text("port") % PortSize,
   minSize |-> Narrow(Stoul(Text("initSize"))), maxSize |-> Narrow(Stoul(Text("maxSize"))),
   maxIdleTime |-> Text("maxIdleTime"), connectionTimeout |-> Text("connectionTimeout")]

\* Slip: the wrong way round.
SizesReversed(c) == c.minSize >= c.maxSize

\* Slip: the sizes are compared before they become ints.
ValidAsRead(c) == Stoul(Text("initSize")) <= Stoul(Text("maxSize"))

ValidSizes(c) == c.minSize <= c.maxSize

CredentialsGiven == \A s \in Required : Text(s) # Empty

\* The end of the file: convert, then validate.  The lines and the map go out
\* of scope.
Load ==
  /\ outcome = "reading"
  /\ \/ ConversionThrows /\ outcome' = "throws" /\ UNCHANGED config
     \/ /\ ~ConversionThrows
        /\ config' = Converted
        /\ outcome' = IF CredentialsGiven /\ ValidSizes(Converted) THEN "accepted" ELSE "rejected"
  /\ lines' = <<>> /\ configMap' = NoSettings

LoadConfig == OpenFails \/ (\E l \in Line : ReadLine(l)) \/ Load

-----------------------------------------------------------------------------
\* Where a setting is last assigned decides, whatever the order of the lines
\* and however often it appears.
LastAssignmentWins ==
  outcome = "reading" => \A s \in Settings :
    LET places == {i \in DOMAIN lines : lines[i] # Skipped /\ lines[i][1] = s}
    IN  configMap[s] = IF places = {} THEN Unset
                       ELSE lines[CHOOSE i \in places : \A j \in places : j <= i][2]

\* A file whose numbers an int can hold is accepted only with its sizes in
\* order, and then the pool gets the numbers that are written there; every
\* other number is rejected or changed without a word.
AcceptedAsWritten ==
  [][outcome = "reading" /\ outcome' = "accepted" /\ {Text("initSize"), Text("maxSize")} \subseteq IntMin..IntMax
     => /\ config'.minSize = Text("initSize") /\ config'.maxSize = Text("maxSize")
        /\ Text("initSize") <= Text("maxSize")]_loadVars
=============================================================================
