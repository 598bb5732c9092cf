---------------------------- MODULE CloudCommand ----------------------------
(***************************************************************************)
(* swCloudCommand of snippets/swCloud.c: a text that asks to register a    *)
(* user or to bind the device, its parser, and the answer.  A text is a    *)
(* sequence of tokens: a command, keys, names and ends of line.            *)
(***************************************************************************)
EXTENDS CloudApi

CONSTANT Words    \* the command words sent

ASSUME CommandAssumption == Words \subseteq {"REGISTER", "BIND"}

VARIABLE command     \* each caller's last: what its text asks, for whom, the answer

commandVars == <<vars, command>>

NewLine == "\n"
Keys == {"USERNAME:", "PASSWORD:", "ACCOUNT:", "DEVICENAME:"}
NoCommand == [cmd |-> "none", user |-> NoUser, answer |-> "none"]
Asks(t, cmd, user, answer) ==
  command' = [command EXCEPT ![t] = [cmd |-> cmd, user |-> user, answer |-> answer]]

Refused == [call |-> "none", user |-> <<>>]

-----------------------------------------------------------------------------
(* _cldcmd_parse.  strstr() finds the first of a key, and the value behind *)
(* it ends at the next end of line, which becomes a NUL: a second value on *)
(* the same line then has no end.                                          *)

Other(cmd) == IF cmd = "REGISTER" THEN "ACCOUNT:" ELSE "DEVICENAME:"
Occurrences(text, token, from) == {i \in from..Len(text) : text[i] = token}
First(text, token, from) == Min(Occurrences(text, token, from))

\* Mutant: the ends are looked for in the text as it came.
ValuesEndLoose(text, keys) ==
  \A k \in keys : Occurrences(text, k, 1) # {} /\
                  Occurrences(text, NewLine, First(text, k, 1)) # {}

ValuesEnd(text, keys) ==
  /\ \A k \in keys : /\ Occurrences(text, k, 1) # {}
                     /\ Occurrences(text, NewLine, First(text, k, 1)) # {}
  /\ \A j, k \in keys :
       j # k => First(text, NewLine, First(text, j, 1)) # First(text, NewLine, First(text, k, 1))

Value(text, key) ==
  LET i == First(text, key, 1) IN SubSeq(text, i + 1, First(text, NewLine, i) - 1)

Read(text) ==
  IF text[1] \in Words /\ ValuesEnd(text, {"USERNAME:", "PASSWORD:", Other(text[1])})
  THEN [call |-> text[1], user |-> Value(text, "USERNAME:")]
  ELSE Refused

-----------------------------------------------------------------------------
(* What is sent: a command and its three lines in any order, whole or with *)
(* one token lost.  Of a text the rest sees what it asks for, cmd and user *)
(* ("damaged": nothing), and what the parser reads in it.                  *)

Lines(cmd, user, name) ==
  {<<"USERNAME:", user, NewLine>>, <<"PASSWORD:", name, NewLine>>,
   <<Other(cmd), name, NewLine>>}
Texts(cmd, user, name) ==
  {<<cmd, NewLine>> \o FlattenSeq(lines) : lines \in SetToSeqs(Lines(cmd, user, name))}

\* Every token but the names and the end of the first line is needed.
Damaged(text) ==
  {RemoveAt(text, i) : i \in {j \in DOMAIN text : text[j] \in Keys \cup Words
                                              \/ (text[j] = NewLine /\ j > 2)}}

Inputs ==
  UNION {{[cmd |-> cmd, user |-> user, read |-> Read(text)] : text \in Texts(cmd, user, name)}
           \cup {[cmd |-> "damaged", user |-> NoUser, read |-> Read(damaged)] :
                   damaged \in UNION {Damaged(text) : text \in Texts(cmd, user, name)}}
         : cmd \in Words, user \in Users, name \in Users}

Command(t) ==
  /\ pc[t] = "idle"
  /\ \E r \in Inputs :
       /\ Asks(t, r.cmd, r.user, IF r.read = Refused THEN "1004" ELSE "none")
       /\ CASE r.read = Refused           -> UNCHANGED vars
            [] r.read.call = "REGISTER" -> RegUsr(t)
            [] r.read.call = "BIND"     -> Bind(t) /\ <<frame'[t].user>> = r.read.user

\* swSystemSetProductNameCheck, before swCloudBind, may refuse the name.
NameRefused(t) ==
  /\ pc[t] = "idle" /\ "BIND" \in Words
  /\ \E user \in Users : Asks(t, "BIND", user, "1000")
  /\ UNCHANGED vars

\* 1000 stands for 1002, 1003, 1008 and 1009 too, which tell why the agent refused.
Code(result) == CASE result = "ok"     -> "OK"
                  [] result = "binded" -> "1006"
                  [] result = "net"    -> "2001"
                  [] OTHER             -> "1000"

CommandDone(t) ==
  /\ Returned(t)
  /\ command' = IF command[t].cmd = "none" THEN command
                ELSE [command EXCEPT ![t].answer = Code(Result(t))]

\* A call of swCloudPing, for which no text is sent.
PingAlone(t) == Ping(t) /\ command' = [command EXCEPT ![t] = NoCommand]

Working(t) ==
  Routine(t) \/ BindStep(t) \/ RegUsrStep(t) \/ PingStep(t)

CommandInit == Init /\ command = [t \in Callers |-> NoCommand]
CommandNext ==
  \/ (Next \/ \E t \in Callers : Working(t)) /\ UNCHANGED command
  \/ \E t \in Callers : Command(t) \/ NameRefused(t) \/ CommandDone(t) \/ PingAlone(t)

CommandSpec == CommandInit /\ [][CommandNext]_commandVars

-----------------------------------------------------------------------------
(* Properties.                                                             *)

\* OK is answered only to a text that is whole.  After OK to BIND the device
\* authenticates as the user the text names, and the file names that user or,
\* once an UNBIND request was obeyed, nobody: whatever the order of the lines,
\* and whatever became of earlier commands, of the connection and of the daemon.
CommandObeyed ==
  \A t \in Callers :
    command[t].answer = "OK" =>
      /\ command[t].cmd # "damaged"
      /\ command[t].cmd = "BIND" =>
           /\ cloud.account = command[t].user
           /\ conf.account \in {command[t].user, NoUser}
=============================================================================
