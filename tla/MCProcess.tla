------------------------------- MODULE MCProcess -------------------------------
(***************************************************************************)
(* One instance each of WorkLoop, Session and Config for TLC: what is left *)
(* on disk by processes that begin, are cut short and begin again - the    *)
(* ledger, the run's files and its archive, the settings.  The three share *)
(* no variable; a behaviour is of the machine `part` names, the others     *)
(* rest.                                                                   *)
(***************************************************************************)
EXTENDS WorkLoop, Session, Config, TLC

VARIABLE part

-----------------------------------------------------------------------------
\* Session: a command, an attended prompt, and an unattended one that may do all.
ThreeProcesses ==
  {[kind |-> "shot", tty |-> TRUE, flag |-> "none"], [kind |-> "repl", tty |-> TRUE, flag |-> "none"],
   [kind |-> "repl", tty |-> FALSE, flag |-> "auto"]}

\* Config: a choice and a switch; a role one name of which begins another's.
Mode == <<"permissions", "mode">>
Verbose == <<"agent", "verbose">>
TwoSettings == {Mode, Verbose}
OneSwitch == {Verbose}
OnePrefix == {<<"planner", "planner_b">>}
ModeFlag == {NoLayer, Mode :> "plan"}
Named(deprecated, setting) == [deprecated |-> deprecated, setting |-> setting]
SixNames ==
  {Named(FALSE, <<"model", "planner", "model">>), Named(FALSE, <<"model", "planner_b", "model">>),
   Named(FALSE, <<"model", "default", "api_key">>), Named(TRUE, <<"model", "default", "model">>),
   Named(FALSE, Verbose), Named(TRUE, Verbose)}

-----------------------------------------------------------------------------
SessionRests == ssFile = CHOOSE m \in Modes : TRUE
ConfigRests == cfShell = NoLayer

ProcessInit ==
  /\ part \in {"work", "session", "config"}
  /\ part # "session" => SessionRests
  /\ part # "config" => ConfigRests
  /\ Init /\ SessionInit /\ ConfigInit

ProcessNext ==
  \/ part = "work" /\ Next /\ UNCHANGED <<part, ssVars, cfVars>>
  \/ part = "session" /\ SessionNext /\ UNCHANGED <<part, vars, cfVars>>
  \/ part = "config" /\ ConfigNext /\ UNCHANGED <<part, vars, ssVars>>

ProcessSpec == ProcessInit /\ [][ProcessNext]_<<part, vars, ssVars, cfVars>>

\* The variables of the three machines keep their types.
ProcessTypeOK == TypeOK /\ SessionTypeOK /\ ConfigTypeOK
=============================================================================
