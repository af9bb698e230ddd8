------------------------------- MODULE Prompt -------------------------------
(***************************************************************************)
(* The command loop of prompt.c over the line input: getstr into command,  *)
(* comparison with the known commands, the numbers a command asks for      *)
(* through getint, and the kmemset that clears command for the next round. *)
(* getstr terminates inputBuf and not the buffer, so a command is compared *)
(* up to the first zero byte that the buffer held before.                  *)
(*                                                                         *)
(* Two kinds of commands are told apart: those that read two lines (add,   *)
(* sub, mul, div, memdump), of which a div by zero and a memdump of an     *)
(* address that is not mapped stop the machine, and those that read none   *)
(* (ls, dir, unknown ones).  getch, which the kernel defines and no longer *)
(* calls, is called before the prompt starts.                              *)
(***************************************************************************)
EXTENDS LineInput

CONSTANT CommandSize    \* bytes of command (100)

ASSUME PromptAssumption == CommandSize \in 1 .. CounterMod

VARIABLES
    stage,              \* the line that prompt is at: none, the command, its two numbers
    cleared             \* history: command was cleared before the line was asked for

vars == <<inputVars, stage, cleared>>

Filled(byte) == [c \in 0 .. CounterMod |-> byte]

Init ==
    /\ InputInit
    /\ stage = "kernel" /\ cleared = FALSE

(* strcmp of command with a name.  A byte that nobody has written may have *)
(* any value, the one the name has or another.                             *)
IsCommand(name) ==
    /\ \A n \in DOMAIN name : buf[n - 1] \in {name[n], Junk}
    /\ buf[Len(name)] \in {NUL, Junk}
IsNot(name) ==
    \E n \in 0 .. Len(name) :
        buf[n] = Junk \/ buf[n] # (IF n < Len(name) THEN name[n + 1] ELSE NUL)

callGetch ==
    /\ stage = "kernel"
    /\ askForLine("getch", Filled(Junk))
    /\ UNCHANGED <<stage, cleared>>

(* The first round finds command as the stack left it. *)
prompt ==
    /\ stage = "kernel"
    /\ askForLine("getstr", Filled(Junk))
    /\ stage' = "command" /\ cleared' = FALSE

(* kmemset of command and the next round. *)
Mut_nextRound ==
    /\ askForLine("getstr", buf)
    /\ stage' = "command" /\ cleared' = TRUE
nextRound ==
    /\ askForLine("getstr", [c \in 0 .. CounterMod |-> IF c < CommandSize THEN NUL ELSE Junk])
    /\ stage' = "command" /\ cleared' = TRUE

(* getint's getstr, or the one of memdump, into an array of its own. *)
getint(next) ==
    /\ askForLine("getstr", Filled(Junk))
    /\ stage' = next
    /\ UNCHANGED cleared

add == <<"a">>          \* the name of a command that reads two lines
Dispatch ==
    /\ stage = "command" /\ reader = "out"
    /\ \/ IsCommand(add) /\ getint("first")
       \/ IsNot(add) /\ nextRound

(* The second line, and the end of the command, unless the exception it    *)
(* raises stops the machine.  The digits typed are followed by what numStr *)
(* held before, so any number may come of them.                            *)
secondNumber == stage = "first" /\ getint("second")
commandDone == stage = "second" /\ nextRound
commandFaults ==
    /\ stage = "second" /\ reader = "out"
    /\ stage' = "halted"
    /\ UNCHANGED <<inputVars, cleared>>

Next ==
    \/ stage # "halted" /\ (keyboard \/ readerStep) /\ UNCHANGED <<stage, cleared>>
    \/ callGetch \/ prompt \/ Dispatch \/ secondNumber \/ commandDone \/ commandFaults

(* The interrupted code goes on between interrupts.  Nothing forces a key  *)
(* to be pressed.                                                          *)
Spec == Init /\ [][Next]_vars /\ WF_vars(stage # "halted" /\ readerStep /\ UNCHANGED <<stage, cleared>>)

-----------------------------------------------------------------------------
(* From the second command on, what strcmp compares is the line as typed,  *)
(* with nothing of an earlier command behind it: the buffer ends where the *)
(* line does.  A key past the tables may be a NUL, which ends the command. *)
CommandAsTyped ==
    stage = "command" /\ Returned("getstr") /\ cleared /\ i < CommandSize
      /\ ahead = 0 /\ ~wrapped /\ ~struck =>
        LET line == FirstLine(typed) IN
        /\ buf[i] = NUL
        /\ IF line = add \/ IsPrefix(Append(add, NUL), line) THEN ~IsNot(add) ELSE ~IsCommand(add)

=============================================================================
