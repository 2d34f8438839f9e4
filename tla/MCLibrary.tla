----------------------------- MODULE MCLibrary -----------------------------
(***************************************************************************)
(* The components that share no state with each other, side by side: every *)
(* behaviour is one of the component called subject.                       *)
(***************************************************************************)
EXTENDS RingBuffer, Console, LinkedList, Strings, Printf, MCBoot, Virtual, Clock,
        Logger, CxaGuard, CpuTime, Graphics, Paging, TaskLists

CONSTANTS main, t1, t2, t3, t4

VARIABLE subject

(* A character that is no mirror image of itself.                           *)
MCGlyph == {{<<0, 0>>, <<0, 1>>, <<1, 1>>}}

MCTask == {main, t1, t2, t3, t4}

libraryVars ==
  <<ringVars, consoleVars, listVars, stringVars, printfVars, bootVars, virtualVars, clockVars,
    logVars, guardVars, timeVars, graphicsVars, pagingVars, taskVars>>

LibraryInit ==
  /\ subject \in {"ring", "console", "list", "strings", "printf", "boot", "virtual", "clock",
                  "logger", "guard", "time", "graphics", "paging", "tasks"}
  /\ RingInit /\ ConsoleInit /\ ListInit /\ StringsInit /\ PrintfInit /\ BootInit
  /\ VirtualInit /\ (subject # "virtual" => rangeEnd = EndPage /\ \A v \in VPage : entry[v] = NoFrame)
  /\ ClockInit /\ LoggerInit /\ GuardInit
  /\ CpuTimeInit /\ (subject # "time" => onCpu = CHOOSE t \in Thread : TRUE)
  /\ GraphicsInit /\ PagingInit /\ TaskListsInit

(* The step is one of component s, and nothing else moves.                  *)
Only(s) ==
  /\ subject = s /\ UNCHANGED subject
  /\ s # "ring" => UNCHANGED ringVars
  /\ s # "console" => UNCHANGED consoleVars
  /\ s # "list" => UNCHANGED listVars
  /\ s # "strings" => UNCHANGED stringVars
  /\ s # "printf" => UNCHANGED printfVars
  /\ s # "boot" => UNCHANGED bootVars
  /\ s # "virtual" => UNCHANGED virtualVars
  /\ s # "clock" => UNCHANGED clockVars
  /\ s # "logger" => UNCHANGED logVars
  /\ s # "guard" => UNCHANGED guardVars
  /\ s # "time" => UNCHANGED timeVars
  /\ s # "graphics" => UNCHANGED graphicsVars
  /\ s # "paging" => UNCHANGED pagingVars
  /\ s # "tasks" => UNCHANGED taskVars

(* A component whose callers may leave it alone for good; the other two are *)
(* never stuck.                                                             *)
MayRest == subject \notin {"paging", "tasks"} /\ UNCHANGED <<libraryVars, subject>>

LibraryNext ==
  \/ Only("ring") /\ RingNext
  \/ Only("console") /\ ConsoleNext
  \/ Only("list") /\ ListNext
  \/ Only("strings") /\ StringsNext
  \/ Only("printf") /\ PrintfNext
  \/ Only("boot") /\ BootNext
  \/ Only("virtual") /\ VirtualNext
  \/ Only("clock") /\ ClockNext
  \/ Only("logger") /\ LoggerNext
  \/ Only("guard") /\ GuardNext
  \/ Only("time") /\ CpuTimeNext
  \/ Only("graphics") /\ GraphicsNext
  \/ Only("paging") /\ PagingNext
  \/ Only("tasks") /\ TaskListsNext
  \/ MayRest

LibrarySpec == LibraryInit /\ [][LibraryNext]_<<subject, libraryVars>>
=============================================================================
