------------------------------ MODULE Platform ------------------------------
(***************************************************************************)
(* What efi_main asks of the firmware between the search and the loading:  *)
(* the screen (bootloader/source/video.c), the ACPI tables and the number  *)
(* of processors (acpi.c).  Modes are numbered from 0, as the firmware     *)
(* numbers them.                                                           *)
(***************************************************************************)
EXTENDS FindKernel

CONSTANTS ModeLists,    \* sequences of modes [wanted, bytes]: 1920x1080 or not, and the
                        \* size of the framebuffer
          CoreCounts    \* the numbers of processors; 0 when the firmware cannot tell

ASSUME PlatformAssumption == CoreCounts \subseteq Nat

VARIABLES screen,       \* the mode that was set, and its number
          cores         \* procCount

platformVars == <<screen, cores>>

NoScreen == [mode |-> -1, wanted |-> FALSE, bytes |-> 0, offered |-> FALSE]

PlatformInit == screen = NoScreen /\ cores = 0

\* The number of the first mode of the size asked for, or how many there are.
FirstWanted(modes) ==
    IF \E i \in 1 .. Len(modes) : modes[i].wanted
    THEN (CHOOSE i \in 1 .. Len(modes) : modes[i].wanted /\ \A j \in 1 .. i - 1 : ~modes[j].wanted) - 1
    ELSE Len(modes)

\* The mode that is asked of SetMode.  The loop counts once more after the mode
\* it has found.
ModeSet(modes, now) ==
    CASE modes[now + 1].wanted -> now
      [] ~modes[now + 1].wanted /\ FirstWanted(modes) = Len(modes) -> 0
      [] OTHER -> FirstWanted(modes) + 1

\* SetMode fails for a number that is not a mode.
initialize_screenbuffer(modes, now) ==
    /\ stage = "screen"
    /\ LET i == ModeSet(modes, now)
       IN  IF i < Len(modes)
           THEN /\ stage' = "acpi"
                /\ screen' = [mode |-> i, wanted |-> modes[i + 1].wanted, bytes |-> modes[i + 1].bytes,
                              offered |-> FirstWanted(modes) < Len(modes)]
           ELSE stage' = "halted" /\ UNCHANGED screen
    /\ UNCHANGED <<findVars, cores>>

\* There is no screen, or its modes cannot be read.
NoGraphics ==
    /\ stage = "screen" /\ stage' = "halted"
    /\ UNCHANGED <<findVars, platformVars>>

\* The checksum of the descriptor is checked as a status and never fails.
\* Without the multiprocessor protocol its null pointer is called.
get_core_count(n) ==
    /\ stage = "acpi"
    /\ cores' = n
    /\ stage' = "header"
    /\ UNCHANGED <<findVars, screen>>

NoMultiprocessorServices ==
    /\ stage = "acpi" /\ stage' = "wild"
    /\ UNCHANGED <<findVars, platformVars>>

PlatformNext ==
    \/ \E modes \in ModeLists : \E now \in 0 .. Len(modes) - 1 : initialize_screenbuffer(modes, now)
    \/ NoGraphics
    \/ \E n \in CoreCounts : get_core_count(n)
    \/ NoMultiprocessorServices

-----------------------------------------------------------------------------
\* "if we found the video-mode, set to that. else, set to mode 0 (default)"
\* (video.c): the screen has the size asked for whenever it is offered.
ScreenAsWanted ==
    screen # NoScreen => (screen.wanted <=> screen.offered) /\ (~screen.offered => screen.mode = 0)
=============================================================================
