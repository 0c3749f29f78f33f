------------------------------ MODULE VideoMap ------------------------------
(***************************************************************************)
(* The page at USER_VIDEO through which programs draw (vidmap in           *)
(* syscall.c, map_user_video and map_terminal_video in paging.c) while the *)
(* scheduler and the user switch terminals.                                *)
(*                                                                         *)
(* There is one such page for all processes.  It points to the video       *)
(* memory or to the saved screen of a terminal.  A screen is abstracted to *)
(* the set of terminals whose programs have drawn on it.                   *)
(***************************************************************************)
EXTENDS Integers, Terminals

Video == N      \* the video memory, as a place the page can point to
Absent == N + 1 \* the page is not present

VARIABLES
    current_terminal,
    terminal_running,   \* the terminals that have been started
    page,               \* where page_table_vidmem[0] points to
    video_mem,          \* who has drawn on the video memory
    saved_screen,       \* who has drawn on the saved screen of each terminal
    stale,              \* history: the page was set for another display
    smudged             \* history: a program drew through such a page

video_vars == <<current_terminal, running_terminal, terminal_running, page, video_mem,
          saved_screen, stale, smudged>>

VideoInit ==
    /\ current_terminal = 0
    /\ running_terminal = 0
    /\ terminal_running = {0}
    /\ page = Absent
    /\ video_mem = {}
    /\ saved_screen = [t \in Terminal |-> {}]
    /\ stale = FALSE
    /\ smudged = FALSE

-----------------------------------------------------------------------------
\* vidmap: map_user_video, whichever terminal is displayed.
vidmap ==
    /\ page' = Video
    /\ stale' = (running_terminal # current_terminal)
    /\ UNCHANGED <<current_terminal, running_terminal, terminal_running, video_mem,
                   saved_screen, smudged>>

\* The running program draws through the page.
Draw ==
    /\ page # Absent
    /\ video_mem' = IF page = Video THEN video_mem \cup {running_terminal} ELSE video_mem
    /\ saved_screen' = [t \in Terminal |->
           IF page = t THEN saved_screen[t] \cup {running_terminal} ELSE saved_screen[t]]
    /\ smudged' = (smudged \/ stale)
    /\ UNCHANGED <<current_terminal, running_terminal, terminal_running, page, stale>>

\* Fault: the page is chosen for the terminal that leaves the CPU.
map_user_video_to_buffer_Old(t) ==
    IF running_terminal = current_terminal THEN Video ELSE running_terminal

\* map_user_video_to_buffer, with map_terminal_video.
map_user_video_to_buffer(t) == IF t = current_terminal THEN Video ELSE t

\* t is the terminal that pit_handler takes next: the first one that runs after
\* the running one.
Follows(t) ==
    LET after(i) == (running_terminal + i) % N
    IN  \E i \in 1 .. N : /\ t = after(i)
                          /\ t \in terminal_running
                          /\ \A j \in 1 .. (i - 1) : after(j) \notin terminal_running

\* pit_handler; with only the first terminal running it leaves the page alone.
pit_handler ==
    /\ terminal_running \ {0} # {}
    /\ \E t \in Terminal : /\ Follows(t)
                           /\ running_terminal' = t
                           /\ page' = map_user_video_to_buffer(t)
    /\ stale' = FALSE
    /\ UNCHANGED <<current_terminal, terminal_running, video_mem, saved_screen, smudged>>

\* Fault: the saved screen is not copied back.
Restored_Not(t) == video_mem

\* restore_terminal_info and its copy of the screen.
Restored(t) == saved_screen[t]

\* switch_to_terminal: the screens are exchanged, the page stays.  A terminal
\* that has not run yet is started and gets the CPU.
switch_to_terminal(t) ==
    /\ t # current_terminal
    /\ current_terminal' = t
    /\ saved_screen' = [saved_screen EXCEPT ![current_terminal] = video_mem]
    /\ video_mem' = Restored(t)
    /\ terminal_running' = terminal_running \cup {t}
    /\ running_terminal' = IF t \in terminal_running THEN running_terminal ELSE t
    /\ stale' = (page # Absent)
    /\ UNCHANGED <<page, smudged>>

VideoNext ==
    \/ vidmap
    \/ Draw
    \/ pit_handler
    \/ \E t \in Terminal : switch_to_terminal(t)

VideoSpec == VideoInit /\ [][VideoNext]_video_vars

\* The timer interrupts for ever.
VideoFairSpec == VideoSpec /\ WF_video_vars(pit_handler)

-----------------------------------------------------------------------------
\* Types; a terminal that has the CPU has been started.
VideoTypeOK ==
    /\ current_terminal \in Terminal
    /\ running_terminal \in terminal_running
    /\ terminal_running \subseteq Terminal
    /\ page \in Terminal \cup {Video, Absent}
    /\ video_mem \subseteq Terminal
    /\ saved_screen \in [Terminal -> SUBSET Terminal]
    /\ stale \in BOOLEAN
    /\ smudged \in BOOLEAN

\* Where the program of the running terminal should draw.
Own == IF running_terminal = current_terminal THEN Video ELSE running_terminal

\* However often the user switches, the page comes right again and again once a
\* second terminal runs.
ComesRight == []<>(page \in {Own, Absent})

\* As long as no program draws between a switch, or a vidmap on a terminal that
\* is not displayed, and the next timer interrupt, every screen, displayed or
\* saved, shows the drawings of the programs of its own terminal only.
OwnDrawings ==
    ~smudged =>
        /\ video_mem \subseteq {current_terminal}
        /\ \A t \in Terminal \ {current_terminal} : saved_screen[t] \subseteq {t}
=============================================================================
