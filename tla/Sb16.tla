-------------------------------- MODULE Sb16 --------------------------------
(***************************************************************************)
(* Playing a sound file (sb16.c): play_music fills both halves of the DMA  *)
(* buffer and starts the sound card, whose interrupt at the end of every   *)
(* half makes sb16_handler refill it.                                      *)
(*                                                                         *)
(* The card is modelled from how the driver programs it: auto-initialised  *)
(* output (command 0xC6, DMA mode 0x58) plays the two halves in turn and   *)
(* interrupts after each.  A half plays for four seconds: sb16_handler,    *)
(* the rest of it behind its sti included, and the instructions between    *)
(* start_play and the end of play_music are over before the next           *)
(* interrupt.  play_music runs with IF = 1 and can be entered by the       *)
(* programs of several terminals; sb16_handler runs with IF = 0 up to its  *)
(* sti, and statement by statement behind it; Ctrl-C calls stop            *)
(* (keyboard.c) and a later tick kills the program it was meant for.       *)
(***************************************************************************)
EXTENDS Integers

CONSTANTS
    Proc,           \* programs that play
    File,           \* files, by their inodes
    Sound,          \* the files that start with RIFF
    Size,           \* the sizes of the files
    Refused,        \* the files whose inode read_data refuses
    Broken,         \* for each file, its bytes in blocks that read_data refuses
    Magic,          \* bytes of the magic number, 4
    BLOCK_SIZE,     \* half of the DMA buffer
    NoFile,         \* inode 0, the file of a stopped driver
    Word,           \* 2^32
    MaxPlays        \* bound: calls of play in a behaviour

ASSUME BlockAssumption == /\ BLOCK_SIZE \in Nat \ {0}
                          /\ Magic \in Nat
                          /\ Word \in Nat
                          /\ 2 * BLOCK_SIZE < Word - 1
ASSUME FileAssumption == /\ Size \in [File -> Nat]
                         /\ \A f \in File : Size[f] < Word - 1
                         /\ Sound \subseteq File
                         /\ Refused \subseteq File
                         /\ Broken \in [File -> SUBSET Nat]
                         /\ NoFile \in File
ASSUME PlaysAssumption == MaxPlays \in Nat

VARIABLES
    is_playing,
    audio_file,     \* audio_file_inode
    current_offset,
    cur_block,      \* the half that sb16_handler fills next
    half,           \* what each half of DMA_Buffer holds: [start, len] in the file
    dsp,            \* the card plays
    position,       \* the half that it plays
    irq,            \* its interrupt is requested
    tail,           \* where sb16_handler is behind its sti
    at,             \* where each program is in play_music
    bytes_read,     \* its local variable
    pending,        \* the programs that a Ctrl-C is to kill
    plays,          \* counter for the bound
    heard,          \* history: how much of the file has been played
    raced           \* history: play_music, stop and sb16_handler have met, see below

state == <<is_playing, audio_file, current_offset, cur_block, half>>
card == <<dsp, position, irq, tail, heard>>
calls == <<at, bytes_read, pending, plays>>
sound_vars == <<state, card, calls, raced>>

Other(b) == 3 - b

\* What read_data returns for n bytes at an offset, as the uint32_t that its
\* callers keep it in: -1 is the largest one.
Failed == Word - 1

Bytes(f, offset, n) ==
    LET real_length == IF Size[f] - offset < n THEN Size[f] - offset ELSE n
    IN  IF f \in Refused THEN Failed
        ELSE IF offset >= Size[f] THEN 0
        ELSE IF \E i \in Broken[f] : offset <= i /\ i < offset + real_length THEN Failed
        ELSE real_length

\* The files that read_data never fails for.
Readable == {f \in File \ Refused : Broken[f] = {}}

Nothing == [start |-> 0, len |-> 0]

\* What a read of n bytes puts into a half; after a failed one nothing is said.
Part(start, n) == IF n = Failed THEN Nothing ELSE [start |-> start, len |-> n]

SoundInit ==
    /\ is_playing = FALSE
    /\ audio_file = NoFile
    /\ current_offset = 0
    /\ cur_block = 1
    /\ half = [b \in 1 .. 2 |-> Nothing]
    /\ dsp = FALSE
    /\ position = 1
    /\ irq = FALSE
    /\ tail = "none"
    /\ at = [p \in Proc |-> "user"]
    /\ bytes_read = [p \in Proc |-> 0]
    /\ pending = {}
    /\ plays = 0
    /\ heard = 0
    /\ raced = FALSE

-----------------------------------------------------------------------------
\* Someone other than p is in play_music, or sb16_handler is behind its sti.
Met(p) == tail # "none" \/ \E q \in Proc \ {p} : at[q] # "user"

\* play_music: the test of is_playing.
PlayCall(p) ==
    /\ at[p] = "user"
    /\ plays < MaxPlays
    /\ plays' = plays + 1
    /\ at' = [at EXCEPT ![p] = IF is_playing THEN "user" ELSE "open"]
    /\ raced' = (raced \/ (~is_playing /\ Met(p)))
    /\ UNCHANGED <<state, card, bytes_read, pending>>

Goes(p, from, to) ==
    /\ at[p] = from
    /\ at' = [at EXCEPT ![p] = to]
    /\ UNCHANGED <<pending, plays, raced>>

\* The DSP stops and is ready for commands.
Reset_DSP == dsp' = FALSE

\* The DMA controller is to start with the first half.
Transfer_Sound_DMA == position' = 1

\* The DSP plays.
start_play == dsp' = TRUE

\* The directory has the file, or not.
PlayFind(p, f) ==
    /\ Goes(p, "open", "check")
    /\ audio_file' = f
    /\ UNCHANGED <<is_playing, current_offset, cur_block, half, card, bytes_read>>

PlayMissing(p) ==
    /\ Goes(p, "open", "user")
    /\ UNCHANGED <<state, card, bytes_read>>

\* The magic number is not read in full: what is compared is uninitialised.
Unsure(f) == Bytes(f, 0, Magic) # Magic

\* The file is taken for a sound file and the DSP is reset.
PlayReset(p) ==
    /\ Goes(p, "check", "fill")
    /\ audio_file \in Sound \/ Unsure(audio_file)
    /\ Reset_DSP
    /\ UNCHANGED <<state, position, irq, tail, heard, bytes_read>>

\* It is not; audio_file_inode goes on naming it.
PlayRefused(p) ==
    /\ Goes(p, "check", "user")
    /\ audio_file \notin Sound \/ Unsure(audio_file)
    /\ UNCHANGED <<state, card, bytes_read>>

\* Both halves are filled.  The descriptor that the program also gets here, and
\* that nobody closes, is in its table in Descriptors.
PlayFill(p) ==
    /\ Goes(p, "fill", "dma")
    /\ LET n == Bytes(audio_file, current_offset, 2 * BLOCK_SIZE)
           first == IF n < BLOCK_SIZE THEN n ELSE BLOCK_SIZE
       IN  /\ bytes_read' = [bytes_read EXCEPT ![p] = n]
           /\ half' = IF n = Failed THEN [b \in 1 .. 2 |-> Nothing]
                      ELSE [b \in 1 .. 2 |->
                               IF b = 1 THEN [start |-> current_offset, len |-> first]
                               ELSE [start |-> current_offset + first, len |-> n - first]]
    /\ UNCHANGED <<is_playing, audio_file, current_offset, cur_block, card>>

PlayDMA(p) ==
    /\ Goes(p, "dma", "start")
    /\ Transfer_Sound_DMA
    /\ UNCHANGED <<state, dsp, irq, tail, heard, bytes_read>>

\* The sample rate is set and the card starts.
PlayStart(p) ==
    /\ Goes(p, "start", "done")
    /\ start_play
    /\ heard' = 0
    /\ UNCHANGED <<state, position, irq, tail, bytes_read>>

PlayDone(p) ==
    /\ Goes(p, "done", "count")
    /\ is_playing' = TRUE
    /\ UNCHANGED <<audio_file, current_offset, cur_block, half, card, bytes_read>>

PlayCount(p) ==
    /\ Goes(p, "count", "user")
    /\ current_offset' = (current_offset + bytes_read[p]) % Word
    /\ bytes_read' = [bytes_read EXCEPT ![p] = 0]
    /\ UNCHANGED <<is_playing, audio_file, cur_block, half, card>>

-----------------------------------------------------------------------------
\* The card has played a half, goes on with the other one and interrupts.
HalfOver ==
    /\ dsp /\ ~irq /\ tail = "none"
    /\ \A p \in Proc : at[p] \notin {"done", "count"}
    /\ irq' = TRUE
    /\ heard' = half[position].start + half[position].len
    /\ position' = Other(position)
    /\ UNCHANGED <<state, dsp, tail, calls, raced>>

\* Fault: a part of a block already ends the file.
AtEnd_Part(n) == n < BLOCK_SIZE

\* Fault: the end of the file is not noticed.
AtEnd_Never(n) == FALSE

\* sb16_handler takes a read of n bytes for the end of the file.
AtEnd(n) == n = 0

\* sb16_handler up to its sti.
sb16_handler ==
    LET n == Bytes(audio_file, current_offset, BLOCK_SIZE)
    IN  /\ irq
        /\ irq' = FALSE
        /\ half' = IF n = 0 THEN half
                   ELSE [half EXCEPT ![cur_block] = Part(current_offset, n)]
        /\ current_offset' = (current_offset + n) % Word
        /\ tail' = IF n = BLOCK_SIZE THEN "toggle" ELSE IF AtEnd(n) THEN "pause" ELSE "none"
        /\ UNCHANGED <<is_playing, audio_file, cur_block, dsp, position, heard, calls, raced>>

\* Behind it, each statement: the toggle and the restart, or those of stop.
Then(from, to) ==
    /\ tail = from
    /\ tail' = to
    /\ UNCHANGED <<half, position, irq, heard, calls, raced>>

\* Fault: the same half is filled again.
Toggled_Same == cur_block

\* The half to fill next.
Toggled == Other(cur_block)

BlockToggled ==
    /\ Then("toggle", "restart")
    /\ cur_block' = Toggled
    /\ UNCHANGED <<is_playing, audio_file, current_offset, dsp>>

BlockRestarted ==
    /\ Then("restart", "none")
    /\ start_play
    /\ UNCHANGED <<is_playing, audio_file, current_offset, cur_block>>

StopPause ==
    /\ Then("pause", "mark")
    /\ dsp' = FALSE
    /\ UNCHANGED <<is_playing, audio_file, current_offset, cur_block>>

StopMark ==
    /\ Then("mark", "forget")
    /\ is_playing' = FALSE
    /\ UNCHANGED <<audio_file, current_offset, cur_block, dsp>>

StopForget ==
    /\ Then("forget", "rewind")
    /\ audio_file' = NoFile
    /\ UNCHANGED <<is_playing, current_offset, cur_block, dsp>>

StopRewind ==
    /\ Then("rewind", "first")
    /\ current_offset' = 0
    /\ UNCHANGED <<is_playing, audio_file, cur_block, dsp>>

StopFirst ==
    /\ Then("first", "none")
    /\ cur_block' = 1
    /\ UNCHANGED <<is_playing, audio_file, current_offset, dsp>>

Tail ==
    BlockToggled \/ BlockRestarted \/ StopPause \/ StopMark \/ StopForget \/ StopRewind \/ StopFirst

-----------------------------------------------------------------------------
\* Fault: stop leaves cur_block where it is.
stop_KeepsBlock ==
    /\ dsp' = FALSE
    /\ is_playing' = FALSE
    /\ audio_file' = NoFile
    /\ current_offset' = 0
    /\ UNCHANGED <<cur_block, half>>

\* stop, as the keyboard's handler calls it: with IF = 0.
stop ==
    /\ dsp' = FALSE
    /\ is_playing' = FALSE
    /\ audio_file' = NoFile
    /\ current_offset' = 0
    /\ cur_block' = 1
    /\ UNCHANGED half

\* Ctrl-C stops the music, whatever program it is meant for, and signals that
\* one, which need not be one that plays.
CtrlC ==
    /\ stop
    /\ pending' \in {pending} \cup {pending \cup {p} : p \in Proc}
    /\ raced' = (raced \/ irq \/ tail # "none" \/ \E p \in Proc : at[p] # "user")
    /\ UNCHANGED <<position, irq, tail, heard, at, bytes_read, plays>>

\* The next tick on the program's terminal kills it wherever it is: in
\* play_music, or in an sb16_handler that has interrupted it.
Killed(p) ==
    /\ p \in pending
    /\ pending' = pending \ {p}
    /\ at' = [at EXCEPT ![p] = "user"]
    /\ bytes_read' = [bytes_read EXCEPT ![p] = 0]
    /\ tail' \in {tail, "none"}
    /\ raced' = (raced \/ at[p] # "user" \/ tail' # tail)
    /\ UNCHANGED <<state, dsp, position, irq, heard, plays>>

Steps(p) ==
    \/ \E f \in File : PlayFind(p, f)
    \/ PlayMissing(p)
    \/ PlayReset(p)
    \/ PlayRefused(p)
    \/ PlayFill(p)
    \/ PlayDMA(p)
    \/ PlayStart(p)
    \/ PlayDone(p)
    \/ PlayCount(p)

SoundNext ==
    \/ \E p \in Proc : PlayCall(p) \/ Steps(p) \/ Killed(p)
    \/ HalfOver
    \/ sb16_handler
    \/ Tail
    \/ CtrlC

SoundSpec == SoundInit /\ [][SoundNext]_sound_vars

\* A program in the kernel runs on, a card that plays interrupts, and the handler
\* runs to its end.
SoundFairSpec ==
    /\ SoundSpec
    /\ WF_sound_vars(HalfOver)
    /\ WF_sound_vars(sb16_handler)
    /\ WF_sound_vars(Tail)
    /\ \A p \in Proc : WF_sound_vars(Steps(p))

-----------------------------------------------------------------------------
\* The driver plays a file that can be read, and none of these has happened: two
\* programs in play_music at once; play_music entered while sb16_handler is in
\* its stop; a Ctrl-C, or a kill, that falls into play_music, or between the
\* card's interrupt and the end of its handler.
Orderly == ~raced /\ audio_file \in Readable

\* The half that has been played holds the part of the file that comes next.
PlaysInOrder == [][HalfOver /\ Orderly => half[position].start = heard]_sound_vars

\* sb16_handler never fills the half that the card plays.
FillsBehind ==
    [][sb16_handler /\ Orderly /\ current_offset' # current_offset
          => cur_block # position]_sound_vars

\* When the driver ends the music, all but the last block of the file has been
\* played.
StopsAtEnd ==
    [][Tail /\ Orderly /\ is_playing /\ ~is_playing'
          => heard + BLOCK_SIZE >= Size[audio_file]]_sound_vars

\* Music that plays ends, and another file can then be played.  A file that
\* read_data fails for may play for ever: -1 is not the 0 that ends it.
MusicEnds == (is_playing /\ audio_file \in Readable) ~> (~is_playing \/ raced)
=============================================================================
