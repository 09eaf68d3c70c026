------------------------------- MODULE Stdio -------------------------------
(***************************************************************************)
(* A FILE on a file of the host: sdk/libc/src/stdio.cpp.  Reads go through *)
(* a buffer or past it, writes go to the host at once, and one character   *)
(* may be pushed back.  A call holds the lock of the stream; the calls of  *)
(* the host inside a read may fail.  The stream is the only writer.        *)
(***************************************************************************)
EXTENDS Integers, SequencesExt

CONSTANTS
    Contents,           \* what the file may hold when it is opened: sequences of bytes
    MaxLength,          \* the longest file of the checked instance
    BufferSize,         \* gReadBufferSize, 4096 in the code
    Writes,            \* what a write may write: sequences of bytes
    Pushed              \* what may be pushed back

\* The module that instantiates this one assumes it of its constants.
StdioAssumption ==
    /\ MaxLength \in Nat /\ BufferSize \in Nat \ {0}
    /\ \A c \in Contents : c \in Seq(Nat) /\ Len(c) <= MaxLength
    /\ \A w \in Writes : w \in Seq(Nat)
    /\ Pushed \subseteq Nat

Nothing == -1           \* of unget

VARIABLES
    file,               \* the host's file
    readable, writable, append,
    position, atEnd, failed, unget,
    readStart, readBuffer,      \* the bytes of the buffer: readLength is its length
    reading,            \* the size of the read that runs, or 0
    out,                \* what it has read
    expected,           \* history: what it has to read
    over                \* whether its loop has met the end of the file, or an error

modeVars == <<readable, writable, append>>
readVars == <<reading, out, expected, over>>
vars == <<file, modeVars, position, atEnd, failed, unget, readStart, readBuffer, readVars>>

\* fopen: "r", "r+", "w+" and "a+"; "w" deletes the contents.
Init ==
    /\ file \in Contents
    /\ \/ readable = TRUE /\ writable \in BOOLEAN /\ append = FALSE
       \/ readable \in BOOLEAN /\ writable = TRUE /\ append \in BOOLEAN /\ (append \/ file = <<>>)
    /\ position = 0 /\ atEnd = FALSE /\ failed = FALSE /\ unget = Nothing
    /\ readStart = 0 /\ readBuffer = <<>>
    /\ reading = 0 /\ out = <<>> /\ expected = <<>> /\ over = "no"

Idle == reading = 0

\* What the host reads at a position, and the file after it wrote there: a gap is
\* filled with zeros.
Lesser(a, b) == IF a < b THEN a ELSE b
Host_Read(from, size) == SubSeq(file, from + 1, Lesser(from + size, Len(file)))
Host_Written(at, bytes) ==
    [i \in 1..(IF Len(file) > at + Len(bytes) THEN Len(file) ELSE at + Len(bytes)) |->
        IF i \in (at + 1)..(at + Len(bytes)) THEN bytes[i - at]
        ELSE IF i <= Len(file) THEN file[i] ELSE 0]

-----------------------------------------------------------------------------
(* Read_Locked, with a step for every round of its loop                     *)

\* The pushed back character comes first.
Read(size) ==
    LET pushed == IF unget = Nothing THEN <<>> ELSE <<unget>> IN
    /\ Idle /\ readable
    /\ reading' = size
    /\ out' = pushed
    /\ expected' = pushed \o Host_Read(position, size - Len(pushed))
    /\ unget' = Nothing
    /\ UNCHANGED <<file, modeVars, position, atEnd, failed, readStart, readBuffer, over>>

ReadRefused ==
    /\ Idle /\ ~readable
    /\ failed' = TRUE
    /\ UNCHANGED <<file, modeVars, position, atEnd, unget, readStart, readBuffer, readVars>>

Left == reading - Len(out)
Loops == reading # 0 /\ over = "no" /\ Left > 0
InBuffer == position >= readStart /\ position < readStart + Len(readBuffer)

FromBuffer ==
    LET from == position - readStart
        chunk == SubSeq(readBuffer, from + 1, Lesser(from + Left, Len(readBuffer)))
    IN
    /\ Loops /\ InBuffer
    /\ out' = out \o chunk
    /\ position' = position + Len(chunk)
    /\ UNCHANGED <<file, modeVars, atEnd, failed, unget, readStart, readBuffer, reading,
                   expected, over>>

\* As much as a buffer is read past it.
Direct ==
    LET bytes == Host_Read(position, Left) IN
    /\ Loops /\ ~InBuffer /\ Left >= BufferSize
    /\ out' = out \o bytes
    /\ position' = position + Len(bytes)
    /\ over' = IF bytes = <<>> THEN "end" ELSE "no"
    /\ UNCHANGED <<file, modeVars, atEnd, failed, unget, readStart, readBuffer, reading, expected>>

Fill ==
    LET bytes == Host_Read(position, BufferSize) IN
    /\ Loops /\ ~InBuffer /\ Left < BufferSize
    /\ readBuffer' = bytes
    /\ readStart' = IF bytes = <<>> THEN readStart ELSE position
    /\ over' = IF bytes = <<>> THEN "end" ELSE "no"
    /\ UNCHANGED <<file, modeVars, position, atEnd, failed, unget, reading, out, expected>>

\* The host cannot read, or there is no memory for the buffer.
ReadFails ==
    /\ Loops /\ ~InBuffer
    /\ failed' = TRUE /\ over' = "error"
    /\ readBuffer' = IF Left < BufferSize THEN <<>> ELSE readBuffer
    /\ UNCHANGED <<file, modeVars, position, atEnd, unget, readStart, reading, out, expected>>

ReadReturns ==
    /\ reading # 0 /\ ~Loops
    /\ atEnd' = (atEnd \/ (Left > 0 /\ ~failed))
    /\ reading' = 0 /\ out' = <<>> /\ expected' = <<>> /\ over' = "no"
    /\ UNCHANGED <<file, modeVars, position, failed, unget, readStart, readBuffer>>

-----------------------------------------------------------------------------
\* Write_Locked: the buffer is given up, and with append the position is the end.
KeptBuffer == readBuffer
DroppedBuffer == <<>>

\* A file whose size the host cannot tell is taken for an empty one.
WritesAt == IF append THEN {Len(file), 0} ELSE {position}

\* The host may write less than it is given.
Write(bytes) ==
    /\ Idle /\ writable
    /\ \E at \in WritesAt, written \in 0..Len(bytes) :
          /\ at + written <= MaxLength
          /\ file' = Host_Written(at, SubSeq(bytes, 1, written))
          /\ position' = at + written
    /\ readBuffer' = DroppedBuffer
    /\ unget' = Nothing
    /\ UNCHANGED <<modeVars, atEnd, failed, readStart, readVars>>

WriteFails ==
    /\ Idle /\ failed' = TRUE
    /\ IF writable
       THEN /\ readBuffer' = <<>> /\ unget' = Nothing
            /\ position' \in WritesAt
       ELSE UNCHANGED <<readBuffer, unget, position>>
    /\ UNCHANGED <<file, modeVars, atEnd, readStart, readVars>>

\* ftello, and fseeko with an offset from the start, from here or from the end.
Told == position - (IF unget = Nothing THEN 0 ELSE 1)

Seek(base, offset) ==
    /\ Idle /\ base + offset \in 0..MaxLength
    /\ position' = base + offset
    /\ unget' = Nothing /\ atEnd' = FALSE
    /\ UNCHANGED <<file, modeVars, failed, readStart, readBuffer, readVars>>

ungetc(byte) ==
    /\ Idle /\ unget = Nothing
    /\ unget' = byte /\ atEnd' = FALSE
    /\ UNCHANGED <<file, modeVars, position, failed, readStart, readBuffer, readVars>>

clearerr ==
    /\ Idle
    /\ atEnd' = FALSE /\ failed' = FALSE
    /\ UNCHANGED <<file, modeVars, position, unget, readStart, readBuffer, readVars>>

Next ==
    \/ \E size \in 1..MaxLength : Read(size)
    \/ ReadRefused
    \/ FromBuffer
    \/ Direct
    \/ Fill
    \/ ReadFails
    \/ ReadReturns
    \/ \E bytes \in Writes : Write(bytes)
    \/ WriteFails
    \/ \E offset \in 0..MaxLength : Seek(0, offset)
    \/ \E offset \in -1..1 : Seek(Told, offset)
    \/ \E offset \in -1..0 : Seek(Len(file), offset)
    \/ \E byte \in Pushed : ungetc(byte)
    \/ clearerr

Spec == Init /\ [][Next]_vars

-----------------------------------------------------------------------------
TypeOK ==
    /\ Len(file) <= MaxLength /\ position \in 0..MaxLength
    /\ {readable, writable, append, atEnd, failed} \subseteq BOOLEAN
    /\ over \in {"no", "end", "error"}
    /\ unget \in Pushed \union {Nothing}
    /\ readStart \in 0..MaxLength /\ Len(readBuffer) <= BufferSize
    /\ reading \in 0..MaxLength

\* What the buffer holds is what the file holds there, after every write and seek.
BufferIsFile == readBuffer = Host_Read(readStart, Len(readBuffer))

\* However a read is put together, it has read a part of what the file holds behind
\* the pushed back character, all of it when nothing failed, and it stands behind that.
ReadsTheFile ==
    reading # 0 =>
        /\ IsPrefix(out, expected)
        /\ ~Loops => out = expected \/ over = "error"

StdioSound == TypeOK /\ BufferIsFile /\ ReadsTheFile
=============================================================================
