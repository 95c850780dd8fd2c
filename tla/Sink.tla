-------------------------------- MODULE Sink --------------------------------
(***************************************************************************)
(* The exporter's writer when it is a BigBuffer (export.rs 180-213): the   *)
(* Write impl of Exporter (145-155) and fixup reservation (233-249) during *)
(* run, Exporter::finish applying the fixups (676-691), BigBuffer::finish *)
(* and BigBuffer's Drop handing the in-memory image to the real sink, on   *)
(* the normal path, when the real sink fails, and when run panics.         *)
(*                                                                         *)
(* The image is abstracted to cells: "D" data, "Z" the zeros a fixup       *)
(* reserves, "V" a fixup's value.  run is abstracted to the writer calls   *)
(* it makes and to its panics (the capacity checks, the address and        *)
(* position expects, the NUL assertion).  The caller keeps the BigBuffer   *)
(* and lends it to the Exporter (`&mut`), calls run, Exporter::finish and  *)
(* BigBuffer::finish, and drops the buffer on every exit, as the doc       *)
(* comment of BigBuffer::finish describes.                                 *)
(*                                                                         *)
(* Exporter<W: Write + Seek> may also be given a seekable file directly   *)
(* (`direct`).  Then `buf` and `cur` are the file and its position, every *)
(* write of run and every seek, write and flush of Exporter::finish may   *)
(* fail, and an error ends the export through `?`.                         *)
(***************************************************************************)
EXTENDS Integers, SequencesExt

CONSTANTS
  MaxCells,    \* bound on the image run writes
  SinkMayFail  \* whether the real sink may return an error

VARIABLES
  buf,        \* BigBuffer.buffer: the Vec of the Cursor
  cur,        \* the Cursor's position
  pos,        \* Exporter.pos
  pending,    \* offsets of fixups reserved and not yet committed
  fixups,     \* Exporter.fixups: committed offsets in commit order
  fi,         \* Exporter::finish's loop counter
  out,        \* what the real sink has received
  failed,     \* the real sink has returned an error
  panicking,  \* the thread is unwinding
  result,     \* "none" | "ok" | "err" | "panic" | "abort"
  pc,         \* "run" | "exfinish" | "bbfinish" | "drop" | "exit"
  snap,       \* ghost: the image when run returned
  rel,        \* ghost: the image when the buffer was handed over
  direct      \* the Exporter writes to the file itself, not a BigBuffer

vars == <<buf, cur, pos, pending, fixups, fi, out, failed, panicking, result, pc, snap, rel, direct>>

(* Cursor<Vec<u8>>::write of one cell at the cursor: overwrite or extend.  *)
CursorWrite(b, c, x) ==
  IF c < Len(b) THEN [b EXCEPT ![c + 1] = x] ELSE Append(b, x)

Init ==
  /\ buf = <<>> /\ cur = 0 /\ pos = 0 /\ pending = {} /\ fixups = <<>> /\ fi = 1
  /\ out = <<>> /\ failed = FALSE /\ panicking = FALSE /\ result = "none"
  /\ pc = "run" /\ snap = <<>> /\ rel = <<>>
  /\ direct \in BOOLEAN

RunVars == <<fi, out, failed, panicking, result, pc, snap, rel, direct>>

(* Exporter::write_all: pos += len, then the BigBuffer write.               *)
WriteData ==
  /\ pc = "run" /\ pos < MaxCells
  /\ pos' = pos + 1
  /\ buf' = CursorWrite(buf, cur, "D") /\ cur' = cur + 1
  /\ UNCHANGED <<pending, fixups>> /\ UNCHANGED RunVars

(* Variant writing the zeros to the inner writer, bypassing pos.          *)
ReserveNoPos ==
  /\ pc = "run" /\ pos < MaxCells
  /\ pending' = pending \cup {pos}
  /\ pos' = pos
  /\ buf' = CursorWrite(buf, cur, "Z") /\ cur' = cur + 1
  /\ UNCHANGED fixups /\ UNCHANGED RunVars

(* fixup32 / fixup64 / fixup_large: remember pos, write zeros.             *)
Reserve ==
  /\ pc = "run" /\ pos < MaxCells
  /\ pending' = pending \cup {pos}
  /\ pos' = pos + 1
  /\ buf' = CursorWrite(buf, cur, "Z") /\ cur' = cur + 1
  /\ UNCHANGED fixups /\ UNCHANGED RunVars

(* commit / commit_val: queue the fixup's value.                           *)
Commit(f) ==
  /\ pc = "run" /\ f \in pending
  /\ pending' = pending \ {f}
  /\ fixups' = Append(fixups, f)
  /\ UNCHANGED <<buf, cur, pos>> /\ UNCHANGED RunVars

(* Fixup64::cancel: drop the token, leaving the zeros.                     *)
Cancel(f) ==
  /\ pc = "run" /\ f \in pending
  /\ pending' = pending \ {f}
  /\ UNCHANGED <<buf, cur, pos, fixups>> /\ UNCHANGED RunVars

(* A panic in run: unwinding drops the Exporter, then the BigBuffer (with *)
(* a direct file, nothing more is written).                                *)
RunPanic ==
  /\ pc = "run"
  /\ panicking' = TRUE /\ result' = "panic" /\ pc' = IF direct THEN "exit" ELSE "drop"
  /\ rel' = buf
  /\ UNCHANGED <<buf, cur, pos, pending, fixups, fi, out, failed, snap, direct>>

(* run returns Ok with every token consumed.                               *)
RunOk ==
  /\ pc = "run" /\ pending = {}
  /\ pc' = "exfinish" /\ snap' = buf
  /\ UNCHANGED <<buf, cur, pos, pending, fixups, fi, out, failed, panicking, result, rel, direct>>

(* Variant writing the value at the cursor, without the seek.             *)
ExFinishFixupNoSeek ==
  /\ pc = "exfinish" /\ fi <= Len(fixups)
  /\ buf' = CursorWrite(buf, cur, "V") /\ cur' = cur + 1
  /\ fi' = fi + 1
  /\ UNCHANGED <<pos, pending, fixups, out, failed, panicking, result, pc, snap, rel, direct>>

(* Exporter::finish: seek to the fixup's offset, write its value.          *)
ExFinishFixup ==
  /\ pc = "exfinish" /\ fi <= Len(fixups)
  /\ buf' = CursorWrite(buf, fixups[fi], "V") /\ cur' = fixups[fi] + 1
  /\ fi' = fi + 1
  /\ UNCHANGED <<pos, pending, fixups, out, failed, panicking, result, pc, snap, rel, direct>>

(* Exporter's write_all with a direct file: `self.pos += buf.len()`, then *)
(* `self.w.write_all(buf)` fails; run returns the error through `?`.       *)
WriteFail ==
  /\ pc = "run" /\ direct /\ SinkMayFail /\ pos < MaxCells
  /\ pos' = pos + 1
  /\ failed' = TRUE /\ result' = "err" /\ pc' = "exit"
  /\ UNCHANGED <<buf, cur, pending, fixups, fi, out, panicking, snap, rel, direct>>

(* Exporter::finish with a direct file: `w.seek(..)?`, the value's         *)
(* `w.write_all(..)?`, or the final `w.flush()` fails, and finish returns *)
(* the error with the fixups from fi on not applied.                      *)
FinishFail ==
  /\ pc = "exfinish" /\ direct /\ SinkMayFail
  /\ failed' = TRUE /\ result' = "err" /\ pc' = "exit"
  /\ UNCHANGED <<buf, cur, pos, pending, fixups, fi, out, panicking, snap, rel, direct>>

(* w.flush(): a no-op on the Cursor, after which the caller goes on to     *)
(* BigBuffer::finish; with a direct file the export is complete.          *)
ExFinishEnd ==
  /\ pc = "exfinish" /\ fi > Len(fixups)
  /\ IF direct THEN pc' = "exit" /\ result' = "ok" /\ rel' = rel
               ELSE pc' = "bbfinish" /\ rel' = buf /\ result' = result
  /\ UNCHANGED <<buf, cur, pos, pending, fixups, fi, out, failed, panicking, snap, direct>>

(* The real sink's write_all of `b`: all of it, or, when it fails, a       *)
(* strict prefix and an error.                                             *)
SinkWrite(b) ==
  \/ out' = out \o b /\ UNCHANGED failed
  \/ /\ SinkMayFail /\ b # <<>>
     /\ \E k \in 0 .. Len(b) - 1 : out' = out \o SubSeq(b, 1, k)
     /\ failed' = TRUE

(* Variant discarding the error of the final write.                       *)
BBFinishIgnoreError ==
  /\ pc = "bbfinish"
  /\ buf' = <<>>
  /\ SinkWrite(buf)
  /\ result' = "ok"
  /\ pc' = "drop"
  /\ UNCHANGED <<cur, pos, pending, fixups, fi, panicking, snap, rel, direct>>

(* BigBuffer::finish: write_all(&mem::take(buffer)), its error returned.   *)
BBFinish ==
  /\ pc = "bbfinish"
  /\ buf' = <<>>
  /\ SinkWrite(buf)
  /\ result' = IF failed' THEN "err" ELSE "ok"
  /\ pc' = "drop"
  /\ UNCHANGED <<cur, pos, pending, fixups, fi, panicking, snap, rel, direct>>

(* Variant writing the buffer from the cursor on, as io::copy would.      *)
DropFromCursor ==
  LET rest == SubSeq(buf, cur + 1, Len(buf)) IN
  /\ pc = "drop"
  /\ \/ out' = out \o rest /\ UNCHANGED <<failed, result>>
     \/ /\ SinkMayFail /\ rest # <<>>
        /\ \E k \in 0 .. Len(rest) - 1 : out' = out \o SubSeq(rest, 1, k)
        /\ failed' = TRUE
        /\ result' = IF panicking THEN "abort" ELSE "panic"
  /\ pc' = "exit"
  /\ UNCHANGED <<buf, cur, pos, pending, fixups, fi, panicking, snap, rel, direct>>

(* Drop for BigBuffer: write_all(buffer.get_ref()).expect(..); a failure   *)
(* panics, and a panic while unwinding aborts.                             *)
Drop ==
  /\ pc = "drop"
  /\ \/ out' = out \o buf /\ UNCHANGED <<failed, result>>
     \/ /\ SinkMayFail /\ buf # <<>>
        /\ \E k \in 0 .. Len(buf) - 1 : out' = out \o SubSeq(buf, 1, k)
        /\ failed' = TRUE
        /\ result' = IF panicking THEN "abort" ELSE "panic"
  /\ pc' = "exit"
  /\ UNCHANGED <<buf, cur, pos, pending, fixups, fi, panicking, snap, rel, direct>>

Exited == pc = "exit" /\ UNCHANGED vars

Next ==
  \/ WriteData \/ Reserve \/ \E f \in pending : Commit(f) \/ Cancel(f)
  \/ RunPanic \/ RunOk \/ ExFinishFixup \/ ExFinishEnd \/ BBFinish \/ Drop \/ Exited
  \/ WriteFail \/ FinishFail

Spec == Init /\ [][Next]_vars

-----------------------------------------------------------------------------
(* The image with every committed fixup's value in place.                  *)
Patched(s, f) == [i \in DOMAIN s |-> IF i - 1 \in ToSet(f) THEN "V" ELSE s[i]]

(* Types; and while run writes, Exporter.pos is the Cursor's position and  *)
(* the length of the image, so that every offset a fixup or the index      *)
(* records is where the bytes really are.                                  *)
TypeOK ==
  /\ \A i \in DOMAIN buf : buf[i] \in {"D", "Z", "V"}
  /\ pc \in {"run", "exfinish", "bbfinish", "drop", "exit"}
  /\ result \in {"none", "ok", "err", "panic", "abort"}
  /\ pc = "run" => cur = pos /\ Len(buf) = pos

(* An export that returns Ok leaves in the real sink exactly the image run *)
(* wrote, with the value of every committed fixup at its offset.           *)
FinalImage ==
  pc = "exit" /\ result = "ok" => (IF direct THEN buf ELSE out) = Patched(snap, fixups)

(* Spec section 5: the buffer is released to the real sink on every exit   *)
(* path, the panic of run included, exactly once, unless the sink fails.   *)
ReleasedOnce ==
  pc = "exit" /\ ~direct /\ ~failed => out = rel

(* The export reports Ok exactly when neither run panicked nor the sink    *)
(* failed, and a sink failure on the normal path is an io::Error, not a    *)
(* panic in Drop.                                                          *)
ErrorSurfaced ==
  pc = "exit" =>
    /\ result = "ok" <=> ~failed /\ ~panicking
    /\ failed /\ ~panicking => result = "err"
====
