--------------------------------- MODULE WAL ---------------------------------
(***************************************************************************)
(* The write-ahead log of include/storage/wal.h as pure operators.         *)
(*                                                                         *)
(* A log file is a sequence of frames [rec, ok].  WALWriter writes frames  *)
(* through an std::ofstream, so a written frame first sits in the stream's *)
(* buffer and reaches the file only on flush (Sync, Close) or when the     *)
(* buffer fills.  The writer's state is therefore a pair: the frames in    *)
(* the file and the frames still buffered.  A frame with ok = FALSE is a   *)
(* frame cut short by a crash: its length or CRC does not check.           *)
(***************************************************************************)
EXTENDS Naturals, Sequences, SequencesExt

Frame(r) == [rec |-> r, ok |-> TRUE]

\* WALWriter::Append / WriteFrame: crc, length and payload go to the stream
\* buffer; nothing is flushed.
WriteFrame(buf, r) == Append(buf, Frame(r))

\* WALWriter::Sync and Close: file_.flush() moves the buffer into the file.
Flush(file, buf) == file \o buf

\* WALReader::Replay: frames are read in order and the loop breaks at the
\* first frame whose length or CRC does not check; later frames are never
\* read, whatever they hold.
Replay(file) ==
  LET bad == SelectInSeq(file, LAMBDA f : ~f.ok)
      good == IF bad = 0 THEN file ELSE SubSeq(file, 1, bad - 1)
  IN  [i \in 1..Len(good) |-> good[i].rec]

\* The file after the process dies: the ofstream has written any prefix of
\* its buffer to the OS (whole buffer chunks), and the chunk boundary may
\* cut the next frame, which is then left half written.
CrashImages(file, buf) ==
  {file \o SubSeq(buf, 1, n) : n \in 0..Len(buf)}
  \cup {file \o SubSeq(buf, 1, n) \o <<[buf[n + 1] EXCEPT !.ok = FALSE]>> :
          n \in 0..Len(buf) - 1}

=============================================================================
