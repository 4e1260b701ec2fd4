---------------------------- MODULE MCChapterFile ----------------------------
(* Two loops after the same chapter, and a process that dies at most twice.   *)
EXTENDS ChapterFile
=============================================================================
