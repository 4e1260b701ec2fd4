--------------------------- MODULE MCChapterFetch ---------------------------
(* A chapter of three pages.  With bars at 60 and 30 per cent, two pages of   *)
(* three are nearly complete and one of three passes only the softer bar.    *)
EXTENDS ChapterFetch

\* One answer of every kind the code tells apart.
EveryAnswer == {Image, EmptyBody, NetError, 403, 404, 429, 503}
=============================================================================
