---------------------------- MODULE MCDownloader ----------------------------
(***************************************************************************)
(* Two builds of three and two blocks, a page that is shorter than a build *)
(* and one that is longer, three attempts as in the code.                  *)
(***************************************************************************)
EXTENDS Downloader

CONSTANTS pk, pk2, b2, b3, c2, html

MCBlock == {pk, pk2, b2, b3, c2, html}
MCMagic == {pk, pk2}
MCBuilds == {<<pk, b2, b3>>, <<pk2, c2>>}
MCPages == {<<html>>, <<html, html, html, html>>}
=============================================================================
