---------------------------- MODULE MCPdfImport ----------------------------
(***************************************************************************)
(* TLC instances of PdfImport: one PDF of three pages, one topic.          *)
(***************************************************************************)
EXTENDS PdfImport, TLC

=============================================================================
