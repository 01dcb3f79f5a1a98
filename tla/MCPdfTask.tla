---------------------------- MODULE MCPdfTask ------------------------------
(* Instances of PdfTask for TLC. *)
EXTENDS PdfTask

\* A fault for each place where one is found, each kind of page, and pages of
\* different kinds in both orders.
MCDocuments ==
  {[fault |-> f, pages |-> <<"text">>] : f \in {"none", "MALFORMED_PDF", "PDF_PAGE_TOO_LARGE"}}
    \cup {[fault |-> "PDF_TEXT_TOO_LARGE", pages |-> p] :
            p \in {<<"text">>, <<"image">>}}
    \cup {[fault |-> "none", pages |-> p] :
            p \in {<<"short">>, <<"image", "text">>, <<"blank", "image">>}}
============================================================================
