----------------------------- MODULE SeenJobs ------------------------------
(* A job as the routes of analysis/routes.ts show it to a page.            *)

\* "queued" and "processing" differ only in what the page says: one status
\* stands for both.
Queued == {"processing", "awaiting_email", "email_pending", "email_sending"}

SeenStatuses == {"none", "gone"} \cup Queued

\* What the worker and the sweep do to a job whose TTL is not over.
WorkerMoves ==
  {<<"processing", "awaiting_email">>, <<"processing", "gone">>,
   <<"email_pending", "email_sending">>, <<"email_sending", "email_pending">>,
   <<"email_sending", "gone">>}
============================================================================
