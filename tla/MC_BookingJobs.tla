--------------------------- MODULE MC_BookingJobs ---------------------------
(***************************************************************************)
(* The two jobs of one booking, with crashes and retries.  Bookings share  *)
(* nothing here but the process that dies under them.                      *)
(***************************************************************************)
EXTENDS BookingJobs
=============================================================================
