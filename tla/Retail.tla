------------------------------- MODULE Retail -------------------------------
(* What the modules of the point of sale share.                             *)
CONSTANTS
  Tickets        \* tickets: each names its sale, its payments and its cash movements
=============================================================================
