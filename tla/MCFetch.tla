------------------------------ MODULE MCFetch ------------------------------
EXTENDS Fetch

\* a page with its map in two packets, a short one, an error with a length
MCResponses ==
    { [ok |-> TRUE, len |-> 2, clen |-> FALSE, img |-> "map"],
      [ok |-> FALSE, len |-> 1, clen |-> TRUE, img |-> "plain"] }

=============================================================================
