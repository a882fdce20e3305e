---------------------------- MODULE MCFormDSearch ----------------------------
(* A small instance of FormDSearch: six filings on three days, two of them *)
(* with two issuers and hence two rows; pages of one to three leads.        *)
EXTENDS FormDSearch

CONSTANT alice

MCDay == <<1, 1, 2, 2, 3, 3>>
MCIssuers == <<1, 1, 2, 1, 1, 2>>
MCReading == <<"lead", "no match", "lead", "broken", "lead", "too early">>
=============================================================================
