----------------------------- MODULE MCDelivery -----------------------------
(* A visitor is told by email and SMS while his host is told by email.      *)
EXTENDS Delivery

CONSTANTS email, sms, host
MCContacts == {<<email, sms>>, <<host>>}
=============================================================================
