-------------------------- MODULE MCAddressFormats --------------------------
(* Instance of AddressFormats for TLC. *)
EXTENDS AddressFormats, TLC
=============================================================================
