---------------------------- MODULE MCAccessControl ----------------------------
(* A small instance of AccessControl: one user with two devices, one admin. *)
EXTENDS AccessControl
================================================================================
