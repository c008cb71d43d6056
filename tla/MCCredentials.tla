---------------------------- MODULE MCCredentials ----------------------------
(* Credentials for TLC: the keys of AWS. *)
EXTENDS Credentials, TLC

AwsFields == <<"access_key_id", "secret_access_key">>
Deleted == <<"username", "password", "pull_secret">>
HomesAlike == Permutations(Homes)
=============================================================================
