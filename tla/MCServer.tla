----------------------------- MODULE MCServer -----------------------------
(* Server for TLC: what the levels of the configuration may hold. *)
EXTENDS Server

None  == [k \in {} |-> Empty]
Login == [etsy_api_key |-> Word, vault_password |-> Word]

MCNumbers ==
  [numbers |->
     [master |-> [read_rate_limit |-> Number(3), write_rate_limit |-> Number(-1)],
      repo   |-> [read_rate_limit |-> Number(2), dangerous_rate_limit |-> Null],
      env    |-> [etsy_api_key |-> Word, vault_password |-> Word,
                  write_rate_limit |-> Digits(1), dangerous_rate_limit |-> Digits(1)]]]

\* One with good numbers, one with a string and a negative number for rates,
\* and four with which nothing starts.
MCFound ==
  [numbers |-> MCNumbers.numbers,
   strings |-> [master |-> Login, env |-> [dangerous_rate_limit |-> Digits(-1)],
                repo |-> [write_rate_limit |-> Digits(1)]],
   sign    |-> [master |-> Login, env |-> None,
                repo |-> [dangerous_rate_limit |-> Digits(-1)]],
   corrupt |-> [master |-> Corrupt, repo |-> Login, env |-> None],
   word    |-> [master |-> Login, repo |-> None, env |-> [read_rate_limit |-> Word]],
   locked  |-> [master |-> Login, repo |-> None, env |-> [vault_password |-> Empty]]]

=============================================================================
