---------------------------- MODULE MCFileUpload ----------------------------
EXTENDS FileUpload

(* A user name matters to socks5 only, fake_continue and uploads to a POST. *)
MCSetups ==
  {s \in Setup : /\ s.username => s.proxy = "socks5"
                 /\ s.fake => s.method = "POST"}
MCSchemes == {"http", "https", "other"}
MCForms == {<<>>, <<7>>, <<7, 9>>}
=============================================================================
