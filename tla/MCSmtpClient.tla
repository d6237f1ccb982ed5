---------------------------- MODULE MCSmtpClient ----------------------------
(* The two extensions sendEmail looks at.                                  *)
EXTENDS SmtpClient

MCExtensions == {"STARTTLS", "8BITMIME"}
=============================================================================
