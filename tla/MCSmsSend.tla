----------------------------- MODULE MCSmsSend -----------------------------
EXTENDS SmsSend
MCTexts == {<<1, 2>>, <<2, 1, 1, 2>>}
=============================================================================
