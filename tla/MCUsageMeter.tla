---- MODULE MCUsageMeter ----
EXTENDS UsageMeter
OneStream == <<1>>
BucketOne == <<1, 1>>
====
