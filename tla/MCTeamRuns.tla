----------------------------- MODULE MCTeamRuns -----------------------------
EXTENDS TeamRuns
=============================================================================
